------------------------------- MODULE DataProofs -------------------------------
(***************************************************************************)
(* Theorems of three modules that share nothing but this place: TmQueue,   *)
(* the queue of tm_queue.c; XxhArith, the arithmetic of xxhash.h; and      *)
(* XxhStreams, its streams.                                                *)
(*                                                                         *)
(* The queue, for any threads and values and any finite set of entries,    *)
(* stays one doubly linked list, implements Deque, and its replies are     *)
(* true but for a stale succ.  First what a walk along a list meets, then  *)
(* what each operation does to the list and to its content, one lemma for  *)
(* each action, NextInv, and the theorems.                                 *)
(*                                                                         *)
(* The builds of xxhash.h compute the same, for words of any size.  The    *)
(* remainder and the quotient by a modulus that is not a number are        *)
(* nonlinear for the provers, so they are reduced to the unique quotient   *)
(* and rest of x = z * m + r, and sums are then compared modulo W.         *)
(*                                                                         *)
(* A stream has the digest of its whole input, for any updates, seeds and  *)
(* sizes of secrets.  What the lanes and the accumulators have taken is    *)
(* written down as a function of how many stripes there were (Taken and    *)
(* AccOf), so that what an update, a digest or a one-shot function takes   *)
(* is a step from one of its values to another; XxhInv and Xxh3Inv say     *)
(* that these values are reached, and what the buffers hold.               *)
(***************************************************************************)
EXTENDS TmQueue, XxhStreams, XxhArith, FiniteSetTheorems, SequenceTheorems,
        WellFoundedInduction, TLAPS

--------------------------------------------------------------------------------
(* TmQueue: walks along a list.                                             *)

(* A set of natural numbers that is not empty has a least one: the          *)
(* intervals up to one of them are finite, and one of these is smallest.    *)
LEMMA LeastNumber ==
  ASSUME NEW S \in SUBSET Nat, S # {}
  PROVE  \E n \in S : \A m \in S : n <= m
<1> DEFINE below == {0..n : n \in S}
<1>1. below \subseteq FiniteSubsetsOf(Nat) /\ below # {}
  <2>1. \A n \in Nat : 0..n \in SUBSET Nat /\ IsFiniteSet(0..n)
    BY FS_Interval
  <2> QED
    BY <2>1 DEF FiniteSubsetsOf
<1>2. IsWellFoundedOn(StrictSubsetOrdering(Nat), FiniteSubsetsOf(Nat))
  BY FS_StrictSubsetOrderingWellFounded
<1>3. PICK x \in below : \A y \in below : ~(<<y, x>> \in StrictSubsetOrdering(Nat))
  <2> HIDE DEF below
  <2> QED
    BY <1>1, <1>2, WFMin
<1>4. PICK n \in S : x = 0..n
  BY <1>3
<1>5. ASSUME NEW m \in S, m < n PROVE FALSE
  <2>1. 0..m \subseteq 0..n /\ n \in 0..n /\ n \notin 0..m /\ 0..n \subseteq Nat
    BY <1>5
  <2>2. <<0..m, x>> \in StrictSubsetOrdering(Nat)
    BY <1>4, <2>1 DEF StrictSubsetOrdering
  <2> QED
    BY <1>3, <2>2
<1> QED
  BY <1>5

Steps(link, n, f) ==
  f = [i \in 1..Cardinality(Nodes) |-> IF i = 1 THEN n ELSE Follow(link, f[i - 1])]

(* A function that goes from n along link step by step is Along(link, n):   *)
(* the two agree at 1, and there is no first step at which they part.       *)
LEMMA AlongIs ==
  ASSUME NEW link, NEW n, NEW g, Cardinality(Nodes) \in Nat, Steps(link, n, g)
  PROVE  Along(link, n) = g
<1> DEFINE N == Cardinality(Nodes)
           at == Along(link, n)
           apart == {i \in 1..N : at[i] # g[i]}
<1>1. Steps(link, n, at)
  <2>1. at = CHOOSE f : Steps(link, n, f)
    BY DEF Along, Steps
  <2> HIDE DEF at
  <2> QED
    BY <2>1
<1> HIDE DEF at, N
<1>2. ASSUME NEW f, Steps(link, n, f)
      PROVE  /\ f = [i \in 1..N |-> f[i]]
             /\ \A i \in 1..N : f[i] = IF i = 1 THEN n ELSE Follow(link, f[i - 1])
  <2>1. f = [i \in 1..N |-> IF i = 1 THEN n ELSE Follow(link, f[i - 1])]
    BY <1>2 DEF Steps, N
  <2> HIDE DEF Steps
  <2>2. \A i \in 1..N : f[i] = IF i = 1 THEN n ELSE Follow(link, f[i - 1])
    BY <2>1
  <2> QED
    BY <2>1, <2>2
<1>3. apart = {}
  <2> SUFFICES ASSUME apart # {} PROVE FALSE
    OBVIOUS
  <2>1. apart \in SUBSET Nat
    BY DEF N
  <2>2. PICK k \in apart : \A m \in apart : k <= m
    <3> HIDE DEF apart
    <3> QED
      BY <2>1, LeastNumber
  <2>3. k \in 1..N /\ N \in Nat
    BY DEF N
  <2>4. k # 1
    BY <1>1, <1>2, <2>2, <2>3
  <2>5. k - 1 \in 1..N /\ ~(k <= k - 1)
    BY <2>3, <2>4
  <2>6. at[k - 1] = g[k - 1]
    BY <2>2, <2>5
  <2>7. at[k] = Follow(link, at[k - 1]) /\ g[k] = Follow(link, g[k - 1])
    BY <1>1, <1>2, <2>3, <2>4
  <2> QED
    BY <2>2, <2>6, <2>7
<1>4. at = [i \in 1..N |-> at[i]] /\ g = [i \in 1..N |-> g[i]]
  BY <1>1, <1>2
<1>5. \A i \in 1..N : at[i] = g[i]
  BY <1>3
<1>6. at = g
  BY <1>4, <1>5
<1> QED
  BY <1>6 DEF at

(* The numbers from 1 to k are k.                                           *)
LEMMA CountTo ==
  ASSUME NEW k \in Nat
  PROVE  IsFiniteSet(1..k) /\ Cardinality(1..k) = k
<1>1. IsFiniteSet(1..k) /\ Cardinality(1..k) = IF 1 > k THEN 0 ELSE k - 1 + 1
  BY FS_Interval
<1>2. (IF 1 > k THEN 0 ELSE k - 1 + 1) = k
  OBVIOUS
<1> QED
  BY <1>1, <1>2

(* A sequence that names each entry once is no longer than there are        *)
(* entries, and has as many members as its length.                          *)
LEMMA ListBound ==
  ASSUME NEW f \in Seq(Nodes), Distinct(f)
  PROVE  /\ Len(f) \in Nat /\ Cardinality(Nodes) \in Nat /\ Len(f) <= Cardinality(Nodes)
         /\ IsFiniteSet(Met(f)) /\ Cardinality(Met(f)) = Len(f)
<1>1. /\ Len(f) \in Nat /\ DOMAIN f = 1..Len(f) /\ Met(f) \subseteq Nodes
      /\ IsFiniteSet(Nodes)
  BY ConstAssumption DEF Met
<1>2. f \in Bijection(1..Len(f), Met(f))
  BY <1>1 DEF Bijection, Injection, Surjection, IsInjective, Distinct, Met
<1>3. IsFiniteSet(Met(f)) /\ Cardinality(Met(f)) <= Cardinality(Nodes)
  BY <1>1, FS_Subset
<1>4. IsFiniteSet(1..Len(f)) /\ Cardinality(1..Len(f)) = Len(f)
  BY <1>1, CountTo
<1>5. Cardinality(1..Len(f)) = Cardinality(Met(f))
  <2>1. ExistsBijection(1..Len(f), Met(f))
    BY <1>2 DEF ExistsBijection
  <2> QED
    BY <1>3, <1>4, <2>1, FS_Bijection
<1> QED
  BY <1>1, <1>3, <1>4, <1>5, FS_CardinalityType

(* A walk from the first entry of a list along its links meets the list.    *)
LEMMA WalkIs ==
  ASSUME NEW link, NEW f \in Seq(Nodes), Distinct(f),
         \A i \in DOMAIN f : link[f[i]] = IF i = Len(f) THEN Null ELSE f[i + 1]
  PROVE  Walk(link, IF f = <<>> THEN Null ELSE f[1]) = f
<1> DEFINE n == IF f = <<>> THEN Null ELSE f[1]
           N == Cardinality(Nodes)
           g == [i \in 1..N |-> IF i <= Len(f) THEN f[i] ELSE Null]
           met == {i \in 1..N : g[i] # Null}
<1>1. /\ Len(f) \in Nat /\ N \in Nat /\ Len(f) <= N /\ DOMAIN f = 1..Len(f)
      /\ \A i \in 1..Len(f) : f[i] \in Nodes /\ f[i] # Null
  BY ListBound, ConstAssumption
<1>2. f = [i \in 1..Len(f) |-> f[i]]
  OBVIOUS
<1>3. Steps(link, n, g)
  <2> SUFFICES ASSUME NEW i \in 1..N
               PROVE  g[i] = IF i = 1 THEN n ELSE Follow(link, g[i - 1])
    BY DEF Steps
  <2>1. i \in Nat
    BY <1>1
  <2>2. CASE i = 1
    BY <1>1, <2>2
  <2>3. CASE i # 1 /\ i <= Len(f)
    <3>1. i - 1 \in 1..N /\ i - 1 \in 1..Len(f) /\ i - 1 <= Len(f) /\ i - 1 # Len(f)
      BY <1>1, <2>1, <2>3
    <3>2. g[i - 1] = f[i - 1] /\ link[f[i - 1]] = f[i]
      BY <1>1, <2>1, <3>1
    <3> QED
      BY <1>1, <2>3, <3>1, <3>2 DEF Follow
  <2>4. CASE i # 1 /\ i - 1 = Len(f)
    <3>1. i - 1 \in 1..N /\ i - 1 \in 1..Len(f) /\ i - 1 <= Len(f) /\ ~(i <= Len(f))
      BY <1>1, <2>1, <2>4
    <3>2. g[i - 1] = f[i - 1] /\ link[f[i - 1]] = Null
      BY <1>1, <2>4, <3>1
    <3> QED
      BY <1>1, <2>4, <3>1, <3>2 DEF Follow
  <2>5. CASE i # 1 /\ i - 1 > Len(f)
    <3>1. i - 1 \in 1..N /\ ~(i - 1 <= Len(f)) /\ ~(i <= Len(f))
      BY <1>1, <2>1, <2>5
    <3> QED
      BY <2>5, <3>1 DEF Follow
  <2> QED
    BY <1>1, <2>1, <2>2, <2>3, <2>4, <2>5
<1>4. Along(link, n) = g
  <2> HIDE DEF g, n
  <2> QED
    BY <1>1, <1>3, AlongIs
<1>5. met = 1..Len(f)
  BY <1>1
<1>6. Cardinality(met) = Len(f)
  <2> HIDE DEF met
  <2> QED
    BY <1>1, <1>5, CountTo
<1>7. Walk(link, n) = [i \in 1..Len(f) |-> g[i]]
  <2> HIDE DEF n
  <2> QED
    BY <1>4, <1>6 DEF Walk
<1>8. \A i \in 1..Len(f) : g[i] = f[i]
  BY <1>1
<1> HIDE DEF g, n, N
<1>9. Walk(link, n) = f
  BY <1>2, <1>7, <1>8
<1> QED
  BY <1>9 DEF n
(* A list is the one that its first entry and its links lead to ...         *)
LEMMA ChainWalk ==
  ASSUME NEW u, NEW f, Chain(u, f)
  PROVE  Walk(u.next, u.front) = f
<1>1. /\ f \in Seq(Nodes) /\ Distinct(f) /\ u.front = IF f = <<>> THEN Null ELSE f[1]
      /\ \A i \in DOMAIN f : u.next[f[i]] = IF i = Len(f) THEN Null ELSE f[i + 1]
  BY DEF Chain
<1> QED
  BY <1>1, WalkIs

(* ... and read from the back it is the same list reversed.                 *)
LEMMA ChainWalkBack ==
  ASSUME NEW u, NEW f, Chain(u, f)
  PROVE  Walk(u.prev, u.back) = [i \in 1..Len(f) |-> f[Len(f) + 1 - i]]
<1> DEFINE b == [i \in 1..Len(f) |-> f[Len(f) + 1 - i]]
<1>1. /\ f \in Seq(Nodes) /\ Distinct(f) /\ u.back = IF f = <<>> THEN Null ELSE f[Len(f)]
      /\ \A i \in DOMAIN f : u.prev[f[i]] = IF i = 1 THEN Null ELSE f[i - 1]
      /\ Len(f) \in Nat /\ DOMAIN f = 1..Len(f)
  BY DEF Chain
<1>2. \A i \in 1..Len(f) : /\ Len(f) + 1 - i \in 1..Len(f) /\ b[i] = f[Len(f) + 1 - i]
                           /\ f[Len(f) + 1 - i] \in Nodes
  BY <1>1
<1>3. b \in Seq(Nodes) /\ Len(b) = Len(f) /\ DOMAIN b = 1..Len(f)
  BY <1>1, <1>2
<1>4. Distinct(b)
  <2> SUFFICES ASSUME NEW i \in 1..Len(f), NEW j \in 1..Len(f), b[i] = b[j] PROVE i = j
    BY <1>3 DEF Distinct
  <2>1. Len(f) + 1 - i = Len(f) + 1 - j
    BY <1>1, <1>2 DEF Distinct
  <2> QED
    BY <1>1, <2>1
<1>5. ASSUME NEW i \in 1..Len(f)
      PROVE  u.prev[b[i]] = IF i = Len(b) THEN Null ELSE b[i + 1]
  <2> DEFINE k == Len(f) + 1 - i
  <2>0. Len(f) \in Nat /\ i \in Nat
    BY <1>1
  <2>1. k \in 1..Len(f) /\ b[i] = f[k] /\ (k = 1 <=> i = Len(f))
    <3>1. k = 1 <=> i = Len(f)
      BY <2>0
    <3> QED
      BY <1>2, <3>1
  <2>2. u.prev[f[k]] = IF k = 1 THEN Null ELSE f[k - 1]
    BY <1>1, <2>1
  <2>3. ASSUME i # Len(f) PROVE b[i + 1] = f[k - 1]
    <3>1. i + 1 \in 1..Len(f) /\ Len(f) + 1 - (i + 1) = k - 1
      BY <2>0, <2>3
    <3> QED
      BY <1>2, <3>1
  <2> HIDE DEF b, k
  <2> QED
    BY <1>3, <2>1, <2>2, <2>3
<1>6. u.back = IF b = <<>> THEN Null ELSE b[1]
  <2>1. b = <<>> <=> f = <<>>
    BY <1>1, <1>3
  <2>2. ASSUME f # <<>> PROVE b[1] = f[Len(f)]
    BY <1>1, <1>2, <2>2
  <2> HIDE DEF b
  <2> QED
    BY <1>1, <2>1, <2>2
<1> HIDE DEF b
<1>7. Walk(u.prev, IF b = <<>> THEN Null ELSE b[1]) = b
  BY <1>3, <1>4, <1>5, WalkIs
<1> QED
  BY <1>6, <1>7 DEF b

(* What a list says of its content, its ends and its being empty.           *)
LEMMA ListIs ==
  ASSUME NEW u \in QueueType, NEW f, Chain(u, f)
  PROVE  /\ Linked(u) /\ Content(u) = [i \in 1..Len(f) |-> u.value[f[i]]]
         /\ Content(u) \in Seq(Values) /\ Len(Content(u)) = Len(f)
         /\ IsEmpty(u) <=> f = <<>>
         /\ IsEmpty(u) <=> Content(u) = <<>>
         /\ ~IsEmpty(u) => /\ f[1] \in Nodes /\ f[Len(f)] \in Nodes
                           /\ u.front = f[1] /\ u.back = f[Len(f)]
<1>1. /\ f \in Seq(Nodes) /\ Len(f) \in Nat /\ DOMAIN f = 1..Len(f)
      /\ u.front = IF f = <<>> THEN Null ELSE f[1]
      /\ u.back  = IF f = <<>> THEN Null ELSE f[Len(f)]
      /\ \A i \in 1..Len(f) : u.value[f[i]] \in Values
  BY DEF Chain
<1>2. Walk(u.next, u.front) = f
  BY ChainWalk
<1>3. Content(u) = [i \in 1..Len(f) |-> u.value[f[i]]]
  BY <1>1, <1>2 DEF Content
<1>4. Content(u) \in Seq(Values) /\ Len(Content(u)) = Len(f)
  BY <1>1, <1>3
<1>5. f # <<>> => f[1] \in Nodes /\ f[Len(f)] \in Nodes
  BY <1>1
<1>6. IsEmpty(u) <=> f = <<>>
  BY <1>1, <1>5, ConstAssumption DEF IsEmpty
<1>7. Content(u) = <<>> <=> f = <<>>
  BY <1>1, <1>4
<1> QED
  BY <1>1, <1>2, <1>3, <1>4, <1>5, <1>6, <1>7 DEF Linked

(* The value at an end is the one an observer of the content sees there.    *)
LEMMA EndIs ==
  ASSUME NEW u, Linked(u), ~IsEmpty(u), NEW side \in Sides
  PROVE  ValueAt(u, side) = EndOf(u, side) /\ EndOf(u, side) \in Values
<1> DEFINE f == Walk(u.next, u.front)
<1>1. u \in QueueType /\ Chain(u, f)
  BY DEF Linked
<1> HIDE DEF f
<1>2. /\ Content(u) = [i \in 1..Len(f) |-> u.value[f[i]]] /\ Len(Content(u)) = Len(f)
      /\ f # <<>> /\ u.front = f[1] /\ u.back = f[Len(f)]
  BY <1>1, ListIs
<1>3. /\ f \in Seq(Nodes) /\ \A i \in DOMAIN f : u.value[f[i]] \in Values
  BY <1>1 DEF Chain
<1>4. Len(f) \in 1..Len(f) /\ 1 \in 1..Len(f) /\ DOMAIN f = 1..Len(f)
  BY <1>2, <1>3
<1>5. side = "back" \/ side = "front"
  BY DEF Sides
<1> QED
  BY <1>2, <1>3, <1>4, <1>5 DEF ValueAt, EndOf
--------------------------------------------------------------------------------
(* What the operations do to the fields.                                    *)

(* The ways the operations change pointers, named.                          *)
Ends(u, p)         == [u EXCEPT !.front = p, !.back = p]
LinkBack(u, n, p)  == [u EXCEPT !.prev[n] = p, !.next[p] = n, !.back = n]
LinkFront(u, n, p) == [u EXCEPT !.next[n] = p, !.prev[p] = n, !.front = n]
CutBack(u, p)      == [u EXCEPT !.next[p] = Null, !.back = p]
CutFront(u, p)     == [u EXCEPT !.prev[p] = Null, !.front = p]

(* The fields of a queue have their types.                                  *)
LEMMA QueueFields ==
  ASSUME NEW u \in QueueType
  PROVE  /\ u.front \in Pointers /\ u.back \in Pointers /\ u.length \in Nat
         /\ u.live \in SUBSET Nodes /\ u.value \in [Nodes -> Values \cup {NoVal}]
         /\ u.next \in [Nodes -> Pointers] /\ u.prev \in [Nodes -> Pointers]
BY DEF QueueType

(* malloc, the value and the count of a push.                               *)
LEMMA NewEntryFields ==
  ASSUME NEW u \in QueueType, NEW n \in Nodes, NEW v \in Values, NEW w, w = NewEntry(u, n, v)
  PROVE  /\ w \in QueueType
         /\ w.front = u.front /\ w.back = u.back /\ w.next = u.next /\ w.prev = u.prev
         /\ w.live = u.live \cup {n} /\ w.length = u.length + 1
         /\ w.value = [u.value EXCEPT ![n] = v]
<1> DEFINE le == u.length + 1
           li == u.live \cup {n}
           va == [u.value EXCEPT ![n] = v]
<1>1. le \in Nat /\ li \in SUBSET Nodes /\ va \in [Nodes -> Values \cup {NoVal}]
  BY QueueFields
<1>2. w = [u EXCEPT !.live = li, !.value = va, !.length = le]
  BY DEF NewEntry, QueueType
<1> HIDE DEF le, li, va
<1>3. w = [u EXCEPT !.length = le, !.live = li, !.next = u.next, !.prev = u.prev, !.value = va]
  BY <1>2 DEF QueueType
<1>4. /\ w \in QueueType /\ w.front = u.front /\ w.back = u.back /\ w.length = le
      /\ w.live = li /\ w.next = u.next /\ w.prev = u.prev /\ w.value = va
  BY <1>1, <1>3, QueueFields DEF QueueType
<1> QED
  BY <1>4 DEF le, li, va

(* front and back of an empty or one-entry queue are stored together.       *)
LEMMA EndsFields ==
  ASSUME NEW u \in QueueType, NEW p \in Pointers, NEW w,
         w = Ends(u, p)
  PROVE  /\ w \in QueueType /\ w.front = p /\ w.back = p
         /\ w.next = u.next /\ w.prev = u.prev /\ w.value = u.value
         /\ w.live = u.live /\ w.length = u.length
BY DEF Ends, QueueType

(* The new entry goes behind the last one.                                  *)
LEMMA LinkBackFields ==
  ASSUME NEW u \in QueueType, NEW n \in Nodes, NEW p \in Nodes, NEW w,
         w = LinkBack(u, n, p)
  PROVE  /\ w \in QueueType /\ w.front = u.front /\ w.back = n
         /\ w.next = [u.next EXCEPT ![p] = n] /\ w.prev = [u.prev EXCEPT ![n] = p]
         /\ w.value = u.value /\ w.live = u.live /\ w.length = u.length
BY DEF LinkBack, QueueType, Pointers

(* The new entry goes before the first one.                                 *)
LEMMA LinkFrontFields ==
  ASSUME NEW u \in QueueType, NEW n \in Nodes, NEW p \in Nodes, NEW w,
         w = LinkFront(u, n, p)
  PROVE  /\ w \in QueueType /\ w.front = n /\ w.back = u.back
         /\ w.next = [u.next EXCEPT ![n] = p] /\ w.prev = [u.prev EXCEPT ![p] = n]
         /\ w.value = u.value /\ w.live = u.live /\ w.length = u.length
BY DEF LinkFront, QueueType, Pointers

(* The last entry is cut off the one before it.                             *)
LEMMA CutBackFields ==
  ASSUME NEW u \in QueueType, NEW p \in Nodes, NEW w,
         w = CutBack(u, p)
  PROVE  /\ w \in QueueType /\ w.front = u.front /\ w.back = p
         /\ w.next = [u.next EXCEPT ![p] = Null] /\ w.prev = u.prev
         /\ w.value = u.value /\ w.live = u.live /\ w.length = u.length
BY DEF CutBack, QueueType, Pointers

(* The first entry is cut off the one behind it.                            *)
LEMMA CutFrontFields ==
  ASSUME NEW u \in QueueType, NEW p \in Nodes, NEW w,
         w = CutFront(u, p)
  PROVE  /\ w \in QueueType /\ w.front = p /\ w.back = u.back
         /\ w.prev = [u.prev EXCEPT ![p] = Null] /\ w.next = u.next
         /\ w.value = u.value /\ w.live = u.live /\ w.length = u.length
BY DEF CutFront, QueueType, Pointers

(* A freed entry is zeroed, and the ends stay ...                           *)
LEMMA DropFields ==
  ASSUME NEW u \in QueueType, NEW n \in Nodes, u.length # 0, NEW w, w = Drop(u, n)
  PROVE  /\ w.front = u.front /\ w.back = u.back
         /\ w.next = [u.next EXCEPT ![n] = Null] /\ w.prev = [u.prev EXCEPT ![n] = Null]
         /\ w.value = [u.value EXCEPT ![n] = NoVal]
BY DEF Drop, QueueType

(* ... and it is counted off.                                               *)
LEMMA DropCounts ==
  ASSUME NEW u \in QueueType, NEW n \in Nodes, u.length # 0, NEW w, w = Drop(u, n)
  PROVE  w \in QueueType /\ w.live = u.live \ {n} /\ w.length = u.length - 1
<1> DEFINE le == u.length - 1
           li == u.live \ {n}
           ne == [u.next EXCEPT ![n] = Null]
           pr == [u.prev EXCEPT ![n] = Null]
           va == [u.value EXCEPT ![n] = NoVal]
<1>1. /\ le \in Nat /\ li \in SUBSET Nodes /\ va \in [Nodes -> Values \cup {NoVal}]
      /\ ne \in [Nodes -> Pointers] /\ pr \in [Nodes -> Pointers]
  BY QueueFields DEF Pointers
<1>2. w = [u EXCEPT !.live = li, !.next = ne, !.prev = pr, !.value = va, !.length = le]
  BY DEF Drop, QueueType
<1> HIDE DEF le, li, ne, pr, va
<1>3. w = [u EXCEPT !.length = le, !.live = li, !.next = ne, !.prev = pr, !.value = va]
  BY <1>2 DEF QueueType
<1>4. w \in QueueType /\ w.length = le /\ w.live = li
  BY <1>1, <1>3 DEF QueueType
<1> QED
  BY <1>4 DEF le, li
--------------------------------------------------------------------------------
(* What they do to the list.                                                *)

(* Into an empty queue both pushes put the one entry.                       *)
LEMMA PushFirst ==
  ASSUME NEW u \in QueueType, Chain(u, <<>>), NEW n \in Nodes, NEW v \in Values,
         NEW w, w = Ends(NewEntry(u, n, v), n)
  PROVE  w \in QueueType /\ Chain(w, <<n>>) /\ w.value[n] = v
<1>1. u.live = {} /\ u.length = 0 /\ \A m \in Nodes : u.next[m] = Null /\ u.prev[m] = Null
  BY DEF Chain, Met
<1>2. n \in Pointers
  BY DEF Pointers
<1>3. PICK e : e = NewEntry(u, n, v)
  OBVIOUS
<1>4. /\ w \in QueueType /\ w.live = {n} /\ w.length = 1 /\ w.front = n /\ w.back = n
      /\ w.next = u.next /\ w.prev = u.prev /\ w.value = [u.value EXCEPT ![n] = v]
  <2>1. /\ e \in QueueType /\ e.next = u.next /\ e.prev = u.prev
        /\ e.live = {n} /\ e.length = 1 /\ e.value = [u.value EXCEPT ![n] = v]
    BY <1>1, <1>3, NewEntryFields
  <2>2. w = Ends(e, n)
    BY <1>3
  <2>3. /\ w \in QueueType /\ w.front = n /\ w.back = n
        /\ w.next = e.next /\ w.prev = e.prev /\ w.value = e.value
        /\ w.live = e.live /\ w.length = e.length
    BY <1>2, <2>1, <2>2, EndsFields
  <2> QED
    BY <2>1, <2>3
<1>5. w.value[n] = v
  BY <1>4, QueueFields
<1>6. /\ <<n>> \in Seq(Nodes) /\ Len(<<n>>) = 1 /\ <<n>>[1] = n /\ <<n>> # <<>>
      /\ DOMAIN <<n>> = {1}
  OBVIOUS
<1>7. Met(<<n>>) = {n} /\ Distinct(<<n>>)
  BY <1>6 DEF Met, Distinct
<1> DEFINE f == <<n>>
<1>8. /\ f \in Seq(Nodes) /\ Len(f) = 1 /\ f[1] = n /\ f # <<>> /\ DOMAIN f = {1}
      /\ Met(f) = {n} /\ Distinct(f)
  BY <1>6, <1>7
<1> HIDE DEF f
<1>9. Chain(w, f)
  BY <1>1, <1>4, <1>8, <1>5 DEF Chain
<1> QED
  BY <1>4, <1>9, <1>5 DEF f

(* queue_push_back_tm puts its entry after the last one.                    *)
LEMMA PushBackEffect ==
  ASSUME NEW u \in QueueType, NEW f, Chain(u, f), NEW n \in Nodes \ u.live, NEW v \in Values
  PROVE  LET w == PushBack(u, n, v)
         IN  /\ w \in QueueType /\ Chain(w, Append(f, n))
             /\ w.value[n] = v /\ \A m \in Met(f) : w.value[m] = u.value[m]
<1> DEFINE w == PushBack(u, n, v)
           g == Append(f, n)
           k == Len(f)
<1>1. /\ f \in Seq(Nodes) /\ Distinct(f) /\ k \in Nat /\ DOMAIN f = 1..k
      /\ u.live = Met(f) /\ u.length = k /\ u.live \subseteq Nodes /\ n \notin u.live
      /\ n \in Nodes /\ \A i \in 1..k : f[i] \in Nodes /\ f[i] # n /\ f[i] \in u.live
  BY QueueFields DEF Chain, Met
<1>2. /\ g \in Seq(Nodes) /\ Len(g) = k + 1 /\ DOMAIN g = 1..k + 1 /\ g # <<>>
      /\ g[k + 1] = n /\ \A i \in 1..k : g[i] = f[i] /\ i \in 1..k + 1 /\ i # k + 1
  <2>1. /\ g \in Seq(Nodes) /\ Len(g) = k + 1 /\ g[k + 1] = n
        /\ \A i \in 1..k : g[i] = f[i]
    BY <1>1
  <2>2. DOMAIN g = 1..k + 1 /\ g # <<>>
    BY <1>1, <2>1
  <2> QED
    BY <1>1, <2>1, <2>2
<1>3. CASE f = <<>>
  <2>1. w = Ends(NewEntry(u, n, v), n)
    BY <1>3, ListIs DEF PushBack, Ends
  <2>2. g = <<n>>
    BY <1>3
  <2>3. w \in QueueType /\ Chain(w, g) /\ w.value[n] = v
    <3>1. Chain(u, <<>>) /\ n \in Nodes
      BY <1>3
    <3> HIDE DEF w, g
    <3>2. w \in QueueType /\ Chain(w, <<n>>) /\ w.value[n] = v
      BY <2>1, <3>1, PushFirst
    <3> QED
      BY <2>2, <3>2
  <2>4. Met(f) = {}
    BY <1>1, <1>3 DEF Met
  <2> QED
    BY <2>3, <2>4
<1>4. CASE f # <<>>
  <2>1. k \in 1..k /\ u.front = f[1] /\ u.back = f[k] /\ f[k] \in Nodes /\ f[k] # n /\ 1 \in 1..k
    BY <1>1, <1>4 DEF Chain
  <2>2. PICK e : e = NewEntry(u, n, v)
    OBVIOUS
  <2>3. w = LinkBack(e, n, f[k])
    BY <1>4, <2>1, <2>2, ListIs DEF PushBack, LinkBack
  <2> HIDE DEF w, g, k
  <2>4. /\ w \in QueueType /\ w.live = u.live \cup {n} /\ w.length = k + 1
        /\ w.front = f[1] /\ w.back = n /\ w.value = [u.value EXCEPT ![n] = v]
        /\ w.prev = [u.prev EXCEPT ![n] = f[k]] /\ w.next = [u.next EXCEPT ![f[k]] = n]
    <3>1. /\ e \in QueueType /\ e.front = f[1] /\ e.next = u.next /\ e.prev = u.prev
          /\ e.live = u.live \cup {n} /\ e.length = k + 1 /\ e.value = [u.value EXCEPT ![n] = v]
      BY <1>1, <2>1, <2>2, NewEntryFields
    <3>2. /\ w \in QueueType /\ w.front = e.front /\ w.back = n
          /\ w.next = [e.next EXCEPT ![f[k]] = n] /\ w.prev = [e.prev EXCEPT ![n] = f[k]]
          /\ w.value = e.value /\ w.live = e.live /\ w.length = e.length
      BY <1>1, <2>1, <2>3, <3>1, LinkBackFields
    <3> QED
      BY <3>1, <3>2
  <2>5. /\ u.value \in [Nodes -> Values \cup {NoVal}]
        /\ u.next \in [Nodes -> Pointers] /\ u.prev \in [Nodes -> Pointers]
    BY DEF QueueType
  <2>6. w.value[n] = v /\ \A m \in Nodes : m # n => w.value[m] = u.value[m]
    BY <2>4, <2>5
  <2>7. w.prev[n] = f[k] /\ \A m \in Nodes : m # n => w.prev[m] = u.prev[m]
    BY <2>4, <2>5
  <2>8. w.next[f[k]] = n /\ \A m \in Nodes : m # f[k] => w.next[m] = u.next[m]
    BY <2>1, <2>4, <2>5
  <2>9. /\ \A i \in 1..k : /\ u.next[f[i]] = IF i = k THEN Null ELSE f[i + 1]
                           /\ u.prev[f[i]] = IF i = 1 THEN Null ELSE f[i - 1]
                           /\ u.value[f[i]] \in Values
        /\ \A m \in Nodes \ u.live : u.next[m] = Null /\ u.prev[m] = Null
        /\ \A i, j \in 1..k : f[i] = f[j] => i = j
    BY <1>1 DEF Chain, Distinct, k
  <2>10. Distinct(g)
    BY <1>1, <1>2, <2>9 DEF Distinct
  <2>11. Met(g) = Met(f) \cup {n}
    BY <1>1, <1>2 DEF Met
  <2>12. ASSUME NEW i \in 1..k + 1
         PROVE  /\ w.next[g[i]] = IF i = k + 1 THEN Null ELSE g[i + 1]
                /\ w.prev[g[i]] = IF i = 1 THEN Null ELSE g[i - 1]
                /\ w.value[g[i]] \in Values
    <3>1. CASE i = k + 1
      <4>1. g[i] = n /\ i # 1 /\ i - 1 = k /\ g[i - 1] = f[k]
        BY <1>1, <1>2, <2>1, <3>1
      <4>2. w.next[n] = Null
        BY <2>1, <2>8, <2>9
      <4> QED
        BY <2>6, <2>7, <3>1, <4>1, <4>2
    <3>2. CASE i = k
      <4>1. i \in 1..k /\ g[i] = f[k] /\ g[i + 1] = n /\ i # k + 1
        BY <1>1, <1>2, <2>1, <3>2
      <4>2. i # 1 => i - 1 \in 1..k /\ g[i - 1] = f[i - 1]
        BY <1>1, <1>2, <3>2
      <4> QED
        BY <2>1, <2>6, <2>7, <2>8, <2>9, <3>2, <4>1, <4>2
    <3>3. CASE i < k
      <4>1. i \in 1..k /\ i # k /\ i + 1 \in 1..k /\ g[i] = f[i] /\ g[i + 1] = f[i + 1] /\ i # k + 1
        BY <1>1, <1>2, <3>3
      <4>2. i # 1 => i - 1 \in 1..k /\ g[i - 1] = f[i - 1]
        BY <1>1, <1>2, <3>3
      <4>3. f[i] # f[k]
        BY <2>1, <2>9, <4>1
      <4>4. w.next[f[i]] = f[i + 1] /\ w.value[f[i]] \in Values
        BY <1>1, <2>6, <2>8, <2>9, <4>1, <4>3
      <4>5. w.prev[f[i]] = IF i = 1 THEN Null ELSE f[i - 1]
        BY <1>1, <2>7, <2>9, <4>1
      <4> QED
        BY <4>1, <4>2, <4>4, <4>5
    <3> QED
      BY <1>1, <3>1, <3>2, <3>3
  <2>13. \A m \in Nodes \ w.live : w.next[m] = Null /\ w.prev[m] = Null
    BY <1>1, <2>1, <2>4, <2>7, <2>8, <2>9
  <2>14. 1 \in 1..k /\ g[1] = f[1]
    BY <1>2, <2>1
  <2>15. Chain(w, g)
    BY <1>1, <1>2, <2>4, <2>10, <2>11, <2>12, <2>13, <2>14 DEF Chain
  <2>16. \A m \in Met(f) : w.value[m] = u.value[m]
    BY <1>1, <2>6
  <2> QED
    BY <2>4, <2>6, <2>15, <2>16 DEF w, g
<1> QED
  BY <1>3, <1>4
(* queue_push_front_tm puts its entry before the first one.                 *)
LEMMA PushFrontEffect ==
  ASSUME NEW u \in QueueType, NEW f, Chain(u, f), NEW n \in Nodes \ u.live, NEW v \in Values
  PROVE  LET w == PushFront(u, n, v)
         IN  /\ w \in QueueType /\ Chain(w, <<n>> \o f)
             /\ w.value[n] = v /\ \A m \in Met(f) : w.value[m] = u.value[m]
<1> DEFINE w == PushFront(u, n, v)
           g == <<n>> \o f
           k == Len(f)
<1>1. /\ f \in Seq(Nodes) /\ Distinct(f) /\ k \in Nat /\ DOMAIN f = 1..k
      /\ u.live = Met(f) /\ u.length = k /\ u.live \subseteq Nodes /\ n \notin u.live
      /\ n \in Nodes /\ \A i \in 1..k : f[i] \in Nodes /\ f[i] # n /\ f[i] \in u.live
  BY QueueFields DEF Chain, Met
<1>2. /\ g \in Seq(Nodes) /\ Len(g) = k + 1 /\ DOMAIN g = 1..k + 1 /\ g # <<>>
      /\ g[1] = n /\ \A i \in 1..k : g[i + 1] = f[i]
  <2>1. /\ g \in Seq(Nodes) /\ Len(g) = k + 1 /\ g[1] = n
        /\ \A i \in 1..k : g[i + 1] = f[i]
    BY <1>1
  <2>2. DOMAIN g = 1..k + 1 /\ g # <<>>
    BY <1>1, <2>1
  <2> QED
    BY <1>1, <2>1, <2>2
<1>3. CASE f = <<>>
  <2>1. w = Ends(NewEntry(u, n, v), n)
    BY <1>3, ListIs DEF PushFront, Ends
  <2>2. g = <<n>>
    BY <1>3
  <2>3. w \in QueueType /\ Chain(w, g) /\ w.value[n] = v
    <3>1. Chain(u, <<>>) /\ n \in Nodes
      BY <1>3
    <3> HIDE DEF w, g
    <3>2. w \in QueueType /\ Chain(w, <<n>>) /\ w.value[n] = v
      BY <2>1, <3>1, PushFirst
    <3> QED
      BY <2>2, <3>2
  <2>4. Met(f) = {}
    BY <1>1, <1>3 DEF Met
  <2> QED
    BY <2>3, <2>4
<1>4. CASE f # <<>>
  <2>1. k \in 1..k /\ u.front = f[1] /\ u.back = f[k] /\ f[1] \in Nodes /\ f[1] # n /\ 1 \in 1..k
    BY <1>1, <1>4 DEF Chain
  <2>2. PICK e : e = NewEntry(u, n, v)
    OBVIOUS
  <2>3. w = LinkFront(e, n, f[1])
    BY <1>4, <2>1, <2>2, ListIs DEF PushFront, LinkFront
  <2> HIDE DEF w, g, k
  <2>4. /\ w \in QueueType /\ w.live = u.live \cup {n} /\ w.length = k + 1
        /\ w.front = n /\ w.back = f[k] /\ w.value = [u.value EXCEPT ![n] = v]
        /\ w.next = [u.next EXCEPT ![n] = f[1]] /\ w.prev = [u.prev EXCEPT ![f[1]] = n]
    <3>1. /\ e \in QueueType /\ e.back = f[k] /\ e.next = u.next /\ e.prev = u.prev
          /\ e.live = u.live \cup {n} /\ e.length = k + 1 /\ e.value = [u.value EXCEPT ![n] = v]
      BY <1>1, <2>1, <2>2, NewEntryFields
    <3>2. /\ w \in QueueType /\ w.front = n /\ w.back = e.back
          /\ w.next = [e.next EXCEPT ![n] = f[1]] /\ w.prev = [e.prev EXCEPT ![f[1]] = n]
          /\ w.value = e.value /\ w.live = e.live /\ w.length = e.length
      BY <1>1, <2>1, <2>3, <3>1, LinkFrontFields
    <3> QED
      BY <3>1, <3>2
  <2>5. /\ u.value \in [Nodes -> Values \cup {NoVal}]
        /\ u.next \in [Nodes -> Pointers] /\ u.prev \in [Nodes -> Pointers]
    BY DEF QueueType
  <2>6. w.value[n] = v /\ \A m \in Nodes : m # n => w.value[m] = u.value[m]
    BY <2>4, <2>5
  <2>7. w.next[n] = f[1] /\ \A m \in Nodes : m # n => w.next[m] = u.next[m]
    BY <2>4, <2>5
  <2>8. w.prev[f[1]] = n /\ \A m \in Nodes : m # f[1] => w.prev[m] = u.prev[m]
    BY <2>1, <2>4, <2>5
  <2>9. /\ \A i \in 1..k : /\ u.next[f[i]] = IF i = k THEN Null ELSE f[i + 1]
                           /\ u.prev[f[i]] = IF i = 1 THEN Null ELSE f[i - 1]
                           /\ u.value[f[i]] \in Values
        /\ \A m \in Nodes \ u.live : u.next[m] = Null /\ u.prev[m] = Null
        /\ \A i, j \in 1..k : f[i] = f[j] => i = j
    BY <1>1 DEF Chain, Distinct, k
  <2>10. \A i \in 1..k + 1 : i = 1 \/ (i - 1 \in 1..k /\ g[i] = f[i - 1])
    <3> SUFFICES ASSUME NEW i \in 1..k + 1, i # 1 PROVE i - 1 \in 1..k /\ g[i] = f[i - 1]
      OBVIOUS
    <3>1. i - 1 \in 1..k /\ (i - 1) + 1 = i
      BY <1>1
    <3> QED
      BY <1>2, <3>1
  <2>11. Distinct(g)
    <3> SUFFICES ASSUME NEW i \in 1..k + 1, NEW j \in 1..k + 1, g[i] = g[j] PROVE i = j
      BY <1>2 DEF Distinct
    <3>1. ASSUME i # 1, j # 1 PROVE i - 1 = j - 1
      BY <2>9, <2>10, <3>1
    <3>2. (i = 1 /\ j # 1) \/ (i # 1 /\ j = 1) => FALSE
      BY <1>1, <1>2, <2>10
    <3> QED
      BY <1>1, <3>1, <3>2
  <2>12. Met(g) = Met(f) \cup {n}
    <3>1. \A i \in 1..k : i + 1 \in 1..k + 1
      BY <1>1
    <3>2. 1 \in 1..k + 1
      BY <1>1
    <3>3. Met(g) = {g[i] : i \in 1..k + 1} /\ Met(f) = {f[i] : i \in 1..k}
      BY <1>1, <1>2 DEF Met
    <3>4. \A m \in Met(g) : m \in Met(f) \cup {n}
      BY <1>2, <2>10, <3>3
    <3>5. \A m \in Met(f) \cup {n} : m \in Met(g)
      BY <1>2, <3>1, <3>2, <3>3
    <3> QED
      BY <3>4, <3>5
  <2>13. ASSUME NEW i \in 1..k + 1
         PROVE  /\ w.next[g[i]] = IF i = k + 1 THEN Null ELSE g[i + 1]
                /\ w.prev[g[i]] = IF i = 1 THEN Null ELSE g[i - 1]
                /\ w.value[g[i]] \in Values
    <3>1. CASE i = 1
      <4>1. i # k + 1 /\ g[i + 1] = f[1] /\ g[i] = n
        BY <1>1, <1>2, <2>1, <3>1
      <4>2. w.prev[n] = Null
        BY <1>1, <2>1, <2>8, <2>9
      <4> QED
        BY <2>6, <2>7, <3>1, <4>1, <4>2
    <3>2. CASE i # 1
      <4> DEFINE j == i - 1
      <4>1. j \in 1..k /\ g[i] = f[j] /\ (j = k <=> i = k + 1) /\ (j = 1 <=> i - 1 = 1)
        BY <1>1, <2>10, <3>2
      <4>2. j # k => j + 1 \in 1..k /\ g[i + 1] = f[j + 1]
        <5>1. ASSUME j # k PROVE j + 1 \in 1..k /\ j + 1 = i
          BY <1>1, <4>1, <5>1
        <5> QED
          BY <1>2, <5>1
      <4>3. g[i - 1] = IF j = 1 THEN n ELSE f[j - 1]
        <5>1. j = 1 => g[i - 1] = n
          BY <1>2
        <5>2. ASSUME j # 1 PROVE j \in 1..k + 1 /\ g[j] = f[j - 1]
          BY <1>1, <2>10, <4>1, <5>2
        <5> QED
          BY <5>1, <5>2
      <4> HIDE DEF j
      <4>4. w.next[f[j]] = IF j = k THEN Null ELSE f[j + 1]
        BY <1>1, <2>7, <2>9, <4>1
      <4>5. w.prev[f[j]] = IF j = 1 THEN n ELSE f[j - 1]
        <5>1. j # 1 => f[j] # f[1]
          BY <2>1, <2>9, <4>1
        <5> QED
          BY <1>1, <2>1, <2>8, <2>9, <4>1, <5>1
      <4>6. w.value[f[j]] \in Values
        BY <1>1, <2>6, <2>9, <4>1
      <4> QED
        BY <3>2, <4>1, <4>2, <4>3, <4>4, <4>5, <4>6
    <3> QED
      BY <3>1, <3>2
  <2>14. \A m \in Nodes \ w.live : w.next[m] = Null /\ w.prev[m] = Null
    BY <1>1, <2>1, <2>4, <2>7, <2>8, <2>9
  <2>15. g[k + 1] = f[k]
    BY <1>2, <2>1
  <2>16. Chain(w, g)
    BY <1>1, <1>2, <2>4, <2>11, <2>12, <2>13, <2>14, <2>15 DEF Chain
  <2>17. \A m \in Met(f) : w.value[m] = u.value[m]
    BY <1>1, <2>6
  <2> QED
    BY <2>4, <2>6, <2>16, <2>17 DEF w, g
<1> QED
  BY <1>3, <1>4
(* queue_pop_back_tm takes the last entry away.                             *)
LEMMA PopBackEffect ==
  ASSUME NEW u \in QueueType, NEW f, Chain(u, f), f # <<>>
  PROVE  LET w == PopBack(u)
             g == SubSeq(f, 1, Len(f) - 1)
         IN  /\ w \in QueueType /\ Chain(w, g)
             /\ \A i \in 1..Len(f) - 1 : w.value[f[i]] = u.value[f[i]]
<1> DEFINE w == PopBack(u)
           k == Len(f)
           g == SubSeq(f, 1, k - 1)
<1>1. /\ f \in Seq(Nodes) /\ Distinct(f) /\ k \in Nat /\ k # 0 /\ DOMAIN f = 1..k
      /\ u.live = Met(f) /\ u.length = k /\ u.live \subseteq Nodes
      /\ \A i \in 1..k : f[i] \in Nodes /\ f[i] # Null
  BY QueueFields, ConstAssumption DEF Chain, Met
<1>2. /\ k \in 1..k /\ 1 \in 1..k /\ k - 1 \in Nat
      /\ u.front = f[1] /\ u.back = f[k] /\ f[k] \in Nodes /\ f[1] \in Nodes
  BY <1>1 DEF Chain
<1>3. /\ g \in Seq(Nodes) /\ Len(g) = k - 1 /\ DOMAIN g = 1..k - 1
      /\ \A i \in 1..k - 1 : g[i] = f[i] /\ i \in 1..k
  <2>1. g \in Seq(Nodes) /\ Len(g) = k - 1 /\ \A i \in 1..k - 1 : g[i] = f[i]
    BY <1>1
  <2>2. \A i \in 1..k - 1 : i \in 1..k
    BY <1>1
  <2> QED
    BY <2>1, <2>2
<1>4. /\ \A i \in 1..k : /\ u.next[f[i]] = IF i = k THEN Null ELSE f[i + 1]
                         /\ u.prev[f[i]] = IF i = 1 THEN Null ELSE f[i - 1]
                         /\ u.value[f[i]] \in Values
      /\ \A m \in Nodes \ u.live : u.next[m] = Null /\ u.prev[m] = Null
      /\ \A i, j \in 1..k : f[i] = f[j] => i = j
  BY <1>1 DEF Chain, Distinct
<1>5. PICK e : e = IF u.prev[u.back] = Null THEN Ends(u, Null) ELSE CutBack(u, u.prev[u.back])
  OBVIOUS
<1>6. w = Drop(e, f[k])
  BY <1>2, <1>5 DEF PopBack, Ends, CutBack
<1> HIDE DEF w, g, k
<1>7. /\ e \in QueueType /\ e.value = u.value /\ e.live = u.live /\ e.length = k
      /\ e.prev = u.prev
      /\ IF k = 1 THEN e.front = Null /\ e.back = Null /\ e.next = u.next
                  ELSE /\ e.front = f[1] /\ e.back = f[k - 1]
                       /\ e.next = [u.next EXCEPT ![f[k - 1]] = Null]
  <2>1. CASE k = 1
    <3>1. e = Ends(u, Null)
      BY <1>2, <1>4, <1>5, <2>1
    <3> QED
      BY <1>1, <2>1, <3>1, EndsFields DEF Pointers
  <2>2. CASE k # 1
    <3>1. k - 1 \in 1..k /\ f[k - 1] \in Nodes /\ f[k - 1] # Null
      BY <1>1, <2>2
    <3>2. u.prev[u.back] = f[k - 1]
      BY <1>2, <1>4, <2>2
    <3>3. PICK p \in Nodes : p = f[k - 1]
      BY <3>1
    <3>4. e = CutBack(u, p)
      BY <1>5, <3>1, <3>2, <3>3
    <3>5. /\ e \in QueueType /\ e.front = u.front /\ e.back = p
          /\ e.next = [u.next EXCEPT ![p] = Null] /\ e.prev = u.prev
          /\ e.value = u.value /\ e.live = u.live /\ e.length = u.length
      BY <3>4, CutBackFields
    <3> QED
      BY <1>1, <1>2, <2>2, <3>3, <3>5
  <2> QED
    BY <2>1, <2>2
<1>8. /\ w \in QueueType /\ w.live = u.live \ {f[k]} /\ w.length = k - 1
      /\ w.front = e.front /\ w.back = e.back
      /\ w.next = [e.next EXCEPT ![f[k]] = Null] /\ w.prev = [u.prev EXCEPT ![f[k]] = Null]
      /\ w.value = [u.value EXCEPT ![f[k]] = NoVal]
  <2>1. /\ w \in QueueType /\ w.front = e.front /\ w.back = e.back
        /\ w.next = [e.next EXCEPT ![f[k]] = Null] /\ w.prev = [e.prev EXCEPT ![f[k]] = Null]
        /\ w.value = [e.value EXCEPT ![f[k]] = NoVal]
        /\ w.live = e.live \ {f[k]} /\ w.length = e.length - 1
    <3>1. e \in QueueType /\ e.length # 0 /\ e.length \in Nat
      BY <1>1, <1>7
    <3>2. PICK p \in Nodes : p = f[k]
      BY <1>2
    <3>3. PICK x : x = Drop(e, p)
      OBVIOUS
    <3>4. /\ x.front = e.front /\ x.back = e.back
          /\ x.next = [e.next EXCEPT ![p] = Null] /\ x.prev = [e.prev EXCEPT ![p] = Null]
          /\ x.value = [e.value EXCEPT ![p] = NoVal]
      BY <3>1, <3>3, DropFields
    <3>5. x \in QueueType /\ x.live = e.live \ {p} /\ x.length = e.length - 1
      BY <3>1, <3>3, DropCounts
    <3> QED
      BY <1>6, <3>2, <3>3, <3>4, <3>5
  <2> QED
    BY <1>7, <2>1
<1>9. /\ u.value \in [Nodes -> Values \cup {NoVal}]
      /\ u.next \in [Nodes -> Pointers] /\ u.prev \in [Nodes -> Pointers]
      /\ e.next \in [Nodes -> Pointers]
  BY <1>7, QueueFields
<1>10. \A m \in Nodes : m # f[k] => w.value[m] = u.value[m] /\ w.prev[m] = u.prev[m]
  BY <1>8, <1>9
<1>11. w.next[f[k]] = Null /\ w.prev[f[k]] = Null
  BY <1>2, <1>8, <1>9
<1>12. \A i \in 1..k - 1 : /\ f[i] # f[k] /\ i # k
                           /\ w.next[f[i]] = IF i = k - 1 THEN Null ELSE f[i + 1]
  <2> SUFFICES ASSUME NEW i \in 1..k - 1
               PROVE  /\ f[i] # f[k] /\ i # k
                      /\ w.next[f[i]] = IF i = k - 1 THEN Null ELSE f[i + 1]
    OBVIOUS
  <2>1. i \in 1..k /\ i # k /\ k # 1 /\ k - 1 \in 1..k
    BY <1>1
  <2>2. f[i] # f[k] /\ f[i] \in Nodes
    BY <1>1, <1>2, <1>4, <2>1
  <2>3. w.next[f[i]] = e.next[f[i]]
    BY <1>8, <1>9, <2>2
  <2>4. e.next[f[i]] = IF f[i] = f[k - 1] THEN Null ELSE u.next[f[i]]
    BY <1>7, <1>9, <2>1, <2>2
  <2>5. f[i] = f[k - 1] <=> i = k - 1
    BY <1>4, <2>1
  <2> QED
    BY <1>4, <2>1, <2>2, <2>3, <2>4, <2>5
<1>13. Met(g) = Met(f) \ {f[k]}
  <2>1. Met(g) = {f[i] : i \in 1..k - 1} /\ Met(f) = {f[i] : i \in 1..k}
    BY <1>1, <1>3 DEF Met
  <2>2. \A i \in 1..k : i = k \/ i \in 1..k - 1
    BY <1>1
  <2> QED
    BY <1>3, <1>12, <2>1, <2>2
<1>14. Distinct(g)
  BY <1>3, <1>4 DEF Distinct
<1>15. \A m \in Nodes \ w.live : w.next[m] = Null /\ w.prev[m] = Null
  <2> SUFFICES ASSUME NEW m \in Nodes \ w.live PROVE w.next[m] = Null /\ w.prev[m] = Null
    OBVIOUS
  <2>1. CASE m = f[k]
    BY <1>11, <2>1
  <2>2. CASE m # f[k]
    <3>1. m \notin u.live /\ u.next[m] = Null /\ u.prev[m] = Null
      BY <1>4, <1>8, <2>2
    <3>2. k # 1 => f[k - 1] \in u.live /\ f[k - 1] \in Nodes
      <4>1. k # 1 => k - 1 \in 1..k
        BY <1>1
      <4> QED
        BY <1>1, <4>1 DEF Met
    <3>3. e.next[m] = Null
      BY <1>7, <1>9, <3>1, <3>2
    <3> QED
      BY <1>8, <1>9, <1>10, <2>2, <3>1, <3>3
  <2> QED
    BY <2>1, <2>2
<1>16. /\ w.front = IF g = <<>> THEN Null ELSE g[1]
       /\ w.back  = IF g = <<>> THEN Null ELSE g[Len(g)]
  <2>1. g = <<>> <=> k = 1
    BY <1>1, <1>3
  <2>2. k # 1 => 1 \in 1..k - 1 /\ k - 1 \in 1..k - 1
    BY <1>1
  <2> QED
    BY <1>3, <1>7, <1>8, <2>1, <2>2
<1>17. ASSUME NEW i \in 1..k - 1
       PROVE  /\ w.next[g[i]] = IF i = Len(g) THEN Null ELSE g[i + 1]
              /\ w.prev[g[i]] = IF i = 1 THEN Null ELSE g[i - 1]
              /\ w.value[g[i]] \in Values
  <2>1. g[i] = f[i] /\ f[i] \in Nodes /\ i \in 1..k /\ f[i] # f[k]
    BY <1>1, <1>3, <1>12
  <2>2. i # k - 1 => i + 1 \in 1..k - 1 /\ g[i + 1] = f[i + 1]
    <3>1. i # k - 1 => i + 1 \in 1..k - 1
      BY <1>1
    <3> QED
      BY <1>3, <3>1
  <2>3. i # 1 => i - 1 \in 1..k - 1 /\ g[i - 1] = f[i - 1]
    <3>1. i # 1 => i - 1 \in 1..k - 1
      BY <1>1
    <3> QED
      BY <1>3, <3>1
  <2> QED
    BY <1>3, <1>4, <1>10, <1>12, <2>1, <2>2, <2>3
<1>18. Chain(w, g)
  BY <1>1, <1>3, <1>8, <1>13, <1>14, <1>15, <1>16, <1>17 DEF Chain
<1>19. \A i \in 1..k - 1 : w.value[f[i]] = u.value[f[i]]
  BY <1>1, <1>3, <1>10, <1>12
<1> QED
  BY <1>8, <1>18, <1>19 DEF w, g, k
(* queue_pop_front_tm takes the first entry away.                           *)
LEMMA PopFrontEffect ==
  ASSUME NEW u \in QueueType, NEW f, Chain(u, f), f # <<>>
  PROVE  LET w == PopFront(u)
         IN  /\ w \in QueueType /\ Chain(w, Tail(f))
             /\ \A i \in 1..Len(f) - 1 : w.value[f[i + 1]] = u.value[f[i + 1]]
<1> DEFINE w == PopFront(u)
           k == Len(f)
           g == Tail(f)
<1>1. /\ f \in Seq(Nodes) /\ Distinct(f) /\ k \in Nat /\ k # 0 /\ DOMAIN f = 1..k
      /\ u.live = Met(f) /\ u.length = k /\ u.live \subseteq Nodes
      /\ \A i \in 1..k : f[i] \in Nodes /\ f[i] # Null
  BY QueueFields, ConstAssumption DEF Chain, Met
<1>2. /\ k \in 1..k /\ 1 \in 1..k /\ k - 1 \in Nat
      /\ u.front = f[1] /\ u.back = f[k] /\ f[k] \in Nodes /\ f[1] \in Nodes
  BY <1>1 DEF Chain
<1>3. /\ g \in Seq(Nodes) /\ Len(g) = k - 1 /\ DOMAIN g = 1..k - 1
      /\ \A i \in 1..k - 1 : g[i] = f[i + 1] /\ i + 1 \in 1..k /\ i \in 1..k
  <2>1. g \in Seq(Nodes) /\ Len(g) = k - 1 /\ \A i \in 1..k - 1 : g[i] = f[i + 1]
    BY <1>1
  <2>2. \A i \in 1..k - 1 : i + 1 \in 1..k /\ i \in 1..k
    BY <1>1
  <2> QED
    BY <2>1, <2>2
<1>4. /\ \A i \in 1..k : /\ u.next[f[i]] = IF i = k THEN Null ELSE f[i + 1]
                         /\ u.prev[f[i]] = IF i = 1 THEN Null ELSE f[i - 1]
                         /\ u.value[f[i]] \in Values
      /\ \A m \in Nodes \ u.live : u.next[m] = Null /\ u.prev[m] = Null
      /\ \A i, j \in 1..k : f[i] = f[j] => i = j
  BY <1>1 DEF Chain, Distinct
<1>5. PICK e : e = IF u.next[u.front] = Null THEN Ends(u, Null)
                   ELSE CutFront(u, u.next[u.front])
  OBVIOUS
<1>6. w = Drop(e, f[1])
  BY <1>2, <1>5 DEF PopFront, Ends, CutFront
<1> HIDE DEF w, g, k
<1>7. /\ e \in QueueType /\ e.value = u.value /\ e.live = u.live /\ e.length = k
      /\ e.next = u.next
      /\ IF k = 1 THEN e.front = Null /\ e.back = Null /\ e.prev = u.prev
                  ELSE /\ e.front = f[2] /\ e.back = f[k]
                       /\ e.prev = [u.prev EXCEPT ![f[2]] = Null]
  <2>1. CASE k = 1
    <3>1. e = Ends(u, Null)
      BY <1>2, <1>4, <1>5, <2>1
    <3> QED
      BY <1>1, <2>1, <3>1, EndsFields DEF Pointers
  <2>2. CASE k # 1
    <3>1. 2 \in 1..k /\ f[2] \in Nodes /\ f[2] # Null
      BY <1>1, <2>2
    <3>2. u.next[u.front] = f[2]
      BY <1>2, <1>4, <2>2
    <3>3. PICK p \in Nodes : p = f[2]
      BY <3>1
    <3>4. e = CutFront(u, p)
      BY <1>5, <3>1, <3>2, <3>3
    <3>5. /\ e \in QueueType /\ e.front = p /\ e.back = u.back
          /\ e.prev = [u.prev EXCEPT ![p] = Null] /\ e.next = u.next
          /\ e.value = u.value /\ e.live = u.live /\ e.length = u.length
      BY <3>4, CutFrontFields
    <3> QED
      BY <1>1, <1>2, <2>2, <3>3, <3>5
  <2> QED
    BY <2>1, <2>2
<1>8. /\ w \in QueueType /\ w.live = u.live \ {f[1]} /\ w.length = k - 1
      /\ w.front = e.front /\ w.back = e.back
      /\ w.prev = [e.prev EXCEPT ![f[1]] = Null] /\ w.next = [u.next EXCEPT ![f[1]] = Null]
      /\ w.value = [u.value EXCEPT ![f[1]] = NoVal]
  <2>1. e \in QueueType /\ e.length # 0
    BY <1>1, <1>7
  <2>2. PICK p \in Nodes : p = f[1]
    BY <1>2
  <2>3. PICK x : x = Drop(e, p)
    OBVIOUS
  <2>4. /\ x.front = e.front /\ x.back = e.back
        /\ x.next = [e.next EXCEPT ![p] = Null] /\ x.prev = [e.prev EXCEPT ![p] = Null]
        /\ x.value = [e.value EXCEPT ![p] = NoVal]
    BY <2>1, <2>3, DropFields
  <2>5. x \in QueueType /\ x.live = e.live \ {p} /\ x.length = e.length - 1
    BY <2>1, <2>3, DropCounts
  <2> QED
    BY <1>6, <1>7, <2>2, <2>3, <2>4, <2>5
<1>9. /\ u.value \in [Nodes -> Values \cup {NoVal}]
      /\ u.next \in [Nodes -> Pointers] /\ u.prev \in [Nodes -> Pointers]
      /\ e.prev \in [Nodes -> Pointers]
  BY <1>7, QueueFields
<1>10. \A m \in Nodes : m # f[1] => w.value[m] = u.value[m] /\ w.next[m] = u.next[m]
  BY <1>8, <1>9
<1>11. w.next[f[1]] = Null /\ w.prev[f[1]] = Null
  BY <1>2, <1>8, <1>9
<1>12. \A i \in 1..k - 1 : /\ f[i + 1] # f[1] /\ f[i + 1] \in Nodes
                           /\ w.prev[f[i + 1]] = IF i = 1 THEN Null ELSE f[i]
  <2> SUFFICES ASSUME NEW i \in 1..k - 1
               PROVE  /\ f[i + 1] # f[1] /\ f[i + 1] \in Nodes
                      /\ w.prev[f[i + 1]] = IF i = 1 THEN Null ELSE f[i]
    OBVIOUS
  <2>1. i + 1 \in 1..k /\ i + 1 # 1 /\ k # 1 /\ 2 \in 1..k /\ (i + 1) - 1 = i /\ 2 - 1 = 1
    BY <1>1
  <2>2. f[i + 1] # f[1] /\ f[i + 1] \in Nodes
    BY <1>1, <1>2, <1>4, <2>1
  <2>3. w.prev[f[i + 1]] = e.prev[f[i + 1]]
    BY <1>8, <1>9, <2>2
  <2>4. e.prev[f[i + 1]] = IF f[i + 1] = f[2] THEN Null ELSE u.prev[f[i + 1]]
    BY <1>7, <1>9, <2>1, <2>2
  <2>5. f[i + 1] = f[2] <=> i = 1
    BY <1>4, <2>1
  <2>6. u.prev[f[i + 1]] = f[i]
    BY <1>4, <2>1
  <2> QED
    BY <2>2, <2>3, <2>4, <2>5, <2>6
<1>13. Met(g) = Met(f) \ {f[1]}
  <2>1. Met(g) = {f[i + 1] : i \in 1..k - 1} /\ Met(f) = {f[i] : i \in 1..k}
    <3>1. Met(g) = {g[i] : i \in 1..k - 1}
      BY <1>3 DEF Met
    <3>2. {g[i] : i \in 1..k - 1} = {f[i + 1] : i \in 1..k - 1}
      BY <1>3
    <3>3. Met(f) = {f[i] : i \in 1..k}
      BY <1>1 DEF Met
    <3> QED
      BY <3>1, <3>2, <3>3
  <2>2. \A i \in 1..k : i = 1 \/ (i - 1 \in 1..k - 1 /\ (i - 1) + 1 = i)
    BY <1>1
  <2>3. \A m \in Met(f) \ {f[1]} : m \in Met(g)
    BY <2>1, <2>2
  <2>4. \A m \in Met(g) : m \in Met(f) \ {f[1]}
    BY <1>3, <1>12, <2>1
  <2> QED
    BY <2>3, <2>4
<1>14. Distinct(g)
  <2> SUFFICES ASSUME NEW i \in 1..k - 1, NEW j \in 1..k - 1, g[i] = g[j] PROVE i = j
    BY <1>3 DEF Distinct
  <2>1. i + 1 = j + 1
    BY <1>3, <1>4
  <2> QED
    BY <1>1, <2>1
<1>15. \A m \in Nodes \ w.live : w.next[m] = Null /\ w.prev[m] = Null
  <2> SUFFICES ASSUME NEW m \in Nodes \ w.live PROVE w.next[m] = Null /\ w.prev[m] = Null
    OBVIOUS
  <2>1. CASE m = f[1]
    BY <1>11, <2>1
  <2>2. CASE m # f[1]
    <3>1. m \notin u.live /\ u.next[m] = Null /\ u.prev[m] = Null
      BY <1>4, <1>8, <2>2
    <3>2. k # 1 => f[2] \in u.live /\ f[2] \in Nodes
      <4>1. k # 1 => 2 \in 1..k
        BY <1>1
      <4> QED
        BY <1>1, <4>1 DEF Met
    <3>3. e.prev[m] = Null
      BY <1>7, <1>9, <3>1, <3>2
    <3> QED
      BY <1>8, <1>9, <1>10, <2>2, <3>1, <3>3
  <2> QED
    BY <2>1, <2>2
<1>16. /\ w.front = IF g = <<>> THEN Null ELSE g[1]
       /\ w.back  = IF g = <<>> THEN Null ELSE g[Len(g)]
  <2>1. g = <<>> <=> k = 1
    BY <1>1, <1>3
  <2>2. k # 1 => 1 \in 1..k - 1 /\ k - 1 \in 1..k - 1 /\ 1 + 1 = 2 /\ (k - 1) + 1 = k
    BY <1>1
  <2>3. k # 1 => g[1] = f[2] /\ g[k - 1] = f[k]
    BY <1>3, <2>2
  <2> QED
    BY <1>3, <1>7, <1>8, <2>1, <2>3
<1>17. ASSUME NEW i \in 1..k - 1
       PROVE  /\ w.next[g[i]] = IF i = Len(g) THEN Null ELSE g[i + 1]
              /\ w.prev[g[i]] = IF i = 1 THEN Null ELSE g[i - 1]
              /\ w.value[g[i]] \in Values
  <2>1. g[i] = f[i + 1] /\ f[i + 1] \in Nodes /\ i + 1 \in 1..k /\ f[i + 1] # f[1]
    BY <1>3, <1>12
  <2>2. i # k - 1 => g[i + 1] = f[(i + 1) + 1] /\ i + 1 # k
    <3>1. i # k - 1 => i + 1 \in 1..k - 1 /\ i + 1 # k
      BY <1>1
    <3> QED
      BY <1>3, <3>1
  <2>3. i = k - 1 => i + 1 = k
    BY <1>1
  <2>4. i # 1 => g[i - 1] = f[i]
    <3>1. i # 1 => i - 1 \in 1..k - 1 /\ (i - 1) + 1 = i
      BY <1>1
    <3> QED
      BY <1>3, <3>1
  <2> QED
    BY <1>3, <1>4, <1>10, <1>12, <2>1, <2>2, <2>3, <2>4
<1>18. Chain(w, g)
  BY <1>1, <1>3, <1>8, <1>13, <1>14, <1>15, <1>16, <1>17 DEF Chain
<1>19. \A i \in 1..k - 1 : w.value[f[i + 1]] = u.value[f[i + 1]]
  BY <1>10, <1>12
<1> QED
  BY <1>8, <1>18, <1>19 DEF w, g, k
(* The operations on the list are the operations on its content.            *)
LEMMA PushContent ==
  ASSUME NEW u, Linked(u), NEW n \in Nodes \ u.live, NEW o \in Ops, o.kind = "push"
  PROVE  /\ Linked(Push(u, o, n))
         /\ Content(Push(u, o, n)) = IF o.side = "back" THEN Append(Content(u), o.val)
                                                        ELSE <<o.val>> \o Content(u)
<1> DEFINE f == Walk(u.next, u.front)
           c == Content(u)
           k == Len(f)
<1>1. u \in QueueType /\ Chain(u, f) /\ o.val \in Values
  BY DEF Linked, Ops
<1> HIDE DEF f
<1>2. PICK v \in Values : v = o.val
  BY <1>1
<1>3. /\ c = [i \in 1..k |-> u.value[f[i]]] /\ Len(c) = k /\ c \in Seq(Values)
      /\ f \in Seq(Nodes) /\ k \in Nat /\ \A i \in 1..k : f[i] \in Met(f)
  <2>1. f \in Seq(Nodes)
    BY <1>1 DEF Chain
  <2>2. k \in Nat /\ \A i \in 1..k : f[i] \in Met(f)
    BY <2>1 DEF Met
  <2> QED
    BY <1>1, <2>1, <2>2, ListIs
<1>4. CASE o.side = "back"
  <2> DEFINE w == PushBack(u, n, v)
             g == Append(f, n)
             d == Append(c, v)
  <2>1. /\ w \in QueueType /\ Chain(w, g) /\ w.value[n] = v
        /\ \A m \in Met(f) : w.value[m] = u.value[m]
    BY <1>1, PushBackEffect
  <2>2. Push(u, o, n) = w
    BY <1>2, <1>4 DEF Push
  <2> HIDE DEF w
  <2>3. Len(g) = k + 1 /\ g[k + 1] = n /\ \A i \in 1..k : g[i] = f[i]
    BY <1>3
  <2>4. /\ d \in Seq(Values) /\ Len(d) = k + 1 /\ d[k + 1] = v
        /\ \A i \in 1..k : d[i] = c[i]
    BY <1>3
  <2> HIDE DEF g, c, d
  <2>5. Linked(w) /\ Content(w) = [i \in 1..k + 1 |-> w.value[g[i]]]
    BY <2>1, <2>3, ListIs
  <2>6. \A i \in 1..k + 1 : w.value[g[i]] = d[i]
    <3> SUFFICES ASSUME NEW i \in 1..k + 1 PROVE w.value[g[i]] = d[i]
      OBVIOUS
    <3>1. i = k + 1 \/ i \in 1..k
      BY <1>3
    <3> QED
      BY <1>3, <2>1, <2>3, <2>4, <3>1
  <2>7. d = [i \in 1..k + 1 |-> d[i]]
    BY <2>4
  <2>8. Content(w) = d
    BY <2>5, <2>6, <2>7
  <2> QED
    BY <1>2, <1>4, <2>2, <2>5, <2>8 DEF c, d
<1>5. CASE o.side # "back"
  <2> DEFINE w == PushFront(u, n, v)
             g == <<n>> \o f
             d == <<v>> \o c
  <2>1. /\ w \in QueueType /\ Chain(w, g) /\ w.value[n] = v
        /\ \A m \in Met(f) : w.value[m] = u.value[m]
    BY <1>1, PushFrontEffect
  <2>2. Push(u, o, n) = w
    BY <1>2, <1>5 DEF Push
  <2> HIDE DEF w
  <2>3. Len(g) = k + 1 /\ g[1] = n /\ \A i \in 1..k : g[i + 1] = f[i]
    BY <1>3
  <2>4. /\ d \in Seq(Values) /\ Len(d) = k + 1 /\ d[1] = v
        /\ \A i \in 1..k : d[i + 1] = c[i]
    BY <1>3
  <2> HIDE DEF g, c, d
  <2>5. Linked(w) /\ Content(w) = [i \in 1..k + 1 |-> w.value[g[i]]]
    BY <2>1, <2>3, ListIs
  <2>6. \A i \in 1..k + 1 : w.value[g[i]] = d[i]
    <3> SUFFICES ASSUME NEW i \in 1..k + 1 PROVE w.value[g[i]] = d[i]
      OBVIOUS
    <3>1. i = 1 \/ (i - 1 \in 1..k /\ (i - 1) + 1 = i)
      BY <1>3
    <3>2. CASE i = 1
      BY <2>1, <2>3, <2>4, <3>2
    <3>3. CASE i - 1 \in 1..k /\ (i - 1) + 1 = i
      <4>1. /\ g[i] = f[i - 1] /\ d[i] = c[i - 1] /\ f[i - 1] \in Met(f)
            /\ c[i - 1] = u.value[f[i - 1]]
        BY <1>3, <2>3, <2>4, <3>3
      <4> QED
        BY <2>1, <4>1
    <3> QED
      BY <3>1, <3>2, <3>3
  <2>7. d = [i \in 1..k + 1 |-> d[i]]
    BY <2>4
  <2>8. Content(w) = d
    BY <2>5, <2>6, <2>7
  <2> QED
    BY <1>2, <1>5, <2>2, <2>5, <2>8 DEF c, d
<1> QED
  BY <1>4, <1>5

(* A pop removes the first or the last value of the content.                *)
LEMMA PopContent ==
  ASSUME NEW u, Linked(u), ~IsEmpty(u), NEW side \in Sides
  PROVE  /\ Linked(Pop(u, side))
         /\ Content(Pop(u, side)) = IF side = "back"
                                    THEN SubSeq(Content(u), 1, Len(Content(u)) - 1)
                                    ELSE Tail(Content(u))
<1> DEFINE f == Walk(u.next, u.front)
           c == Content(u)
           k == Len(f)
<1>1. u \in QueueType /\ Chain(u, f)
  BY DEF Linked
<1> HIDE DEF f
<1>2. /\ c = [i \in 1..k |-> u.value[f[i]]] /\ Len(c) = k /\ c \in Seq(Values) /\ f # <<>>
      /\ f \in Seq(Nodes) /\ k \in Nat /\ k # 0
  <2>1. f \in Seq(Nodes)
    BY <1>1 DEF Chain
  <2>2. f # <<>>
    BY <1>1, ListIs
  <2>3. k \in Nat /\ k # 0
    BY <2>1, <2>2
  <2> QED
    BY <1>1, <2>1, <2>2, <2>3, ListIs
<1>3. CASE side = "back"
  <2> DEFINE w == PopBack(u)
             g == SubSeq(f, 1, k - 1)
             d == SubSeq(c, 1, k - 1)
  <2>1. /\ w \in QueueType /\ Chain(w, g)
        /\ \A i \in 1..k - 1 : w.value[f[i]] = u.value[f[i]]
    BY <1>1, <1>2, PopBackEffect
  <2>2. Pop(u, side) = w
    BY <1>3 DEF Pop
  <2> HIDE DEF w
  <2>3. Len(g) = k - 1 /\ \A i \in 1..k - 1 : g[i] = f[i] /\ i \in 1..k
    BY <1>2
  <2>4. d \in Seq(Values) /\ Len(d) = k - 1 /\ \A i \in 1..k - 1 : d[i] = c[i]
    BY <1>2
  <2> HIDE DEF g, c, d
  <2>5. Linked(w) /\ Content(w) = [i \in 1..k - 1 |-> w.value[g[i]]]
    BY <2>1, <2>3, ListIs
  <2>6. \A i \in 1..k - 1 : w.value[g[i]] = d[i]
    BY <1>2, <2>1, <2>3, <2>4
  <2>7. d = [i \in 1..k - 1 |-> d[i]]
    BY <2>4
  <2>8. Content(w) = d
    BY <2>5, <2>6, <2>7
  <2> QED
    BY <1>2, <1>3, <2>2, <2>5, <2>8 DEF c, d
<1>4. CASE side # "back"
  <2> DEFINE w == PopFront(u)
             g == Tail(f)
             d == Tail(c)
  <2>1. /\ w \in QueueType /\ Chain(w, g)
        /\ \A i \in 1..k - 1 : w.value[f[i + 1]] = u.value[f[i + 1]]
    BY <1>1, <1>2, PopFrontEffect
  <2>2. Pop(u, side) = w
    BY <1>4 DEF Pop
  <2> HIDE DEF w
  <2>3. Len(g) = k - 1 /\ \A i \in 1..k - 1 : g[i] = f[i + 1] /\ i + 1 \in 1..k
    BY <1>2
  <2>4. d \in Seq(Values) /\ Len(d) = k - 1 /\ \A i \in 1..k - 1 : d[i] = c[i + 1]
    BY <1>2
  <2> HIDE DEF g, c, d
  <2>5. Linked(w) /\ Content(w) = [i \in 1..k - 1 |-> w.value[g[i]]]
    BY <2>1, <2>3, ListIs
  <2>6. \A i \in 1..k - 1 : w.value[g[i]] = d[i]
    BY <1>2, <2>1, <2>3, <2>4
  <2>7. d = [i \in 1..k - 1 |-> d[i]]
    BY <2>4
  <2>8. Content(w) = d
    BY <2>5, <2>6, <2>7
  <2> QED
    BY <1>2, <1>4, <2>2, <2>5, <2>8 DEF c, d
<1> QED
  BY <1>3, <1>4
--------------------------------------------------------------------------------
(* The invariant.                                                           *)

(* A new queue is the empty list.                                           *)
LEMMA NewQueueLinked == NewQueue \in QueueType /\ Chain(NewQueue, <<>>) /\ Linked(NewQueue)
<1>1. NewQueue \in QueueType
  BY DEF NewQueue, QueueType, Pointers
<1>2. Met(<<>>) = {} /\ Distinct(<<>>) /\ <<>> \in Seq(Nodes) /\ Len(<<>>) = 0
      /\ DOMAIN <<>> = {}
  BY DEF Met, Distinct
<1>3. /\ NewQueue.live = {} /\ NewQueue.length = 0
      /\ NewQueue.front = Null /\ NewQueue.back = Null
      /\ \A n \in Nodes : NewQueue.next[n] = Null /\ NewQueue.prev[n] = Null
  BY DEF NewQueue
<1> DEFINE f == <<>>
<1>4. Met(f) = {} /\ Distinct(f) /\ f \in Seq(Nodes) /\ Len(f) = 0 /\ DOMAIN f = {} /\ f = <<>>
  BY <1>2
<1> HIDE DEF f
<1>5. Chain(NewQueue, f)
  BY <1>3, <1>4 DEF Chain
<1> QED
  BY <1>1, <1>4, <1>5, ListIs

(* An empty queue of either kind is the new one as far as its list goes.    *)
LEMMA EmptyIs ==
  ASSUME NEW u, Linked(u), IsEmpty(u)
  PROVE  u.live = {} /\ Content(u) = <<>>
<1> DEFINE f == Walk(u.next, u.front)
<1>1. u \in QueueType /\ Chain(u, f)
  BY DEF Linked
<1> HIDE DEF f
<1>2. f = <<>> /\ Content(u) = <<>>
  BY <1>1, ListIs
<1> QED
  BY <1>1, <1>2 DEF Chain, Met

(* A call that a step leaves as it is keeps what is known of it.            *)
LEMMA CallKept ==
  ASSUME NEW t \in Threads, CallInv(t), exists' = exists,
         pc'[t] = pc[t], op'[t] = op[t], snap'[t] = snap[t], succ'[t] = succ[t],
         retval'[t] = retval[t], left'[t] = left[t]
  PROVE  CallInv(t)'
BY DEF CallInv

(* A thread whose call has returned.                                        *)
LEMMA CallOver ==
  ASSUME NEW t \in Threads,
         pc'[t] = "idle", op'[t] = NoOp, snap'[t] = NewQueue, succ'[t] = FALSE, left'[t] = FALSE
  PROVE  CallInv(t)'
BY NewQueueLinked DEF CallInv

(* The program begins with a new queue and no attempt.                      *)
LEMMA InitInv ==
  ASSUME Init
  PROVE  IInv
<1>1. TypeOK
  BY NewQueueLinked DEF Init, TypeOK
<1>2. Linked(q) /\ exists
  BY NewQueueLinked DEF Init
<1>3. ASSUME NEW t \in Threads PROVE CallInv(t)
  BY NewQueueLinked DEF Init, CallInv
<1> QED
  BY <1>1, <1>2, <1>3 DEF IInv

(* A call begins an attempt on the committed queue.                         *)
LEMMA CallInvariant ==
  ASSUME IInv, NEW t \in Threads, NEW o \in Ops, Call(t, o)
  PROVE  IInv'
<1>1. TypeOK'
  BY DEF IInv, TypeOK, Call
<1>2. q' = q /\ exists' = exists /\ exists
  BY DEF Call
<1>3. ASSUME NEW s \in Threads PROVE CallInv(s)'
  <2>1. CASE s = t
    BY <2>1 DEF IInv, TypeOK, Call, CallInv
  <2>2. CASE s # t
    BY <2>2, CallKept DEF IInv, TypeOK, Call
  <2> QED
    BY <2>1, <2>2
<1> QED
  BY <1>1, <1>2, <1>3 DEF IInv

(* A restarted attempt begins again, with the succ it has.                  *)
LEMMA RestartInvariant ==
  ASSUME IInv, NEW t \in Threads, Restart(t)
  PROVE  IInv'
<1>1. TypeOK'
  BY DEF IInv, TypeOK, Restart
<1>2. q' = q /\ exists' = exists
  BY DEF Restart
<1>3. ASSUME NEW s \in Threads PROVE CallInv(s)'
  <2>1. CASE s = t
    BY <2>1 DEF IInv, TypeOK, Restart, CallInv
  <2>2. CASE s # t
    BY <2>2, CallKept DEF IInv, TypeOK, Restart
  <2> QED
    BY <2>1, <2>2
<1> QED
  BY <1>1, <1>2, <1>3 DEF IInv

(* An attempt that has met an entry sets succ.                              *)
LEMMA ClaimInvariant ==
  ASSUME IInv, NEW t \in Threads, Claim(t)
  PROVE  IInv'
<1>1. TypeOK'
  BY DEF IInv, TypeOK, Claim
<1>2. q' = q /\ exists' = exists
  BY DEF Claim
<1>3. ASSUME NEW s \in Threads PROVE CallInv(s)'
  <2>1. CASE s = t
    BY <2>1 DEF IInv, TypeOK, Claim, CallInv
  <2>2. CASE s # t
    BY <2>2, CallKept DEF IInv, TypeOK, Claim
  <2> QED
    BY <2>1, <2>2
<1> QED
  BY <1>1, <1>2, <1>3 DEF IInv

(* So does one that has read the value.                                     *)
LEMMA ReadValueInvariant ==
  ASSUME IInv, NEW t \in Threads, ReadValue(t)
  PROVE  IInv'
<1>1. Linked(snap[t]) /\ ~IsEmpty(snap[t]) /\ op[t].side \in Sides
  BY DEF IInv, CallInv, ReadValue, Ops
<1>2. ValueAt(snap[t], op[t].side) \in Values
  BY <1>1, EndIs
<1>3. TypeOK'
  BY <1>2 DEF IInv, TypeOK, ReadValue
<1>4. q' = q /\ exists' = exists
  BY DEF ReadValue
<1>5. ASSUME NEW s \in Threads PROVE CallInv(s)'
  <2>1. CASE s = t
    BY <2>1 DEF IInv, TypeOK, ReadValue, CallInv
  <2>2. CASE s # t
    BY <2>2, CallKept DEF IInv, TypeOK, ReadValue
  <2> QED
    BY <2>1, <2>2
<1> QED
  BY <1>3, <1>4, <1>5 DEF IInv

(* What all the actions that return have in common: the rest is that the    *)
(* queue they leave behind is linked and the value they took is one.        *)
LEMMA ReturnInvariant ==
  ASSUME IInv, NEW t \in Threads, NEW code \in {0, 1}, NEW v \in Values \cup {NoVal},
         Return(t, code, v), pc[t] # "idle", Linked(q')
  PROVE  IInv'
<1>1. exists /\ exists' = exists
  BY DEF IInv, CallInv, Return
<1>2. q' \in QueueType
  BY DEF Linked
<1>3. TypeOK'
  BY <1>1, <1>2, NewQueueLinked DEF IInv, TypeOK, Return
<1>4. ASSUME NEW s \in Threads PROVE CallInv(s)'
  <2>1. CASE s = t
    BY <2>1, CallOver DEF IInv, TypeOK, Return
  <2>2. CASE s # t
    BY <2>2, CallKept DEF IInv, TypeOK, Return
  <2> QED
    BY <2>1, <2>2
<1> QED
  BY <1>1, <1>3, <1>4 DEF IInv

(* A push commits a queue with one entry more.                              *)
LEMMA CommitPushInvariant ==
  ASSUME IInv, NEW t \in Threads, NEW n \in Nodes, CommitPush(t, n)
  PROVE  IInv'
<1>1. op[t] \in Ops /\ op[t].kind = "push" /\ Linked(q) /\ n \in Nodes \ q.live
      /\ pc[t] = "look" /\ q' = Push(q, op[t], n) /\ Return(t, 0, NoVal)
  BY DEF IInv, CallInv, CommitPush
<1>2. Linked(q')
  BY <1>1, PushContent
<1> QED
  BY <1>1, <1>2, ReturnInvariant

(* A pop commits a queue with one entry less.                               *)
LEMMA CommitPopInvariant ==
  ASSUME IInv, NEW t \in Threads, CommitPop(t)
  PROVE  IInv'
<1>1. /\ op[t].side \in Sides /\ Linked(q) /\ ~IsEmpty(q) /\ pc[t] = "valued"
      /\ q' = Pop(q, op[t].side) /\ Return(t, Code(t, 0), EndOf(q, op[t].side))
  BY DEF IInv, CallInv, CommitPop, Ops
<1>2. Linked(q')
  BY <1>1, PopContent
<1>3. Code(t, 0) \in {0, 1} /\ EndOf(q, op[t].side) \in Values \cup {NoVal}
  BY <1>1, EndIs DEF Code
<1> QED
  BY <1>1, <1>2, <1>3, ReturnInvariant

(* What fails, peeks or finds nothing leaves the queue as it is.            *)
LEMMA UnchangedInvariant ==
  ASSUME IInv, NEW t \in Threads, Aborts(t) \/ CommitPeak(t) \/ CommitEmpty(t)
  PROVE  IInv'
<1>1. Linked(q') /\ pc[t] # "idle" /\ \A r \in {0, 1} : Code(t, r) \in {0, 1}
  BY DEF IInv, Aborts, CommitPeak, CommitEmpty, Code
<1>2. CASE Aborts(t)
  BY <1>1, <1>2, ReturnInvariant DEF Aborts
<1>3. CASE CommitPeak(t)
  <2>1. op[t].side \in Sides /\ Linked(snap[t]) /\ ~IsEmpty(snap[t])
    BY <1>3 DEF IInv, CallInv, CommitPeak, Ops
  <2>2. EndOf(snap[t], op[t].side) \in Values \cup {NoVal}
    BY <2>1, EndIs
  <2> QED
    BY <1>1, <1>3, <2>2, ReturnInvariant DEF CommitPeak
<1>4. CASE CommitEmpty(t)
  BY <1>1, <1>4, ReturnInvariant DEF CommitEmpty
<1> QED
  BY <1>2, <1>3, <1>4

(* queue_destroy and queue_new leave a queue without entries: the first     *)
(* frees all that is on the list, which is all that is allocated.           *)
LEMMA DestroyNewInvariant ==
  ASSUME IInv, Destroy \/ New
  PROVE  IInv' /\ q' = NewQueue
<1>1. q' = NewQueue
  <2>1. CASE Destroy
    <3>1. q.live = Met(Walk(q.next, q.front))
      BY DEF IInv, Linked, Chain
    <3>2. q' = [NewQueue EXCEPT !.live = {}]
      BY <2>1, <3>1 DEF Destroy
    <3> QED
      BY <3>2 DEF NewQueue
  <2>2. CASE New
    <3>1. q.live = {}
      BY <2>2, EmptyIs DEF IInv, New
    <3>2. q' = [NewQueue EXCEPT !.live = {}]
      BY <2>2, <3>1 DEF New
    <3> QED
      BY <3>2 DEF NewQueue
  <2> QED
    BY <2>1, <2>2
<1>2. Linked(q') /\ q' \in QueueType /\ IsEmpty(q')
  BY <1>1, NewQueueLinked DEF IsEmpty, NewQueue
<1>3. exists' \in BOOLEAN /\ UNCHANGED callVars
  BY DEF Destroy, New
<1>4. TypeOK'
  BY <1>2, <1>3 DEF IInv, TypeOK, callVars
<1>5. ASSUME NEW s \in Threads PROVE CallInv(s)'
  <2>1. pc[s] = "idle"
    BY DEF IInv, CallInv, Destroy, New
  <2> QED
    BY <1>3, <2>1 DEF IInv, CallInv, callVars
<1> QED
  BY <1>1, <1>2, <1>4, <1>5 DEF IInv

(* Every step keeps the invariant.                                          *)
LEMMA NextInv ==
  ASSUME IInv, [Next]_vars
  PROVE  IInv'
<1>1. CASE UNCHANGED vars
  BY <1>1 DEF IInv, TypeOK, CallInv, vars, callVars
<1>2. ASSUME NEW t \in Threads, Step(t) PROVE IInv'
  BY <1>2, CallInvariant, RestartInvariant, ClaimInvariant, ReadValueInvariant,
     CommitPushInvariant, CommitPopInvariant, UnchangedInvariant DEF Step
<1>3. CASE Destroy \/ New
  BY <1>3, DestroyNewInvariant
<1> QED
  BY <1>1, <1>2, <1>3 DEF Next
(* A chain is met from the front and, reversed, from the back.              *)
LEMMA InvImpliesWellLinked == IInv => WellLinked
<1> SUFFICES ASSUME IInv PROVE WellLinked
  OBVIOUS
<1> DEFINE f == Walk(q.next, q.front)
           b == Walk(q.prev, q.back)
<1>1. TypeOK /\ Chain(q, f)
  BY DEF IInv, Linked
<1>2. b = [i \in 1..Len(f) |-> f[Len(f) + 1 - i]]
  BY <1>1, ChainWalkBack
<1> HIDE DEF f
<1>3. /\ f \in Seq(Nodes) /\ Distinct(f) /\ q.live = Met(f) /\ q.length = Len(f)
      /\ Len(f) \in Nat /\ DOMAIN f = 1..Len(f)
  BY <1>1 DEF Chain
<1>4. Cardinality(q.live) = Len(f)
  BY <1>3, ListBound
<1>5. Len(b) = Len(f)
  BY <1>2, <1>3
<1> HIDE DEF b
<1>6. ASSUME NEW i \in DOMAIN f PROVE b[Len(f) + 1 - i] = f[i]
  <2>1. Len(f) + 1 - i \in 1..Len(f) /\ Len(f) + 1 - (Len(f) + 1 - i) = i
    BY <1>3
  <2> QED
    BY <1>2, <2>1
<1> QED
  BY <1>1, <1>3, <1>4, <1>5, <1>6 DEF WellLinked, f, b

(* What a step shows a caller.                                              *)
LEMMA StepReplies ==
  ASSUME IInv, [Next]_vars, NEW t \in Threads
  PROVE  TrueReply(t)
<1> SUFFICES ASSUME op[t].kind \in {"pop", "peak"}, pc'[t] = "idle"
             PROVE  IF took'[t] # NoVal THEN reply'[t] = 0 /\ retval'[t] = took'[t]
                                        ELSE q' = q /\ (reply'[t] = 0 => left[t])
  BY DEF TrueReply
<1>1. TypeOK /\ CallInv(t) /\ NoVal \notin Values
  BY ConstAssumption DEF IInv
<1>2. pc[t] # "idle"
  BY <1>1 DEF CallInv, NoOp
<1>3. op[t].side \in Sides
  BY <1>1, <1>2 DEF CallInv, Ops
<1>4. CASE CommitPop(t)
  <2>1. Linked(q) /\ ~IsEmpty(q) /\ retval[t] = ValueAt(q, op[t].side) /\ succ[t]
    BY <1>1, <1>4 DEF CallInv, CommitPop
  <2>2. retval[t] = EndOf(q, op[t].side) /\ EndOf(q, op[t].side) \in Values
    BY <1>3, <2>1, EndIs
  <2>3. took'[t] = EndOf(q, op[t].side) /\ reply'[t] = 0 /\ retval' = retval
    BY <1>1, <1>4, <2>1 DEF CommitPop, Return, Code, TypeOK
  <2> QED
    BY <1>1, <2>2, <2>3
<1>5. CASE CommitPeak(t)
  <2>1. /\ Linked(snap[t]) /\ ~IsEmpty(snap[t]) /\ succ[t]
        /\ retval[t] = ValueAt(snap[t], op[t].side)
    BY <1>1, <1>5 DEF CallInv, CommitPeak
  <2>2. retval[t] = EndOf(snap[t], op[t].side) /\ EndOf(snap[t], op[t].side) \in Values
    BY <1>3, <2>1, EndIs
  <2>3. took'[t] = EndOf(snap[t], op[t].side) /\ reply'[t] = 0 /\ retval' = retval
    BY <1>1, <1>5, <2>1 DEF CommitPeak, Return, Code, TypeOK
  <2> QED
    BY <1>1, <2>2, <2>3
<1>6. CASE CommitEmpty(t)
  <2>1. took'[t] = NoVal /\ reply'[t] = Code(t, 0) /\ q' = q
    BY <1>1, <1>6 DEF CommitEmpty, Return, TypeOK
  <2>2. succ[t] <=> left[t]
    BY <1>1, <1>6 DEF CallInv, CommitEmpty
  <2> QED
    BY <2>1, <2>2 DEF Code
<1>a. CASE Aborts(t)
  BY <1>1, <1>a DEF Aborts, Return, Code, TypeOK
<1>7. ASSUME NEW s \in Threads, Step(s)
      PROVE  CommitPop(t) \/ CommitPeak(t) \/ CommitEmpty(t) \/ Aborts(t)
  <2>1. s = t
    BY <1>1, <1>2, <1>7 DEF Step, Call, Restart, Claim, ReadValue, CommitPush, Aborts,
       CommitPop, CommitPeak, CommitEmpty, Return, TypeOK
  <2> QED
    BY <1>1, <1>2, <1>7, <2>1 DEF Step, Call, Restart, Claim, ReadValue, CommitPush,
       Aborts, TypeOK
<1>8. UNCHANGED vars \/ Destroy \/ New => pc' = pc
  BY DEF vars, callVars, Destroy, New
<1> QED
  BY <1>2, <1>4, <1>5, <1>6, <1>a, <1>7, <1>8 DEF Next

(* Every step is an operation of Deque on the content, or leaves it alone.  *)
LEMMA StepRefines ==
  ASSUME IInv, [Next]_vars
  PROVE  [D!Next]_(D!vars)
<1>1. ASSUME q' = q, exists' = exists PROVE UNCHANGED D!vars
  BY <1>1 DEF D!vars
<1>2. ASSUME NEW t \in Threads, Step(t) PROVE [D!Next]_(D!vars)
  <2>1. CASE \/ \E o \in Ops : Call(t, o)
             \/ Restart(t) \/ Claim(t) \/ ReadValue(t)
             \/ Aborts(t) \/ CommitPeak(t) \/ CommitEmpty(t)
    BY <1>1, <2>1 DEF Call, Restart, Claim, ReadValue, Aborts, CommitPeak, CommitEmpty, Return
  <2>2. ASSUME NEW n \in Nodes, CommitPush(t, n) PROVE D!Next
    <3>1. /\ op[t] \in Ops /\ op[t].kind = "push" /\ Linked(q) /\ n \in Nodes \ q.live
          /\ exists /\ exists' = exists /\ q' = Push(q, op[t], n)
      BY <2>2 DEF IInv, CallInv, CommitPush, Return
    <3>2. op[t].val \in Values
      BY <3>1 DEF Ops
    <3>3. Content(q') = IF op[t].side = "back" THEN Append(Content(q), op[t].val)
                                               ELSE <<op[t].val>> \o Content(q)
      BY <3>1, PushContent
    <3>4. D!PushBack(op[t].val) \/ D!PushFront(op[t].val)
      BY <3>1, <3>3 DEF D!PushBack, D!PushFront
    <3> QED
      BY <3>2, <3>4 DEF D!Next
  <2>3. CASE CommitPop(t)
    <3>1. /\ op[t].side \in Sides /\ Linked(q) /\ ~IsEmpty(q)
          /\ exists /\ exists' = exists /\ q' = Pop(q, op[t].side)
      BY <2>3 DEF IInv, CallInv, CommitPop, Return, Ops
    <3>2. Content(q') = IF op[t].side = "back"
                        THEN SubSeq(Content(q), 1, Len(Content(q)) - 1)
                        ELSE Tail(Content(q))
      BY <3>1, PopContent
    <3>3. Content(q) # <<>>
      BY <3>1, ListIs DEF Linked
    <3> QED
      BY <3>1, <3>2, <3>3 DEF D!Next, D!PopBack, D!PopFront
  <2> QED
    BY <1>2, <2>1, <2>2, <2>3 DEF Step
<1>3. CASE Destroy \/ New
  <2>1. Content(q') = <<>>
    BY <1>3, DestroyNewInvariant, NewQueueLinked, EmptyIs DEF IsEmpty, NewQueue
  <2>2. CASE Destroy
    BY <2>1, <2>2 DEF Destroy, D!Next, D!Destroy
  <2>3. CASE New
    <3>1. Content(q) = <<>>
      BY <2>3, EmptyIs DEF IInv, New
    <3> QED
      BY <2>1, <2>3, <3>1 DEF New, D!Next, D!New
  <2> QED
    BY <1>3, <2>2, <2>3
<1>4. CASE UNCHANGED vars
  BY <1>1, <1>4 DEF vars
<1> QED
  BY <1>2, <1>3, <1>4 DEF Next

--------------------------------------------------------------------------------
(* The invariant holds in every reachable state: the committed queue and    *)
(* every version an attempt works on are doubly linked lists.               *)
THEOREM QueueInvariance == Spec => []IInv
<1>1. Init => IInv
  BY InitInv
<1>2. IInv /\ [Next]_vars => IInv'
  BY NextInv
<1> QED
  BY <1>1, <1>2, PTL DEF Spec

(* The entries of the queue of tm_queue.c are one list, from the front      *)
(* along next and from the back along prev, as long as length says, and     *)
(* exactly the entries allocated: nothing leaks, nothing is lost.           *)
THEOREM QueueWellLinked == Spec => []WellLinked
BY QueueInvariance, InvImpliesWellLinked, PTL

(* pop and peak report success with the value their committed attempt took  *)
(* or saw, and failure when it found the queue empty or aborted, except for *)
(* the stale succ of an earlier attempt (tm_queue.h:31-40).                 *)
THEOREM QueueReplies == Spec => RepliesAreTrue
<1>1. IInv /\ [Next]_vars => [\A t \in Threads : TrueReply(t)]_vars
  BY StepReplies
<1> QED
  BY QueueInvariance, <1>1, PTL DEF Spec, RepliesAreTrue

(* The transactional queue implements a queue that operations change one at *)
(* a time, however many attempts are thrown away.                           *)
THEOREM QueueRefinement == Spec => ImplementsDeque
<1>1. Init => D!Init
  BY NewQueueLinked, EmptyIs DEF Init, D!Init, IsEmpty, NewQueue
<1>2. IInv /\ [Next]_vars => [D!Next]_(D!vars)
  BY StepRefines
<1> QED
  BY QueueInvariance, <1>1, <1>2, PTL DEF Spec, ImplementsDeque, D!Spec

--------------------------------------------------------------------------------
(* XxhArith.                                                                *)

\* Products of integers.
LEMMA Distribute ==
  ASSUME NEW a \in Int, NEW b \in Int, NEW c \in Int
  PROVE  /\ (a + b) * c = a * c + b * c
         /\ c * (a + b) = c * a + c * b
         /\ (a - b) * c = a * c - b * c
         /\ a * b = b * a
         /\ (a * b) * c = a * (b * c)
         /\ a * b \in Int
OBVIOUS

\* A product with a natural number is monotonic.
LEMMA Monotone ==
  ASSUME NEW a \in Int, NEW b \in Int, NEW m \in Nat, a <= b
  PROVE  a * m <= b * m
<1>1. b - a \in Nat /\ (b - a) * m \in Nat
  OBVIOUS
<1>2. (b - a) * m = b * m - a * m
  BY Distribute
<1> QED
  BY <1>1, <1>2

\* What quotient and remainder are.
LEMMA DivMod ==
  ASSUME NEW m \in Nat, m > 0, NEW x \in Int
  PROVE  /\ x \div m \in Int
         /\ x % m \in 0..m - 1
         /\ x = (x \div m) * m + (x % m)
OBVIOUS

\* Quotient and remainder are unique.
LEMMA Unique ==
  ASSUME NEW m \in Nat, m > 0, NEW z \in Int, NEW p \in Int,
         NEW r \in 0..m - 1, NEW s \in 0..m - 1, z * m + r = p * m + s
  PROVE  z = p /\ r = s
<1>1. CASE z < p
  <2>1. (z + 1) * m <= p * m
    BY <1>1, Monotone
  <2>2. (z + 1) * m = z * m + m
    BY Distribute
  <2> QED
    BY <2>1, <2>2
<1>2. CASE p < z
  <2>1. (p + 1) * m <= z * m
    BY <1>2, Monotone
  <2>2. (p + 1) * m = p * m + m
    BY Distribute
  <2> QED
    BY <2>1, <2>2
<1> QED
  BY <1>1, <1>2

\* The quotient and the remainder of a number given by them.
LEMMA QuotientRest ==
  ASSUME NEW m \in Nat, m > 0, NEW z \in Int, NEW r \in 0..m - 1
  PROVE  (z * m + r) \div m = z /\ (z * m + r) % m = r
<1> DEFINE x == z * m + r
<1>1. x \in Int
  OBVIOUS
<1>2. x \div m \in Int /\ x % m \in 0..m - 1 /\ x = (x \div m) * m + (x % m)
  BY <1>1, DivMod
<1> QED
  BY <1>2, Unique

\* A word has values.
LEMMA WIsPositive == W \in Nat /\ W > 0
BY ArithAssumption, Monotone DEF W

\* Every integer is its 64 bits and a multiple of W.
LEMMA Represent ==
  ASSUME NEW x \in Int
  PROVE  /\ Wrap(x) \in 0..W - 1
         /\ \E z \in Int : x = z * W + Wrap(x)
<1>1. x \div W \in Int /\ x = (x \div W) * W + (x % W) /\ x % W \in 0..W - 1
  BY WIsPositive, DivMod
<1> QED
  BY <1>1 DEF Wrap

\* Multiples of W are lost in 64 bits.
LEMMA Congruent ==
  ASSUME NEW x \in Int, NEW k \in Int
  PROVE  Wrap(x + k * W) = Wrap(x)
<1>1. PICK z \in Int : x = z * W + Wrap(x)
  BY Represent
<1>2. Wrap(x) \in 0..W - 1
  BY Represent
<1>3. PICK p \in Int : p = z + k
  OBVIOUS
<1>4. x + k * W = p * W + Wrap(x)
  BY <1>1, <1>2, <1>3, WIsPositive, Distribute
<1>5. (p * W + Wrap(x)) % W = Wrap(x)
  BY <1>2, WIsPositive, QuotientRest
<1> QED
  BY <1>4, <1>5 DEF Wrap

\* It does not matter when a sum is cut to 64 bits.
LEMMA WrapOnce ==
  ASSUME NEW x \in Int, NEW y \in Int
  PROVE  /\ Wrap(Wrap(x) + y) = Wrap(x + y)
         /\ Wrap(y + Wrap(x)) = Wrap(x + y)
<1>1. PICK z \in Int : x = z * W + Wrap(x)
  BY Represent
<1>2. Wrap(x) \in Int /\ W \in Int
  BY Represent, WIsPositive
<1>3. (-z) * W = -(z * W)
  BY <1>2
<1>4. Wrap(x) + y = (x + y) + (-z) * W
  BY <1>1, <1>2, <1>3
<1>5. Wrap((x + y) + (-z) * W) = Wrap(x + y)
  BY Congruent
<1> QED
  BY <1>2, <1>4, <1>5

\* A word is not changed by cutting it.
LEMMA Fits ==
  ASSUME NEW x \in Words
  PROVE  Wrap(x) = x
<1>1. 0 * W + x = x
  BY WIsPositive DEF Words
<1> QED
  BY <1>1, WIsPositive, QuotientRest DEF Words, Wrap

\* A word is its two halves.
LEMMA Split ==
  ASSUME NEW x \in Words
  PROVE  Hi(x) \in Halves /\ Lo(x) \in Halves /\ x = Hi(x) * H + Lo(x)
<1>1. H \in Nat /\ H > 0 /\ x \in Int /\ 0 <= x /\ x < H * H
  BY ArithAssumption DEF Words, W
<1>2. Hi(x) \in Int /\ Lo(x) \in Halves /\ x = Hi(x) * H + Lo(x)
  BY <1>1, DivMod DEF Hi, Lo, Halves
<1>3. Hi(x) < H
  <2> SUFFICES ASSUME H <= Hi(x) PROVE FALSE
    BY <1>1, <1>2
  <2>1. H * H <= Hi(x) * H
    BY <1>1, <1>2, Monotone
  <2> QED
    BY <1>1, <1>2, <2>1 DEF Halves
<1>4. Hi(x) >= 0
  <2> SUFFICES ASSUME Hi(x) <= -1 PROVE FALSE
    BY <1>2
  <2>1. Hi(x) * H <= (-1) * H
    BY <1>1, <1>2, Monotone
  <2> QED
    BY <1>1, <1>2, <2>1 DEF Halves
<1> QED
  BY <1>1, <1>2, <1>3, <1>4 DEF Halves

\* A half word is its own low half.
LEMMA LowOfHalf ==
  ASSUME NEW y \in Halves
  PROVE  Lo(y) = y
<1>1. 0 * H + y = y
  BY ArithAssumption DEF Halves
<1> QED
  BY <1>1, ArithAssumption, QuotientRest DEF Lo, Halves

\* The low half of anything is a half word.
LEMMA HalfBound ==
  ASSUME NEW x \in Int
  PROVE  Lo(x) \in Halves
BY ArithAssumption, DivMod DEF Lo, Halves

\* The product of two half words leaves room for two more in a word.
LEMMA HalfProduct ==
  ASSUME NEW a \in Halves, NEW b \in Halves
  PROVE  /\ a * b \in Nat
         /\ a * b <= W - 2 * H + 1
         /\ mult32to64(a, b) = a * b
<1>1. H \in Nat /\ H > 1 /\ a \in 0..H - 1 /\ b \in 0..H - 1
  BY ArithAssumption DEF Halves
<1>2. a * b <= (H - 1) * b /\ b * (H - 1) <= (H - 1) * (H - 1) /\ a * b \in Nat
  BY <1>1, Monotone
<1>3. (H - 1) * b = b * (H - 1)
  BY <1>1
<1>4. (H - 1) * (H - 1) = W - 2 * H + 1
  BY <1>1 DEF W
<1>5. Lo(a) = a /\ Lo(b) = b
  <2>1. 0 * H + a = a /\ 0 * H + b = b
    BY <1>1
  <2> QED
    BY <1>1, <2>1, QuotientRest DEF Lo
<1> QED
  BY <1>1, <1>2, <1>3, <1>4, <1>5 DEF mult32to64, W

\* "These will never overflow" (xxhash.h:4149): the portable multiplication
\* yields all 128 bits of the product, and no sum on the way exceeds 64 bits.
THEOREM MultiplicationIsExact ==
  ASSUME NEW lhs \in Words, NEW rhs \in Words
  PROVE  LET r == mult64to128(lhs, rhs)
         IN  /\ r.low64 \in Words /\ r.high64 \in Words
             /\ r.high64 * W + r.low64 = lhs * rhs
<1> DEFINE a  == Hi(lhs)
           b  == Lo(lhs)
           c  == Hi(rhs)
           d  == Lo(rhs)
           ll == b * d
           hl == a * d
           lh == b * c
           hh == a * c
           cr == Hi(ll) + Lo(hl) + lh
           up == Hi(hl) + Hi(cr) + hh
<1>1. /\ a \in Halves /\ b \in Halves /\ lhs = a * H + b
      /\ c \in Halves /\ d \in Halves /\ rhs = c * H + d
  BY Split
<1>2. H \in Nat /\ H > 1 /\ W \in Nat /\ W = H * H /\ W >= 2 * H
  BY ArithAssumption, Monotone DEF W
<1>3. \A x \in {ll, hl, lh, hh} : x \in Nat /\ x <= W - 2 * H + 1 /\ x \in Words
  BY <1>1, <1>2, HalfProduct DEF Words
<1>4. /\ mult32to64(b, d) = ll /\ mult32to64(a, d) = hl
      /\ mult32to64(b, c) = lh /\ mult32to64(a, c) = hh
  BY <1>1, HalfProduct
<1>5. \A x \in {ll, hl} : Hi(x) \in Halves /\ Lo(x) \in Halves /\ x = Hi(x) * H + Lo(x)
  BY <1>3, Split
<1> HIDE DEF ll, hl, lh, hh, a, b, c, d
<1>6. cr \in Words
  BY <1>2, <1>3, <1>5 DEF Words, Halves
<1>7. Hi(cr) \in Halves /\ Lo(cr) \in Halves /\ cr = Hi(cr) * H + Lo(cr)
  BY <1>6, Split
<1>8. up \in Words
  BY <1>2, <1>3, <1>5, <1>7 DEF Words, Halves
<1>9. Wrap(cr) = cr /\ Wrap(up) = up
  BY <1>6, <1>8, Fits
<1>10. up * W + (Lo(cr) * H + Lo(ll)) = lhs * rhs
  <2>1. lhs * rhs = hh * W + hl * H + lh * H + ll
    <3>1. a \in Int /\ b \in Int /\ c \in Int /\ d \in Int /\ H \in Int
      BY <1>1, <1>2 DEF Halves
    <3>2. (a * H + b) * (c * H + d) = (a * c) * (H * H) + (a * d) * H + (b * c) * H + b * d
      BY <3>1
    <3> QED
      BY <1>1, <1>2, <3>2 DEF hh, hl, lh, ll
  <2> HIDE DEF cr, up
  <2>2. /\ Hi(hl) \in Int /\ Lo(hl) \in Int /\ Hi(ll) \in Int /\ Lo(ll) \in Int
        /\ Hi(cr) \in Int /\ Lo(cr) \in Int /\ hh \in Int /\ lh \in Int /\ H \in Int
    BY <1>2, <1>3, <1>5, <1>7 DEF Halves
  <2>3. up * W = Hi(hl) * W + Hi(cr) * W + hh * W
    BY <1>2, <2>2 DEF up
  <2>4. cr * H = Hi(ll) * H + Lo(hl) * H + lh * H
    BY <2>2 DEF cr
  <2>5. cr * H = Hi(cr) * W + Lo(cr) * H
    <3>1. (Hi(cr) * H + Lo(cr)) * H = Hi(cr) * (H * H) + Lo(cr) * H
      BY <2>2
    <3> QED
      BY <1>2, <1>7, <3>1
  <2>6. hl * H = Hi(hl) * W + Lo(hl) * H
    <3>1. (Hi(hl) * H + Lo(hl)) * H = Hi(hl) * (H * H) + Lo(hl) * H
      BY <2>2
    <3> QED
      BY <1>2, <1>5, <3>1
  <2>7. ll = Hi(ll) * H + Lo(ll)
    BY <1>5
  <2>8. /\ up * W \in Int /\ Hi(hl) * W \in Int /\ Hi(cr) * W \in Int /\ hh * W \in Int
        /\ cr * H \in Int /\ Hi(ll) * H \in Int /\ Lo(hl) * H \in Int /\ lh * H \in Int
        /\ Lo(cr) * H \in Int /\ hl * H \in Int
    BY <1>2, <2>2, <2>3, <2>4, <2>6
  <2>9. up * W + Lo(cr) * H = Hi(hl) * W + hh * W + cr * H
    BY <2>3, <2>5, <2>8
  <2>10. up * W + Lo(cr) * H = hl * H + hh * W + lh * H + Hi(ll) * H
    BY <2>4, <2>6, <2>8, <2>9
  <2> QED
    BY <2>1, <2>2, <2>7, <2>8, <2>10
<1>11. Lo(cr) * H \in Words /\ Lo(cr) * H + Lo(ll) \in Words
  <2>1. Lo(cr) * H <= (H - 1) * H /\ Lo(cr) * H \in Nat
    BY <1>2, <1>7, Monotone DEF Halves
  <2>2. (H - 1) * H = W - H
    BY <1>2
  <2> QED
    BY <1>2, <1>5, <2>1, <2>2 DEF Words, Halves
<1>12. Wrap(cr * H) = Lo(cr) * H
  <2>1. Hi(cr) \in Int /\ Lo(cr) \in Int /\ H \in Int
    BY <1>2, <1>7 DEF Halves
  <2>2. (Hi(cr) * H + Lo(cr)) * H = Lo(cr) * H + Hi(cr) * (H * H)
    BY <2>1
  <2>3. Wrap(Lo(cr) * H + Hi(cr) * W) = Wrap(Lo(cr) * H)
    BY <2>1, Congruent
  <2> QED
    BY <1>2, <1>7, <1>11, <2>2, <2>3, Fits
<1> QED
  BY <1>4, <1>8, <1>9, <1>10, <1>11, <1>12 DEF mult64to128, a, b, c, d

\* The two formulas that xxhash.h:6233-6256 derives from one another, for a
\* processor of 32 and of 64 bits, add the same to m128.high64.
THEOREM AddsAgree ==
  ASSUME NEW x \in Words, NEW prime \in Halves \ {0}
  PROVE  Add32Bit(x, prime) = Add64Bit(x, prime)
<1>1. x \in Int /\ prime \in Int /\ prime \in Halves /\ prime - 1 \in Halves
  BY ArithAssumption DEF Words, Halves
<1>2. Lo(x) \in Int /\ Lo(x) \in Halves
  BY <1>1, HalfBound DEF Halves
<1>3. /\ mult32to64(x, prime) = Lo(x) * prime
      /\ mult32to64(x, prime - 1) = Lo(x) * (prime - 1)
  BY <1>1, LowOfHalf DEF mult32to64
<1>4. (x - Lo(x)) + Lo(x) * prime = x + Lo(x) * (prime - 1)
  BY <1>1, <1>2
<1> QED
  BY <1>3, <1>4 DEF Add32Bit, Add64Bit

\* Two multiplications of 32 bits, as in SSE2, are the one of 64 bits that
\* ends the scrambling of a lane.
THEOREM ScramblesAgree ==
  ASSUME NEW x \in Words, NEW prime \in Halves
  PROVE  scramble_scalar(x, prime) = scramble_sse2(x, prime)
<1>1. /\ Hi(x) \in Halves /\ Lo(x) \in Halves /\ x = Hi(x) * H + Lo(x)
      /\ H \in Int /\ prime \in Int /\ Hi(x) \in Int /\ Lo(x) \in Int
  BY Split, ArithAssumption DEF Halves
<1>2. prime \in Halves /\ Hi(x) \in Halves
  BY <1>1
<1>3. /\ mult32to64(x, prime) = Lo(x) * prime
      /\ mult32to64(Hi(x), prime) = Hi(x) * prime
  BY <1>2, LowOfHalf DEF mult32to64
<1>4. x * prime = (Hi(x) * prime) * H + Lo(x) * prime
  <2>1. (Hi(x) * H + Lo(x)) * prime = (Hi(x) * prime) * H + Lo(x) * prime
    BY <1>1
  <2> QED
    BY <1>1, <2>1
<1>5. Wrap(Lo(x) * prime + Wrap((Hi(x) * prime) * H)) = Wrap((Hi(x) * prime) * H + Lo(x) * prime)
  BY <1>1, WrapOnce
<1> QED
  BY <1>3, <1>4, <1>5 DEF scramble_scalar, scramble_sse2

\* The secret derived from a seed is the same in both builds.
THEOREM SecretsAgree ==
  ASSUME NEW n \in Nat, NEW kSecret \in [0..n - 1 -> Words], NEW seed64 \in Words
  PROVE  customSecret_scalar(kSecret, seed64) = customSecret_sse2(kSecret, seed64)
<1> SUFFICES ASSUME NEW i \in 0..n - 1
             PROVE  customSecret_scalar(kSecret, seed64)[i] = customSecret_sse2(kSecret, seed64)[i]
  BY DEF customSecret_scalar, customSecret_sse2
<1>1. i % 2 \in 0..1 /\ kSecret[i] \in Int /\ seed64 \in Int
  BY DEF Words
<1>2. CASE i % 2 = 0
  BY <1>2 DEF customSecret_scalar, customSecret_sse2
<1>3. CASE i % 2 = 1
  <2>1. Wrap(kSecret[i] + Wrap(0 - seed64)) = Wrap((0 - seed64) + kSecret[i])
    BY <1>1, WrapOnce
  <2>2. (0 - seed64) + kSecret[i] = kSecret[i] - seed64
    BY <1>1
  <2> QED
    BY <1>3, <2>1, <2>2 DEF customSecret_scalar, customSecret_sse2
<1> QED
  BY <1>1, <1>2, <1>3

\* What one lane of data, once keyed, adds to its accumulator.
Product(input, secret, lane) ==
  mult32to64(Xor64(input[lane], secret[lane]), Hi(Xor64(input[lane], secret[lane])))

\* It is a number.
LEMMA ProductIsInt ==
  ASSUME NEW input \in [Lanes -> Words], NEW secret \in [Lanes -> Words], NEW lane \in Lanes
  PROVE  Product(input, secret, lane) \in Int
<1>1. Xor64(input[lane], secret[lane]) \in Words
  BY ArithAssumption
<1> DEFINE key == Xor64(input[lane], secret[lane])
<1>2. key \in Int /\ Hi(key) \in Halves /\ Hi(key) \in Int
  BY <1>1, Split DEF Words, Halves
<1>3. Lo(key) \in Int /\ Lo(Hi(key)) \in Int
  BY <1>2, HalfBound DEF Halves
<1> QED
  BY <1>3 DEF Product, mult32to64

\* Two rounds of the scalar code are what SSE2 does to one register.
LEMMA TwoRounds ==
  ASSUME NEW sums \in [Lanes -> Words], NEW input \in [Lanes -> Words],
         NEW secret \in [Lanes -> Words], NEW e \in {0, 2, 4, 6}
  PROVE  LET two == scalarRound(scalarRound(sums, input, secret, e), input, secret, e + 1)
         IN  /\ two \in [Lanes -> Words]
             /\ \A l \in {e, e + 1} : two[l] = sse2Lane(sums, input, secret, l)
             /\ \A l \in Lanes \ {e, e + 1} : two[l] = sums[l]
<1> DEFINE f   == e + 1
           one == scalarRound(sums, input, secret, e)
           two == scalarRound(one, input, secret, f)
           pe  == Product(input, secret, e)
           pf  == Product(input, secret, f)
<1>1. e \in Lanes /\ f \in Lanes /\ e # f /\ Other(e) = f /\ Other(f) = e
  BY DEF Lanes, Other
<1>2. pe \in Int /\ pf \in Int
  BY <1>1, ProductIsInt
<1>3. one = [[sums EXCEPT ![f] = Wrap(@ + input[e])] EXCEPT ![e] = Wrap(pe + @)]
  BY <1>1, SMTT(30) DEF scalarRound, Product
<1>4. two = [[one EXCEPT ![e] = Wrap(@ + input[f])] EXCEPT ![f] = Wrap(pf + @)]
  BY <1>1, ZenonT(40) DEF scalarRound, Product
<1> HIDE DEF f, one, two, pe, pf
<1>5. \A x \in Int : Wrap(x) \in Words
  BY Represent DEF Words
<1>6. \A l \in Lanes : sums[l] \in Int /\ input[l] \in Int
  BY DEF Words
<1>7. /\ one[e] = Wrap(pe + sums[e]) /\ one[f] = Wrap(sums[f] + input[e])
      /\ \A l \in Lanes \ {e, f} : one[l] = sums[l]
      /\ one \in [Lanes -> Words]
  <2>1. pe + sums[e] \in Int /\ sums[f] + input[e] \in Int
    BY <1>1, <1>2, <1>6
  <2>2. Wrap(pe + sums[e]) \in Words /\ Wrap(sums[f] + input[e]) \in Words
    BY <1>5, <2>1
  <2> QED
    BY <1>1, <1>3, <2>2
<1>8. /\ two[e] = Wrap(Wrap(pe + sums[e]) + input[f])
      /\ two[f] = Wrap(pf + Wrap(sums[f] + input[e]))
      /\ \A l \in Lanes \ {e, f} : two[l] = sums[l]
      /\ two \in [Lanes -> Words]
  <2>1. one[e] \in Int /\ one[f] \in Int
    BY <1>1, <1>7 DEF Words
  <2>2. Wrap(one[e] + input[f]) \in Words /\ Wrap(pf + one[f]) \in Words
    BY <1>1, <1>2, <1>5, <1>6, <2>1
  <2> QED
    BY <1>1, <1>4, <1>7, <2>2
<1>9. Wrap(Wrap(pe + sums[e]) + input[f]) = Wrap(pe + Wrap(sums[e] + input[f]))
  <2>1. pe + sums[e] \in Int /\ sums[e] + input[f] \in Int /\ input[f] \in Int
    BY <1>1, <1>2, <1>6
  <2>2. /\ Wrap(Wrap(pe + sums[e]) + input[f]) = Wrap((pe + sums[e]) + input[f])
        /\ Wrap(pe + Wrap(sums[e] + input[f])) = Wrap((sums[e] + input[f]) + pe)
    BY <1>2, <2>1, WrapOnce
  <2>3. (pe + sums[e]) + input[f] = (sums[e] + input[f]) + pe
    BY <1>1, <1>2, <1>6
  <2> QED
    BY <2>2, <2>3
<1>10. /\ sse2Lane(sums, input, secret, e) = Wrap(pe + Wrap(sums[e] + input[f]))
       /\ sse2Lane(sums, input, secret, f) = Wrap(pf + Wrap(sums[f] + input[e]))
  BY <1>1 DEF sse2Lane, Product, pe, pf
<1> QED
  BY <1>1, <1>8, <1>9, <1>10 DEF f, one, two

\* The scalar code goes from lane to lane and adds to the neighbour of each,
\* SSE2 swaps the data and adds to two at once: the accumulators are the same.
THEOREM AccumulatesAgree ==
  ASSUME NEW sums \in [Lanes -> Words], NEW input \in [Lanes -> Words],
         NEW secret \in [Lanes -> Words]
  PROVE  accumulate_scalar(sums, input, secret) = accumulate_sse2(sums, input, secret)
<1> DEFINE Two(a, e) == scalarRound(scalarRound(a, input, secret, e), input, secret, e + 1)
           a2 == Two(sums, 0)
           a4 == Two(a2, 2)
           a6 == Two(a4, 4)
           a8 == Two(a6, 6)
           S(l) == sse2Lane(sums, input, secret, l)
<1>1. \A a \in [Lanes -> Words], e \in {0, 2, 4, 6} :
        /\ Two(a, e) \in [Lanes -> Words]
        /\ \A l \in {e, e + 1} : Two(a, e)[l] = sse2Lane(a, input, secret, l)
        /\ \A l \in Lanes \ {e, e + 1} : Two(a, e)[l] = a[l]
  BY TwoRounds
<1>2. \A a \in [Lanes -> Words], l \in Lanes :
        a[l] = sums[l] => sse2Lane(a, input, secret, l) = S(l)
  BY DEF sse2Lane
<1>3. accumulate_scalar(sums, input, secret) = a8
  BY DEF accumulate_scalar
<1> HIDE DEF Two, S
<1>4. a2 \in [Lanes -> Words] /\ a2[0] = S(0) /\ a2[1] = S(1)
      /\ \A l \in 2..7 : a2[l] = sums[l]
  BY <1>1, <1>2 DEF Lanes
<1> HIDE DEF a2
<1>5. a4 \in [Lanes -> Words] /\ (\A l \in 0..1 : a4[l] = a2[l]) /\ a4[2] = S(2) /\ a4[3] = S(3)
      /\ \A l \in 4..7 : a4[l] = sums[l]
  BY <1>1, <1>2, <1>4 DEF Lanes
<1> HIDE DEF a4
<1>6. a6 \in [Lanes -> Words] /\ (\A l \in 0..3 : a6[l] = a4[l]) /\ a6[4] = S(4) /\ a6[5] = S(5)
      /\ \A l \in 6..7 : a6[l] = sums[l]
  BY <1>1, <1>2, <1>5 DEF Lanes
<1> HIDE DEF a6
<1>7. a8 \in [Lanes -> Words] /\ (\A l \in 0..5 : a8[l] = a6[l]) /\ a8[6] = S(6) /\ a8[7] = S(7)
  BY <1>1, <1>2, <1>6 DEF Lanes
<1>8. \A l \in Lanes : a8[l] = S(l)
  BY <1>4, <1>5, <1>6, <1>7 DEF Lanes
<1> HIDE DEF a8
<1>9. accumulate_sse2(sums, input, secret) = [l \in Lanes |-> S(l)]
  BY DEF accumulate_sse2, S
<1> QED
  BY <1>3, <1>7, <1>8, <1>9

--------------------------------------------------------------------------------
(* XXH32 and XXH64.                                                         *)

(* Two runs of values, one after the other.                                 *)
LEMMA Joined ==
  ASSUME NEW S, NEW n \in Nat, NEW m \in Nat, NEW f \in [1..n -> S], NEW g \in [1..m -> S]
  PROVE  /\ f \in Seq(S) /\ g \in Seq(S) /\ Len(f) = n /\ Len(g) = m
         /\ f \o g \in [1..n + m -> S]
         /\ \A k \in 1..n + m : (f \o g)[k] = IF k <= n THEN f[k] ELSE g[k - n]
<1>1. f \in Seq(S) /\ g \in Seq(S) /\ Len(f) = n /\ Len(g) = m
  OBVIOUS
<1>2. f \o g \in Seq(S) /\ Len(f \o g) = n + m
  BY <1>1, ConcatProperties
<1>3. f \o g \in [1..n + m -> S]
  BY <1>2, LenProperties
<1>4. \A k \in 1..n + m : (f \o g)[k] = IF k <= n THEN f[k] ELSE g[k - n]
  BY <1>1, ConcatProperties
<1> QED
  BY <1>1, <1>3, <1>4

Reading == Nat \X Nat

(* What lane l has taken after n stripes.                                   *)
Taken(w, l, n) == [k \in 1..n |-> <<(k - 1) * (4 * w) + l * w, w>>]

(* What a lane has taken is a sequence of readings.                         *)
LEMMA TakenType ==
  ASSUME NEW w \in Nat, NEW l \in 0..3, NEW n \in Nat
  PROVE  Taken(w, l, n) \in [1..n -> Reading]
<1> SUFFICES ASSUME NEW k \in 1..n PROVE <<(k - 1) * (4 * w) + l * w, w>> \in Reading
  BY DEF Taken
<1>1. k - 1 \in Nat /\ 4 * w \in Nat /\ l \in Nat
  OBVIOUS
<1>2. (k - 1) * (4 * w) \in Nat /\ l * w \in Nat
  BY <1>1
<1> HIDE DEF Taken
<1> QED
  BY <1>2 DEF Reading

(* The rounds of the one-shot digest, from empty lanes, take the first n    *)
(* blocks of the input.                                                     *)
LEMMA RoundsFromStart ==
  ASSUME NEW w \in Nat, NEW n \in Nat
  PROVE  X!Rounds(X!EmptyLanes, w, 0, n) = [l \in 0..3 |-> Taken(w, l, n)]
<1> SUFFICES ASSUME NEW l \in 0..3
    PROVE  <<>> \o [k \in 1..n |-> X!WordsAt(w, 0 + (k - 1) * X!StripeOf(w))[l]] = Taken(w, l, n)
  BY DEF X!Rounds, X!EmptyLanes
<1>1. \A k \in 1..n : X!WordsAt(w, 0 + (k - 1) * X!StripeOf(w))[l]
                        = <<(k - 1) * (4 * w) + l * w, w>>
  <2> SUFFICES ASSUME NEW k \in 1..n
      PROVE  <<0 + (k - 1) * (4 * w) + l * w, w>> = <<(k - 1) * (4 * w) + l * w, w>>
    BY DEF X!WordsAt, X!StripeOf
  <2>1. (k - 1) * (4 * w) \in Int
    OBVIOUS
  <2> QED
    BY <2>1
<1>2. [k \in 1..n |-> X!WordsAt(w, 0 + (k - 1) * X!StripeOf(w))[l]] = Taken(w, l, n)
  BY <1>1 DEF Taken
<1>3. Taken(w, l, n) \in [1..n -> Reading]
  BY TakenType
<1>4. <<>> \o Taken(w, l, n) = Taken(w, l, n)
  BY <1>3, ConcatEmptySeq
<1> QED
  BY <1>2, <1>4

(* Stripes from position m stripes on continue the first m.                 *)
LEMMA RoundsContinue ==
  ASSUME NEW w \in Nat, NEW m \in Nat, NEW n \in Nat
  PROVE  X!Rounds([l \in 0..3 |-> Taken(w, l, m)], w, m * (4 * w), n)
           = [l \in 0..3 |-> Taken(w, l, m + n)]
<1> SUFFICES ASSUME NEW l \in 0..3
    PROVE  Taken(w, l, m)
             \o [k \in 1..n |-> X!WordsAt(w, m * (4 * w) + (k - 1) * X!StripeOf(w))[l]]
             = Taken(w, l, m + n)
  BY DEF X!Rounds
<1> DEFINE g == [k \in 1..n |-> <<(m + k - 1) * (4 * w) + l * w, w>>]
<1>1. [k \in 1..n |-> X!WordsAt(w, m * (4 * w) + (k - 1) * X!StripeOf(w))[l]] = g
  <2> SUFFICES ASSUME NEW k \in 1..n
      PROVE  <<m * (4 * w) + (k - 1) * (4 * w) + l * w, w>>
               = <<(m + k - 1) * (4 * w) + l * w, w>>
    BY DEF X!WordsAt, X!StripeOf
  <2>1. 4 * w \in Int /\ k - 1 \in Int /\ m + (k - 1) = m + k - 1
    OBVIOUS
  <2>2. (m + (k - 1)) * (4 * w) = m * (4 * w) + (k - 1) * (4 * w)
    BY <2>1, Distribute
  <2> QED
    BY <2>1, <2>2
<1>2. g \in [1..n -> Reading]
  <2> SUFFICES ASSUME NEW k \in 1..n PROVE <<(m + k - 1) * (4 * w) + l * w, w>> \in Reading
    OBVIOUS
  <2>1. m + k - 1 \in Nat /\ 4 * w \in Nat /\ l \in Nat
    OBVIOUS
  <2>2. (m + k - 1) * (4 * w) \in Nat /\ l * w \in Nat
    BY <2>1
  <2> QED
    BY <2>2 DEF Reading
<1>3. Taken(w, l, m) \in [1..m -> Reading]
  BY TakenType
<1> HIDE DEF g
<1>4. Taken(w, l, m) \o g \in [1..m + n -> Reading]
  BY <1>2, <1>3, Joined
<1>5. \A k \in 1..m + n : (Taken(w, l, m) \o g)[k] = IF k <= m THEN Taken(w, l, m)[k] ELSE g[k - m]
  BY <1>2, <1>3, Joined
<1>6. \A k \in 1..m + n : (IF k <= m THEN Taken(w, l, m)[k] ELSE g[k - m])
                            = Taken(w, l, m + n)[k]
  <2> SUFFICES ASSUME NEW k \in 1..m + n
      PROVE  (IF k <= m THEN Taken(w, l, m)[k] ELSE g[k - m]) = <<(k - 1) * (4 * w) + l * w, w>>
    BY DEF Taken
  <2>1. CASE k <= m
    BY <2>1 DEF Taken
  <2>2. CASE ~(k <= m)
    <3>1. k - m \in 1..n /\ m + (k - m) - 1 = k - 1
      BY <2>2
    <3> QED
      BY <2>2, <3>1 DEF g
  <2> QED
    BY <2>1, <2>2
<1>7. Taken(w, l, m + n) \in [1..m + n -> Reading]
  <2>1. m + n \in Nat
    OBVIOUS
  <2> QED
    BY <2>1, TakenType
<1>8. Taken(w, l, m) \o g = Taken(w, l, m + n)
  <2> DEFINE h == Taken(w, l, m) \o g
  <2> HIDE DEF g, h
  <2>1. h \in [1..m + n -> Reading] /\ \A k \in 1..m + n : h[k] = Taken(w, l, m + n)[k]
    BY <1>4, <1>5, <1>6 DEF h
  <2>2. h = Taken(w, l, m + n)
    BY <1>7, <2>1
  <2> QED
    BY <2>2 DEF h
<1> QED
  BY <1>1, <1>8

(* One round with the stripe at position n stripes.                         *)
LEMMA RoundContinues ==
  ASSUME NEW w \in Nat, NEW n \in Nat
  PROVE  X!Round([l \in 0..3 |-> Taken(w, l, n)], [l \in 0..3 |-> <<n * (4 * w) + l * w, w>>])
           = [l \in 0..3 |-> Taken(w, l, n + 1)]
<1> SUFFICES ASSUME NEW l \in 0..3
    PROVE  Append(Taken(w, l, n), <<n * (4 * w) + l * w, w>>) = Taken(w, l, n + 1)
  BY DEF X!Round
<1> DEFINE last == <<n * (4 * w) + l * w, w>>
<1>1. Taken(w, l, n) \in [1..n -> Reading] /\ Taken(w, l, n + 1) \in [1..n + 1 -> Reading]
  <2>1. n + 1 \in Nat
    OBVIOUS
  <2> QED
    BY <2>1, TakenType
<1>2. Taken(w, l, n) \in Seq(Reading) /\ Len(Taken(w, l, n)) = n
      /\ Taken(w, l, n + 1) \in Seq(Reading) /\ Len(Taken(w, l, n + 1)) = n + 1
  BY <1>1
<1>3. last = Taken(w, l, n + 1)[n + 1]
  <2>1. n + 1 \in 1..n + 1 /\ n + 1 - 1 = n
    OBVIOUS
  <2> QED
    BY <2>1 DEF Taken
<1>4. last \in Reading
  BY <1>1, <1>3
<1>5. \A k \in 1..n : Taken(w, l, n)[k] = Taken(w, l, n + 1)[k]
  BY DEF Taken
<1> HIDE DEF last
<1>6. Append(Taken(w, l, n), last) = Taken(w, l, n + 1)
  <2> DEFINE s == Append(Taken(w, l, n), last)
  <2>1. s \in Seq(Reading) /\ Len(s) = n + 1
    BY <1>2, <1>4
  <2>2. \A k \in 1..n + 1 : s[k] = Taken(w, l, n + 1)[k]
    BY <1>2, <1>3, <1>4, <1>5
  <2> HIDE DEF s
  <2>3. s = Taken(w, l, n + 1)
    BY <1>2, <2>1, <2>2
  <2> QED
    BY <2>3 DEF s
<1> QED
  BY <1>6 DEF last

(* Pieces of an input of len bytes.                                         *)
Pieces(len) == {c \in Nat \X (Nat \ {0}) : c[1] + c[2] <= len}

(* What a piece is, from its place and its size.                            *)
LEMMA PieceIs ==
  ASSUME NEW len \in Nat, NEW o \in Nat, NEW n \in Nat \ {0}, o + n <= len
  PROVE  <<o, n>> \in Pieces(len)
BY DEF Pieces

(* The place and the size of a piece.                                       *)
LEMMA PieceFields ==
  ASSUME NEW len \in Nat, NEW c \in Pieces(len)
  PROVE  c[1] \in Nat /\ c[2] \in Nat /\ c[2] > 0 /\ c[1] + c[2] <= len /\ c = <<c[1], c[2]>>
BY DEF Pieces

(* The end of an input is cut into pieces of it.                            *)
LEMMA CutsAreInside ==
  ASSUME NEW n \in 0..31
  PROVE  X!Finalize32(n) \in Seq(Pieces(n)) /\ X!Finalize64(n) \in Seq(Pieces(n))
<1>1. n \in Nat /\ n \div 4 \in Nat /\ n \div 8 \in Nat /\ n % 4 \in Nat
      /\ (n % 8) \div 4 \in Nat
  OBVIOUS
<1>2. X!Run(0, 4, n \div 4) \in Seq(Pieces(n))
  <2>1. \A k \in 1..n \div 4 : <<0 + (k - 1) * 4, 4>> \in Pieces(n)
    <3> SUFFICES ASSUME NEW k \in 1..n \div 4 PROVE <<0 + (k - 1) * 4, 4>> \in Pieces(n)
      OBVIOUS
    <3>1. 0 + (k - 1) * 4 \in Nat /\ 0 + (k - 1) * 4 + 4 <= n
      OBVIOUS
    <3> QED
      BY <1>1, <3>1, PieceIs
  <2> QED
    BY <1>1, <2>1 DEF X!Run
<1>3. X!Run(0, 8, n \div 8) \in Seq(Pieces(n))
  <2>1. \A k \in 1..n \div 8 : <<0 + (k - 1) * 8, 8>> \in Pieces(n)
    <3> SUFFICES ASSUME NEW k \in 1..n \div 8 PROVE <<0 + (k - 1) * 8, 8>> \in Pieces(n)
      OBVIOUS
    <3>1. 0 + (k - 1) * 8 \in Nat /\ 0 + (k - 1) * 8 + 8 <= n
      OBVIOUS
    <3> QED
      BY <1>1, <3>1, PieceIs
  <2> QED
    BY <1>1, <2>1 DEF X!Run
<1>4. X!Run(n - (n % 4), 1, n % 4) \in Seq(Pieces(n))
  <2>1. \A k \in 1..n % 4 : <<n - (n % 4) + (k - 1) * 1, 1>> \in Pieces(n)
    <3> SUFFICES ASSUME NEW k \in 1..n % 4
                 PROVE  <<n - (n % 4) + (k - 1) * 1, 1>> \in Pieces(n)
      OBVIOUS
    <3>1. n - (n % 4) + (k - 1) * 1 \in Nat /\ n - (n % 4) + (k - 1) * 1 + 1 <= n
      OBVIOUS
    <3> QED
      BY <1>1, <3>1, PieceIs
  <2> DEFINE count == n % 4
             from  == n - (n % 4)
  <2>2. X!Run(from, 1, count) = [k \in 1..count |-> <<from + (k - 1) * 1, 1>>]
    BY DEF X!Run
  <2> HIDE DEF count, from
  <2>3. count \in Nat /\ \A k \in 1..count : <<from + (k - 1) * 1, 1>> \in Pieces(n)
    BY <1>1, <2>1 DEF count, from
  <2>4. X!Run(from, 1, count) \in Seq(Pieces(n))
    BY <2>2, <2>3
  <2> QED
    BY <2>4 DEF count, from
<1>5. X!Run(n - (n % 8), 4, (n % 8) \div 4) \in Seq(Pieces(n))
  <2>1. \A k \in 1..(n % 8) \div 4 : <<n - (n % 8) + (k - 1) * 4, 4>> \in Pieces(n)
    <3> SUFFICES ASSUME NEW k \in 1..(n % 8) \div 4
                 PROVE  <<n - (n % 8) + (k - 1) * 4, 4>> \in Pieces(n)
      OBVIOUS
    <3>1. n - (n % 8) + (k - 1) * 4 \in Nat /\ n - (n % 8) + (k - 1) * 4 + 4 <= n
      OBVIOUS
    <3> QED
      BY <1>1, <3>1, PieceIs
  <2>2. (n % 8) \div 4 \in Nat
    BY <1>1
  <2> DEFINE count == (n % 8) \div 4
             from  == n - (n % 8)
  <2>3. X!Run(from, 4, count) = [k \in 1..count |-> <<from + (k - 1) * 4, 4>>]
    BY DEF X!Run
  <2> HIDE DEF count, from
  <2>4. count \in Nat /\ \A k \in 1..count : <<from + (k - 1) * 4, 4>> \in Pieces(n)
    BY <2>1, <2>2 DEF count, from
  <2>5. X!Run(from, 4, count) \in Seq(Pieces(n))
    BY <2>3, <2>4
  <2> QED
    BY <2>5 DEF count, from
<1>6. X!Finalize32(n) \in Seq(Pieces(n))
  BY <1>2, <1>4, ConcatProperties DEF X!Finalize32
<1>7. X!Run(0, 8, n \div 8) \o X!Run(n - (n % 8), 4, (n % 8) \div 4) \in Seq(Pieces(n))
  BY <1>3, <1>5, ConcatProperties
<1>8. X!Finalize64(n) \in Seq(Pieces(n))
  BY <1>4, <1>7, ConcatProperties DEF X!Finalize64
<1> QED
  BY <1>6, <1>8

(* Bytes of the buffer that are in order are read as a window of the input. *)
LEMMA ReadInOrder ==
  ASSUME NEW m, NEW start \in Nat, NEW len \in Nat, \A i \in 0..len - 1 : m[i] = start + i,
         NEW c \in Pieces(len)
  PROVE  X!Read(m, c[1], c[2]) = <<start + c[1], c[2]>>
<1>1. c[1] \in Nat /\ c[2] \in Nat /\ c[2] > 0 /\ c[1] + c[2] <= len
  BY PieceFields
<1>2. \A k \in 0..c[2] - 1 : m[c[1] + k] = start + c[1] + k
  <2> SUFFICES ASSUME NEW k \in 0..c[2] - 1 PROVE m[c[1] + k] = start + c[1] + k
    OBVIOUS
  <2>1. c[1] + k \in 0..len - 1
    BY <1>1
  <2> QED
    BY <1>1, <2>1
<1>3. m[c[1]] = start + c[1] /\ m[c[1]] # -1
  <2>1. 0 \in 0..c[2] - 1 /\ c[1] + 0 = c[1]
    BY <1>1
  <2> QED
    BY <1>1, <1>2, <2>1
<1>4. \A k \in 1..c[2] - 1 : m[c[1] + k] = m[c[1]] + k
  BY <1>1, <1>2, <1>3
<1> QED
  BY <1>3, <1>4 DEF X!Read, X!NoByte

(* What the streaming state of XXH32 or XXH64 holds: every whole stripe is  *)
(* in the lanes and the rest of the input in the buffer.  XXH32 counts the  *)
(* length modulo 2^32, and remembers whether it was ever long.              *)
XxhInv ==
  /\ word \in {4, 8}
  /\ given \in 0..MaxTotal
  /\ memsize \in 0..4 * word - 1
  /\ \E n \in Nat : given = n * (4 * word) + memsize /\ lanes = [l \in 0..3 |-> Taken(word, l, n)]
  /\ mem \in [0..4 * word - 1 -> Int]
  /\ \A i \in 0..memsize - 1 : mem[i] = given - memsize + i
  /\ total = given % TotalModulo[word]
  /\ word = 4 => large \in BOOLEAN /\ (large <=> given >= 16)

(* The modulus of the length.                                               *)
LEMMA ModuloIs ==
  ASSUME word \in {4, 8}
  PROVE  /\ TotalModulo[word] \in Nat /\ TotalModulo[word] > 0
         /\ word = 4 => TotalModulo[word] >= 31
         /\ word = 8 => TotalModulo[word] > MaxTotal
         /\ MaxTotal \in Nat
<1>1. TotalModulo[4] \in Nat /\ TotalModulo[8] \in Nat /\ TotalModulo[4] >= 31
      /\ TotalModulo[8] > MaxTotal /\ MaxTotal \in Nat
  BY XxhAssumption
<1> QED
  BY <1>1

(* A remainder is its own.                                                  *)
LEMMA Remainders ==
  ASSUME NEW m \in Nat, m > 0, NEW x \in Nat, NEW y \in Nat
  PROVE  /\ (x % m) % m = x % m
         /\ ((x % m) + y) % m = (x + y) % m
         /\ x < m => x % m = x
<1>1. x \div m \in Int /\ x % m \in 0..m - 1 /\ x = (x \div m) * m + (x % m)
  BY DivMod
<1>2. (x % m) % m = x % m
  <2>1. 0 * m + (x % m) = x % m
    BY <1>1
  <2> QED
    BY <1>1, <2>1, QuotientRest
<1>3. ((x % m) + y) % m = (x + y) % m
  <2> DEFINE z == (x % m) + y
  <2>1. z \in Int
    BY <1>1
  <2>2. z \div m \in Int /\ z % m \in 0..m - 1 /\ z = (z \div m) * m + (z % m)
    BY <2>1, DivMod
  <2> HIDE DEF z
  <2>3. ((x \div m) + (z \div m)) * m = (x \div m) * m + (z \div m) * m
    <3>1. \A a, b \in Int : (a + b) * m = a * m + b * m
      BY Distribute
    <3> QED
      BY <1>1, <2>2, <3>1
  <2>4. x + y = ((x \div m) + (z \div m)) * m + (z % m)
    <3>1. x + y = (x \div m) * m + z
      BY <1>1 DEF z
    <3>2. (x \div m) * m \in Int /\ (z \div m) * m \in Int
      BY <1>1, <2>2
    <3> QED
      BY <2>1, <2>2, <2>3, <3>1, <3>2
  <2>5. (x \div m) + (z \div m) \in Int
    BY <1>1, <2>2
  <2>6. (x + y) % m = z % m
    BY <2>2, <2>4, <2>5, QuotientRest
  <2> QED
    BY <2>6 DEF z
<1>4. ASSUME x < m PROVE x % m = x
  <2>1. 0 * m + x = x /\ x \in 0..m - 1
    BY <1>4
  <2> QED
    BY <2>1, QuotientRest
<1> QED
  BY <1>2, <1>3, <1>4

(* The quotient of a natural number is one.                                 *)
LEMMA QuotientIsNat ==
  ASSUME NEW m \in Nat, m > 0, NEW x \in Nat
  PROVE  x \div m \in Nat /\ x % m \in 0..m - 1 /\ x = (x \div m) * m + (x % m)
<1>1. x \div m \in Int /\ x % m \in 0..m - 1 /\ x = (x \div m) * m + (x % m)
  BY DivMod
<1> DEFINE z == x \div m
<1> HIDE DEF z
<1>2. z \in Int /\ x = z * m + (x % m) /\ z * m \in Int
  BY <1>1 DEF z
<1>3. ASSUME z <= -1 PROVE FALSE
  <2> DEFINE y == z * m
  <2>1. y <= (-1) * m
    BY <1>2, <1>3, Monotone
  <2> HIDE DEF y
  <2>2. y \in Int /\ y <= -m /\ x = y + (x % m)
    BY <1>2, <2>1 DEF y
  <2> QED
    BY <1>1, <2>2
<1>4. z \in Nat
  BY <1>2, <1>3
<1> QED
  BY <1>1, <1>4 DEF z

(* The state after a reset, and the first one.                              *)
Fresh ==
  /\ word \in {4, 8} /\ lanes = X!EmptyLanes /\ memsize = 0 /\ total = 0 /\ large = FALSE
  /\ given = 0 /\ mem = [o \in 0..4 * word - 1 |-> -1]

(* A fresh state has taken nothing and holds nothing.                       *)
LEMMA XxhFresh == Fresh => XxhInv
<1> SUFFICES ASSUME word \in {4, 8}, lanes = X!EmptyLanes, memsize = 0, total = 0, large = FALSE,
                    given = 0, mem = [o \in 0..4 * word - 1 |-> -1]
             PROVE  XxhInv
  BY DEF Fresh
<1>1. given \in 0..MaxTotal /\ total = given % TotalModulo[word]
  <2>1. 0 % TotalModulo[word] = 0
    BY ModuloIs, Remainders
  <2> QED
    BY <2>1, ModuloIs
<1>2. lanes = [l \in 0..3 |-> Taken(word, l, 0)]
  <2>1. \A l \in 0..3 : Taken(word, l, 0) = <<>>
    BY DEF Taken
  <2> QED
    BY <2>1 DEF X!EmptyLanes
<1>3. given = 0 * (4 * word) + memsize /\ memsize \in 0..4 * word - 1
  OBVIOUS
<1>4. mem \in [0..4 * word - 1 -> Int] /\ \A i \in 0..memsize - 1 : mem[i] = given - memsize + i
  <2>1. mem \in [0..4 * word - 1 -> Int]
    OBVIOUS
  <2>2. 0..memsize - 1 = {}
    OBVIOUS
  <2> QED
    BY <2>1, <2>2
<1>5. \E n \in Nat : given = n * (4 * word) + memsize /\ lanes = [l \in 0..3 |-> Taken(word, l, n)]
  BY <1>2, <1>3
<1>6. word = 4 => large \in BOOLEAN /\ (large <=> given >= 16)
  <2>1. ~(given >= 16)
    OBVIOUS
  <2>2. large \in BOOLEAN /\ ~large
    OBVIOUS
  <2> QED
    BY <2>1, <2>2
<1> QED
  BY <1>1, <1>3, <1>4, <1>5, <1>6 DEF XxhInv

(* What an update counts.                                                   *)
LEMMA XxhCountInv ==
  ASSUME XxhInv, NEW len \in Chunks, X!Count(len), word = 4 => large' = X!LargeLen(len)
  PROVE  /\ word' = word /\ given' = given + len /\ given' \in 0..MaxTotal
         /\ total' = given' % TotalModulo[word']
         /\ word' = 4 => large' \in BOOLEAN /\ (large' <=> given' >= 16)
<1>1. word' = word /\ given' = given + len /\ given + len <= MaxTotal
      /\ total' = (total + len) % TotalModulo[word]
  BY DEF X!Count
<1>2. len \in Nat /\ given \in Nat /\ word \in {4, 8}
  BY XxhAssumption DEF XxhInv
<1>3. TotalModulo[word] \in Nat /\ TotalModulo[word] > 0 /\ MaxTotal \in Nat
  BY <1>2, ModuloIs
<1>4. total' = given' % TotalModulo[word']
  <2>1. ((given % TotalModulo[word]) + len) % TotalModulo[word] = (given + len) % TotalModulo[word]
    BY <1>2, <1>3, Remainders
  <2> QED
    BY <1>1, <2>1 DEF XxhInv
<1>5. ASSUME word = 4 PROVE large' \in BOOLEAN /\ (large' <=> given' >= 16)
  <2>1. large' = (large \/ len >= 16 \/ total' >= 16)
    BY <1>5 DEF X!LargeLen
  <2>2. large <=> given >= 16
    BY <1>5 DEF XxhInv
  <2>3. (large \/ len >= 16 \/ total' >= 16) <=> given' >= 16
    <3>1. CASE given >= 16 \/ len >= 16
      BY <1>1, <1>2, <2>2, <3>1
    <3>2. CASE given < 16 /\ len < 16
      <4>1. given' < TotalModulo[word] /\ given' \in Nat
        BY <1>1, <1>2, <1>5, <3>2, ModuloIs
      <4>2. total' = given'
        BY <1>1, <1>3, <1>4, <4>1, Remainders
      <4> QED
        BY <1>2, <2>2, <3>2, <4>2
    <3> QED
      BY <1>2, <3>1, <3>2
  <2> QED
    BY <2>1, <2>3
<1> QED
  BY <1>1, <1>2, <1>3, <1>4, <1>5

(* New bytes are in their place and the others stay.                        *)
LEMMA StoredIs ==
  ASSUME NEW Cells \in SUBSET Int, NEW m \in [Cells -> Int], NEW o \in Int, NEW n \in Int, NEW p \in Int
  PROVE  /\ X!Store(m, o, p, n) \in [Cells -> Int]
         /\ \A i \in Cells : X!Store(m, o, p, n)[i] = IF o <= i /\ i < o + n THEN p + i - o ELSE m[i]
<1> DEFINE s == X!Store(m, o, p, n)
<1>1. s = [i \in Cells |-> IF i \in o..o + n - 1 THEN p + i - o ELSE m[i]]
  BY DEF X!Store
<1> HIDE DEF s
<1>2. s \in [Cells -> Int]
  BY <1>1
<1>3. \A i \in Cells : s[i] = IF o <= i /\ i < o + n THEN p + i - o ELSE m[i]
  BY <1>1
<1> QED
  BY <1>2, <1>3 DEF s

(* The streams start with a fresh state of XXH32 or XXH64, or with none.    *)
LEMMA XxhInitInv == StreamInit => XxhInv
<1> SUFFICES ASSUME StreamInit PROVE XxhInv
  OBVIOUS
<1>1. Fresh
  BY DEF Fresh, StreamInit, X!Init, X!StripeOf, X!NoByte
<1> QED
  BY <1>1, XxhFresh

(* An update too short for a block only copies its bytes behind those held. *)
LEMMA XxhFillInv ==
  ASSUME XxhInv, NEW len \in Chunks, X!Count(len), X!Fill(len),
         word = 4 => large' = X!LargeLen(len)
  PROVE  XxhInv'
<1>1. PICK n \in Nat : given = n * (4 * word) + memsize /\ lanes = [l \in 0..3 |-> Taken(word, l, n)]
  BY DEF XxhInv
<1>2. /\ word' = word /\ lanes' = lanes /\ given' = given + len /\ memsize' = memsize + len
      /\ memsize + len < 4 * word
      /\ mem' = X!Store(mem, memsize, given, len)
  BY DEF X!Count, X!Fill, X!StripeOf
<1>3. len \in Nat /\ len > 0
  BY XxhAssumption
<1>4. memsize \in Nat /\ given \in Nat
  BY DEF XxhInv
<1>5. given' = n * (4 * word) + memsize'
  <2>1. n * (4 * word) \in Int
    BY DEF XxhInv
  <2> QED
    BY <1>1, <1>2, <1>3, <1>4, <2>1
<1>6. memsize' \in 0..4 * word - 1
  BY <1>2, <1>3, <1>4 DEF XxhInv
<1>7. mem' \in [0..4 * word - 1 -> Int] /\ \A i \in 0..memsize' - 1 : mem'[i] = given' - memsize' + i
  <2> DEFINE size == 4 * word
             s == X!Store(mem, memsize, given, len)
  <2>1. /\ size \in Nat /\ memsize + len < size
        /\ mem \in [0..size - 1 -> Int] /\ \A i \in 0..memsize - 1 : mem[i] = given - memsize + i
    BY <1>2, <1>3, <1>4 DEF XxhInv
  <2> HIDE DEF s, size
  <2>2. s \in [0..size - 1 -> Int]
    BY <1>3, <1>4, <2>1, StoredIs DEF s
  <2>3. \A i \in 0..size - 1 : s[i] = IF memsize <= i /\ i < memsize + len
                                    THEN given + i - memsize ELSE mem[i]
    BY <1>3, <1>4, <2>1 DEF s, X!Store
  <2>4. given' - memsize' = given - memsize /\ memsize' = memsize + len /\ mem' = s
    BY <1>2, <1>3, <1>4 DEF s
  <2>5. mem' \in [0..size - 1 -> Int]
    BY <2>2, <2>4
  <2>6. ASSUME NEW i \in 0..memsize' - 1 PROVE mem'[i] = given' - memsize' + i
    <3>1. i \in 0..size - 1 /\ i < memsize + len
      BY <1>3, <1>4, <2>1, <2>4
    <3>2. s[i] = given - memsize + i
      BY <1>3, <1>4, <2>1, <2>3, <3>1
    <3> QED
      BY <2>4, <3>2
  <2> QED
    BY <2>5, <2>6 DEF size
<1> QED
  BY <1>1, <1>2, <1>5, <1>6, <1>7, XxhCountInv DEF XxhInv

(* The stripe that completes the buffered bytes goes to the lanes.          *)
LEMMA FirstStripe ==
  ASSUME XxhInv, NEW k \in Nat, memsize > 0,
         given = k * (4 * word) + memsize, lanes = [l \in 0..3 |-> Taken(word, l, k)],
         NEW full, full = X!Store(mem, memsize, given, 4 * word - memsize)
  PROVE  /\ full \in [0..4 * word - 1 -> Int]
         /\ X!Round(lanes, [l \in 0..3 |-> X!Read(full, l * word, word)])
              = [l \in 0..3 |-> Taken(word, l, k + 1)]
<1> DEFINE size  == 4 * word
           start == k * (4 * word)
<1>1. size \in Nat /\ start \in Nat /\ given = start + memsize /\ memsize \in 0..size - 1
      /\ word \in {4, 8} /\ mem \in [0..size - 1 -> Int] /\ \A i \in 0..memsize - 1 : mem[i] = start + i
  <2>1. /\ word \in {4, 8} /\ memsize \in 0..size - 1 /\ mem \in [0..size - 1 -> Int]
        /\ \A i \in 0..memsize - 1 : mem[i] = given - memsize + i
    BY DEF XxhInv
  <2>2. size \in Nat
    BY <2>1
  <2>3. start \in Nat
    BY <2>2
  <2> HIDE DEF start, size
  <2>4. given = start + memsize
    BY DEF start
  <2>5. memsize \in Int /\ given - memsize = start
    BY <2>1, <2>2, <2>3, <2>4
  <2>6. \A i \in 0..memsize - 1 : mem[i] = start + i
    BY <2>1, <2>5
  <2> QED
    BY <2>1, <2>2, <2>3, <2>4, <2>6
<1>2. full = [i \in 0..size - 1 |-> IF i \in memsize..memsize + (size - memsize) - 1
                                    THEN given + i - memsize ELSE mem[i]]
  BY <1>1 DEF X!Store
<1> HIDE DEF size, start
<1>3. full \in [0..size - 1 -> Int]
  BY <1>1, <1>2
<1>4. \A i \in 0..size - 1 : full[i] = start + i
  <2> SUFFICES ASSUME NEW i \in 0..size - 1 PROVE full[i] = start + i
    OBVIOUS
  <2>1. CASE i < memsize
    BY <1>1, <1>2, <2>1
  <2>2. CASE i >= memsize
    <3>1. i \in memsize..memsize + (size - memsize) - 1 /\ given + i - memsize = start + i
      BY <1>1, <2>2
    <3> QED
      BY <1>2, <3>1
  <2> QED
    BY <1>1, <2>1, <2>2
<1>5. ASSUME NEW l \in 0..3 PROVE X!Read(full, l * word, word) = <<start + l * word, word>>
  <2>1. l * word \in Nat /\ l * word + word <= size /\ word \in Nat \ {0}
    BY <1>1 DEF size
  <2>2. <<l * word, word>> \in Pieces(size)
    BY <1>1, <2>1, PieceIs
  <2> DEFINE c == <<l * word, word>>
  <2>3. c[1] = l * word /\ c[2] = word
    OBVIOUS
  <2> HIDE DEF c
  <2>4. X!Read(full, c[1], c[2]) = <<start + c[1], c[2]>>
    BY <1>1, <1>4, <2>2, ReadInOrder DEF c
  <2> QED
    BY <2>3, <2>4
<1>6. [l \in 0..3 |-> X!Read(full, l * word, word)] = [l \in 0..3 |-> <<k * (4 * word) + l * word, word>>]
  BY <1>5 DEF start
<1>7. word \in Nat
  BY <1>1
<1> QED
  BY <1>3, <1>6, <1>7, RoundContinues DEF size

(* An update that completes a block takes the bytes held with its own first *)
(* ones, then its own whole blocks, and holds what is left.                 *)
LEMMA XxhConsumeInv ==
  ASSUME XxhInv, NEW len \in Chunks, X!Count(len), X!Consume(len),
         word = 4 => large' = X!LargeLen(len)
  PROVE  XxhInv'
<1> DEFINE size == 4 * word
           load == IF memsize > 0 THEN size - memsize ELSE 0
           full == X!Store(mem, memsize, given, load)
           one  == IF memsize > 0
                   THEN X!Round(lanes, [l \in 0..3 |-> X!Read(full, l * word, word)]) ELSE lanes
           p    == given + load
           n    == (given + len - p) \div size
           over == given + len - p - n * size
<1>1. PICK k \in Nat : given = k * size + memsize /\ lanes = [l \in 0..3 |-> Taken(word, l, k)]
  BY DEF XxhInv
<1>2. /\ memsize + len >= size
      /\ lanes' = X!Rounds(one, word, p, n)
      /\ mem' = X!Store(full, 0, p + n * size, over)
      /\ memsize' = over
  BY DEF X!Consume, X!StripeOf
<1>3. /\ len \in Nat /\ len > 0 /\ word \in {4, 8} /\ size \in Nat /\ size > 0 /\ given \in Nat
      /\ memsize \in 0..size - 1 /\ word' = word /\ given' = given + len
      /\ mem \in [0..size - 1 -> Int]
  <2>1. len \in Nat /\ len > 0
    BY XxhAssumption
  <2>2. word' = word /\ given' = given + len
    BY DEF X!Count
  <2>3. word \in {4, 8} /\ given \in Nat /\ memsize \in 0..size - 1 /\ mem \in [0..size - 1 -> Int]
    BY XxhAssumption DEF XxhInv
  <2>4. size \in Nat /\ size > 0
    BY <2>3
  <2> QED
    BY <2>1, <2>2, <2>3, <2>4
<1> DEFINE stripes == IF memsize > 0 THEN k + 1 ELSE k
<1>4. stripes \in Nat /\ p = stripes * size /\ given + len - p \in Nat
  <2>1. k * size \in Nat /\ (k + 1) * size = k * size + size
    BY <1>3
  <2> DEFINE a == k * size
             b == (k + 1) * size
  <2> HIDE DEF a, b, size, over, n
  <2>2. a \in Nat /\ b = a + size /\ given = a + memsize
    BY <1>1, <2>1 DEF a, b
  <2>3. stripes \in Nat
    OBVIOUS
  <2>4. p = IF memsize > 0 THEN b ELSE a
    BY <1>3, <2>2
  <2>5. given + len - p \in Nat
    BY <1>2, <1>3, <2>2
  <2> QED
    BY <2>3, <2>4, <2>5 DEF a, b
<1>5. /\ full \in [0..size - 1 -> Int]
      /\ one = [l \in 0..3 |-> Taken(word, l, stripes)]
  <2>1. CASE memsize > 0
    <3>1. full = X!Store(mem, memsize, given, 4 * word - memsize)
      BY <2>1
    <3> HIDE DEF full
    <3>2. full \in [0..4 * word - 1 -> Int]
      BY <1>1, <2>1, <3>1, FirstStripe
    <3>3. X!Round(lanes, [l \in 0..3 |-> X!Read(full, l * word, word)])
            = [l \in 0..3 |-> Taken(word, l, k + 1)]
      BY <1>1, <2>1, <3>1, FirstStripe
    <3> QED
      BY <2>1, <3>2, <3>3
  <2>2. CASE ~(memsize > 0)
    <3>1. load = 0 /\ memsize = 0
      BY <1>3, <2>2
    <3>2. X!Store(mem, 0, given, 0) \in [0..size - 1 -> Int]
      BY <1>3 DEF X!Store
    <3>3. full = X!Store(mem, 0, given, 0)
      BY <3>1
    <3> HIDE DEF full
    <3> QED
      BY <1>1, <2>2, <3>2, <3>3
  <2> QED
    BY <2>1, <2>2
<1> HIDE DEF full, one, stripes, p, size
<1>6. n \in Nat /\ over \in 0..size - 1 /\ given + len - p = n * size + over
  <2> DEFINE x == given + len - p
  <2>1. x \in Nat
    BY <1>4
  <2>2. n = x \div size
    OBVIOUS
  <2>3. p \in Int /\ n \in Int /\ n * size \in Int
    <3>1. stripes * size \in Int
      BY <1>3, <1>4
    <3>2. n \in Int
      BY <1>3, <2>1, DivMod
    <3> HIDE DEF n
    <3> QED
      BY <1>3, <1>4, <3>1, <3>2
  <2> HIDE DEF n
  <2>4. over = x - n * size
    <3> DEFINE y == n * size
    <3>1. y \in Int
      BY <2>3
    <3>2. over = given + len - p - y
      OBVIOUS
    <3> HIDE DEF over, y
    <3>3. over = x - y
      BY <1>3, <2>3, <3>1, <3>2
    <3> QED
      BY <3>3 DEF y
  <2> HIDE DEF x
  <2>5. x \div size \in Int /\ x % size \in 0..size - 1 /\ x = (x \div size) * size + (x % size)
    BY <1>3, <2>1, DivMod
  <2> HIDE DEF over
  <2>6. over = x % size
    <3> DEFINE y == (x \div size) * size
    <3>1. x = y + (x % size) /\ over = x - y /\ y \in Int
      BY <1>3, <2>5, <2>2, <2>4
    <3> HIDE DEF y
    <3>2. x % size \in Int
      BY <1>3, <2>5
    <3> QED
      BY <2>1, <3>1, <3>2
  <2>7. x \div size \in Nat
    <3> SUFFICES ASSUME x \div size <= -1 PROVE FALSE
      BY <2>5
    <3> DEFINE z == x \div size
    <3> HIDE DEF z
    <3>1. z \in Int /\ z <= -1 /\ x = z * size + (x % size) /\ x % size \in 0..size - 1
      BY <2>5 DEF z
    <3>2. z * size <= (-1) * size
      BY <1>3, <3>1, Monotone
    <3>3. z * size \in Int
      BY <1>3, <3>1
    <3> DEFINE y == z * size
    <3> HIDE DEF y
    <3>4. y \in Int /\ y <= -size /\ x = y + (x % size)
      BY <1>3, <3>1, <3>2, <3>3 DEF y
    <3> QED
      BY <1>3, <2>1, <3>1, <3>4
  <2> QED
    BY <1>3, <2>5, <2>2, <2>6, <2>7 DEF x
<1> HIDE DEF n, over
<1>7. lanes' = [l \in 0..3 |-> Taken(word, l, stripes + n)]
  <2>1. word \in Nat
    BY <1>3
  <2>2. X!Rounds([l \in 0..3 |-> Taken(word, l, stripes)], word, stripes * (4 * word), n)
          = [l \in 0..3 |-> Taken(word, l, stripes + n)]
    BY <1>4, <1>6, <2>1, RoundsContinue
  <2> QED
    BY <1>2, <1>4, <1>5, <2>2 DEF size
<1>8. given' = (stripes + n) * size + memsize' /\ memsize' \in 0..size - 1 /\ stripes + n \in Nat
  <2>1. (stripes + n) * size = stripes * size + n * size /\ stripes * size \in Int /\ n * size \in Int
    BY <1>3, <1>4, <1>6
  <2> DEFINE a == stripes * size
             b == n * size
             c == (stripes + n) * size
  <2> HIDE DEF a, b, c
  <2>2. c = a + b /\ a \in Int /\ b \in Int /\ p = a /\ given + len - p = b + over
    BY <1>4, <1>6, <2>1 DEF a, b, c
  <2>3. given' = c + memsize'
    BY <1>2, <1>3, <1>6, <2>2
  <2> QED
    BY <1>2, <1>4, <1>6, <2>3 DEF c
<1>9. /\ mem' \in [0..size - 1 -> Int]
      /\ \A i \in 0..memsize' - 1 : mem'[i] = given' - memsize' + i
  <2> DEFINE b == n * size
             s == X!Store(full, 0, p + b, over)
  <2>1. b \in Int /\ p \in Int
    <3>1. stripes * size \in Int /\ n * size \in Int
      BY <1>3, <1>4, <1>6
    <3> QED
      BY <1>4, <3>1
  <2>2. given + len - p = b + over /\ mem' = s
    BY <1>2, <1>6
  <2> HIDE DEF b
  <2>3. s = [i \in 0..size - 1 |-> IF i \in 0..0 + over - 1 THEN p + b + i - 0 ELSE full[i]]
    BY <1>5 DEF X!Store
  <2> HIDE DEF s
  <2>4. s \in [0..size - 1 -> Int]
    BY <1>3, <1>5, <1>6, <2>1, <2>3
  <2>5. \A i \in 0..over - 1 : s[i] = p + b + i
    BY <1>3, <1>6, <2>1, <2>3
  <2>6. given' - memsize' = p + b
    BY <1>2, <1>3, <1>6, <2>1, <2>2
  <2>7. mem' \in [0..size - 1 -> Int]
    BY <2>2, <2>4
  <2>8. \A i \in 0..memsize' - 1 : mem'[i] = given' - memsize' + i
    BY <1>2, <2>2, <2>5, <2>6
  <2> QED
    BY <2>7, <2>8
<1>10. /\ word' \in {4, 8} /\ memsize' \in 0..4 * word' - 1
       /\ mem' \in [0..4 * word' - 1 -> Int]
       /\ \A i \in 0..memsize' - 1 : mem'[i] = given' - memsize' + i
       /\ \E m \in Nat : given' = m * (4 * word') + memsize' /\ lanes' = [l \in 0..3 |-> Taken(word', l, m)]
  <2>1. size = 4 * word'
    BY <1>3 DEF size
  <2>2. given' = (stripes + n) * (4 * word') + memsize' /\ lanes' = [l \in 0..3 |-> Taken(word', l, stripes + n)]
    BY <1>3, <1>7, <1>8, <2>1
  <2> QED
    BY <1>3, <1>8, <1>9, <2>1, <2>2
<1>11. /\ given' \in 0..MaxTotal
       /\ total' = given' % TotalModulo[word']
       /\ word' = 4 => large' \in BOOLEAN /\ (large' <=> given' >= 16)
  BY XxhCountInv
<1> QED
  BY <1>10, <1>11 DEF XxhInv

(* Every step keeps XxhInv.                                                 *)
LEMMA XxhNextInv == XxhInv /\ [StreamNext]_streamVars => XxhInv'
<1> SUFFICES ASSUME XxhInv, [StreamNext]_streamVars PROVE XxhInv'
  OBVIOUS
<1>1. ASSUME UNCHANGED xxhVars PROVE XxhInv'
  BY <1>1 DEF XxhInv, xxhVars
<1>2. ASSUME NEW w \in {4, 8}, X!Reset(w) PROVE XxhInv'
  <2>1. Fresh'
    BY <1>2 DEF Fresh, X!Reset, X!StripeOf, X!NoByte, X!EmptyLanes
  <2>2. Fresh' => XxhInv'
    BY XxhFresh, PTL
  <2> QED
    BY <2>1, <2>2
<1>3. ASSUME NEW len \in Chunks, X!Update32(len) PROVE XxhInv'
  BY <1>3, XxhFillInv, XxhConsumeInv DEF X!Update32
<1>4. ASSUME NEW len \in Chunks, X!Update64(len) PROVE XxhInv'
  <2>1. word = 4 => large' = X!LargeLen(len)
    BY <1>4 DEF X!Update64
  <2> QED
    BY <1>4, <2>1, XxhFillInv, XxhConsumeInv DEF X!Update64
<1>5. CASE X!Next
  BY <1>2, <1>3, <1>4, <1>5 DEF X!Next, X!Reset32, X!Reset64
<1>6. CASE UNCHANGED streamVars
  BY <1>1, <1>6 DEF streamVars
<1> QED
  BY <1>1, <1>5, <1>6 DEF StreamNext

(* The buffered bytes, cut like the end of the input.                       *)
LEMMA BufferedIs ==
  ASSUME XxhInv, NEW start \in Nat, given = start + memsize, NEW cuts \in Seq(Pieces(memsize))
  PROVE  X!Buffered(cuts) = [k \in DOMAIN cuts |-> <<start + cuts[k][1], cuts[k][2]>>]
<1>1. memsize \in Nat /\ \A i \in 0..memsize - 1 : mem[i] = start + i
  <2>1. word \in {4, 8} /\ memsize \in 0..4 * word - 1 /\ \A i \in 0..memsize - 1 : mem[i] = given - memsize + i
    BY DEF XxhInv
  <2>2. memsize \in Nat
    BY <2>1
  <2>3. given - memsize = start
    BY <2>2
  <2> QED
    BY <2>1, <2>2, <2>3
<1>2. ASSUME NEW k \in DOMAIN cuts
      PROVE  X!Read(mem, cuts[k][1], cuts[k][2]) = <<start + cuts[k][1], cuts[k][2]>>
  <2>1. cuts[k] \in Pieces(memsize)
    OBVIOUS
  <2> QED
    BY <1>1, <2>1, ReadInOrder
<1> QED
  BY <1>2 DEF X!Buffered

(* With XxhInv, the lanes and the bytes held are what the one-shot function *)
(* takes from the whole input: the digests are equal.                       *)
LEMMA XxhDigests == XxhInv => DigestIsOneShot
<1> SUFFICES ASSUME XxhInv PROVE DigestIsOneShot
  OBVIOUS
<1>1. PICK n \in Nat : given = n * (4 * word) + memsize /\ lanes = [l \in 0..3 |-> Taken(word, l, n)]
  BY DEF XxhInv
<1>2. /\ word \in {4, 8} /\ given \in 0..MaxTotal /\ memsize \in 0..4 * word - 1
      /\ total = given % TotalModulo[word]
  BY DEF XxhInv
<1>3. TotalModulo[word] \in Nat /\ TotalModulo[word] > 0 /\ MaxTotal \in Nat /\ given \in Nat
  BY <1>2, ModuloIs
<1>4. total % TotalModulo[word] = given % TotalModulo[word]
  BY <1>2, <1>3, Remainders
<1>5. word \in Nat /\ memsize \in 0..31
  BY <1>2
<1>6. lanes = X!Rounds(X!EmptyLanes, word, 0, n)
  BY <1>1, <1>5, RoundsFromStart
<1>7. CASE word = 4
  <2>1. given = n * 16 + memsize /\ memsize \in 0..15
    BY <1>1, <1>2, <1>7
  <2>2. given \div 16 = n /\ given % 16 = memsize
    BY <2>1, QuotientRest
  <2>3. X!Finalize32(memsize) \in Seq(Pieces(memsize))
    BY <1>5, CutsAreInside
  <2>4. X!Buffered(X!Finalize32(memsize))
          = [k \in DOMAIN X!Finalize32(memsize) |->
               <<n * 16 + X!Finalize32(memsize)[k][1], X!Finalize32(memsize)[k][2]>>]
    <3>1. n * 16 \in Nat
      OBVIOUS
    <3> QED
      BY <2>1, <2>3, <3>1, BufferedIs
  <2>5. X!Converge(lanes, large) = X!Converge(X!Rounds(X!EmptyLanes, 4, 0, n), given >= 16)
    <3>1. large <=> given >= 16
      BY <1>7 DEF XxhInv
    <3> QED
      BY <1>6, <1>7, <3>1 DEF X!Converge
  <2>6. X!StripeOf(4) = 16
    BY DEF X!StripeOf
  <2>7. X!XXH32(given) = X!Hash(4, X!Converge(X!Rounds(X!EmptyLanes, 4, 0, n), given >= 16), given,
                                X!Buffered(X!Finalize32(memsize)))
    BY <2>2, <2>4, <2>6 DEF X!XXH32, X!OneShot
  <2>8. X!Digest32 = X!XXH32(given)
    BY <1>4, <1>7, <2>5, <2>7 DEF X!Digest32, X!Hash
  <2> QED
    BY <1>7, <2>8 DEF DigestIsOneShot
<1>8. CASE word = 8
  <2>1. given = n * 32 + memsize /\ memsize \in 0..31
    BY <1>1, <1>2, <1>8
  <2>2. given \div 32 = n /\ given % 32 = memsize
    BY <2>1, QuotientRest
  <2>3. X!Finalize64(memsize) \in Seq(Pieces(memsize))
    BY <1>5, CutsAreInside
  <2>4. X!Buffered(X!Finalize64(memsize))
          = [k \in DOMAIN X!Finalize64(memsize) |->
               <<n * 32 + X!Finalize64(memsize)[k][1], X!Finalize64(memsize)[k][2]>>]
    <3>1. n * 32 \in Nat
      OBVIOUS
    <3> QED
      BY <2>1, <2>3, <3>1, BufferedIs
  <2>5. total = given
    <3>1. given < TotalModulo[word]
      BY <1>2, <1>3, <1>8, ModuloIs
    <3> QED
      BY <1>2, <1>3, <3>1, Remainders
  <2>6. X!StripeOf(8) = 32
    BY DEF X!StripeOf
  <2>7. X!XXH64(given) = X!Hash(8, X!Converge(X!Rounds(X!EmptyLanes, 8, 0, n), given >= 32), given,
                                X!Buffered(X!Finalize64(memsize)))
    BY <2>2, <2>4, <2>6 DEF X!XXH64, X!OneShot
  <2>8. X!Digest64 = X!XXH64(given)
    BY <1>6, <1>8, <2>2, <2>5, <2>7 DEF X!Digest64
  <2> QED
    BY <1>8, <2>8 DEF DigestIsOneShot
<1> QED
  BY <1>2, <1>7, <1>8

--------------------------------------------------------------------------------
(* XXH3: the accumulators.                                                  *)

Mixes == [in : Seq(Reading), key : Seq(Reading)]

(* What goes into the accumulators in place r of block b: P stripes, each   *)
(* with the secret moved on, and then a scrambling.                         *)
Taking(b, r, P, limit) ==
  IF r = P THEN X3!Mix(<<>>, << <<limit, 64>> >>)
           ELSE X3!Mix(<< <<(b * P + r) * 64, 64>> >>, << <<r * 8, 64>> >>)

(* The accumulators when b blocks and r places of the next are done.        *)
AccOf(b, r, P, limit) ==
  [m \in 1..b * (P + 1) + r |-> Taking((m - 1) \div (P + 1), (m - 1) % (P + 1), P, limit)]

(* A step of the accumulators is of a stripe with a piece of the secret, or *)
(* of a piece of the secret alone.                                          *)
LEMMA MixesType ==
  ASSUME NEW a \in Nat, NEW b \in Nat, NEW c \in Nat, NEW d \in Nat
  PROVE  /\ X3!Mix(<< <<a, b>> >>, << <<c, d>> >>) \in Mixes
         /\ X3!Mix(<<>>, << <<c, d>> >>) \in Mixes
<1>1. << <<a, b>> >> \in Seq(Reading) /\ << <<c, d>> >> \in Seq(Reading) /\ <<>> \in Seq(Reading)
  BY DEF Reading
<1> QED
  BY <1>1 DEF Mixes, X3!Mix

(* What the accumulators take at a place of a block is such a step.         *)
LEMMA TakingType ==
  ASSUME NEW P \in Nat, NEW limit \in Nat, NEW b \in Nat, NEW r \in 0..P
  PROVE  Taking(b, r, P, limit) \in Mixes
<1>1. b * P \in Nat
  OBVIOUS
<1>2. (b * P + r) * 64 \in Nat /\ r * 8 \in Nat
  BY <1>1
<1> QED
  BY <1>2, MixesType DEF Taking

(* AccOf is a sequence of these steps, one for each stripe and one more for *)
(* the end of each block.                                                   *)
LEMMA AccOfType ==
  ASSUME NEW P \in Nat, NEW limit \in Nat, NEW b \in Nat, NEW r \in Nat
  PROVE  /\ b * (P + 1) + r \in Nat
         /\ AccOf(b, r, P, limit) \in [1..b * (P + 1) + r -> Mixes]
<1>1. b * (P + 1) \in Nat
  OBVIOUS
<1>2. ASSUME NEW m \in 1..b * (P + 1) + r
      PROVE  Taking((m - 1) \div (P + 1), (m - 1) % (P + 1), P, limit) \in Mixes
  <2>1. m - 1 \in Nat /\ P + 1 \in Nat /\ P + 1 > 0
    BY <1>1
  <2>2. (m - 1) \div (P + 1) \in Nat /\ (m - 1) % (P + 1) \in 0..P
    BY <2>1, QuotientIsNat
  <2> QED
    BY <2>2, TakingType
<1> QED
  BY <1>1, <1>2 DEF AccOf

(* The entry in place r of block b.                                         *)
LEMMA AccOfEntry ==
  ASSUME NEW P \in Nat, NEW limit \in Nat, NEW c \in Nat, NEW s \in Nat,
         NEW b \in Nat, NEW r \in 0..P, b * (P + 1) + r < c * (P + 1) + s
  PROVE  AccOf(c, s, P, limit)[b * (P + 1) + r + 1] = Taking(b, r, P, limit)
<1> DEFINE x == b * (P + 1)
           y == c * (P + 1)
<1>1. x \in Nat /\ y \in Nat /\ P + 1 \in Nat /\ P + 1 > 0 /\ r \in 0..P + 1 - 1
  OBVIOUS
<1>2. (x + r) \div (P + 1) = b /\ (x + r) % (P + 1) = r
  BY <1>1, QuotientRest
<1> HIDE DEF x, y
<1>3. x + r + 1 \in 1..y + s /\ x + r + 1 - 1 = x + r
  BY <1>1 DEF x, y
<1>4. AccOf(c, s, P, limit)[x + r + 1] = Taking((x + r) \div (P + 1), (x + r) % (P + 1), P, limit)
  <2>1. AccOf(c, s, P, limit) = [m \in 1..y + s |-> Taking((m - 1) \div (P + 1), (m - 1) % (P + 1), P, limit)]
    BY DEF AccOf, y
  <2> DEFINE m == x + r + 1
  <2>2. m \in 1..y + s /\ m - 1 = x + r
    BY <1>1, <1>3
  <2> HIDE DEF m
  <2>3. AccOf(c, s, P, limit)[m] = Taking((m - 1) \div (P + 1), (m - 1) % (P + 1), P, limit)
    BY <2>1, <2>2
  <2>4. AccOf(c, s, P, limit)[m] = Taking((x + r) \div (P + 1), (x + r) % (P + 1), P, limit)
    BY <2>2, <2>3
  <2> QED
    BY <2>4 DEF m
<1> QED
  BY <1>2, <1>4 DEF x

(* Every place is in some block.                                            *)
LEMMA PlaceIs ==
  ASSUME NEW P \in Nat, NEW len \in Nat, NEW m \in 1..len
  PROVE  \E b \in Nat, r \in 0..P : m = b * (P + 1) + r + 1
<1>1. m - 1 \in Nat /\ P + 1 \in Nat /\ P + 1 > 0
  OBVIOUS
<1> DEFINE b == (m - 1) \div (P + 1)
           r == (m - 1) % (P + 1)
<1>2. b \in Nat /\ r \in 0..P /\ m - 1 = b * (P + 1) + r
  BY <1>1, QuotientIsNat
<1> HIDE DEF b, r
<1>3. b * (P + 1) \in Nat
  BY <1>2
<1> DEFINE y == b * (P + 1)
<1> HIDE DEF y
<1>4. m - 1 = y + r /\ y \in Nat
  BY <1>2, <1>3 DEF y
<1>5. m = y + r + 1
  BY <1>2, <1>4
<1> QED
  BY <1>2, <1>5 DEF y

(* More stripes of a block that is open.                                    *)
LEMMA AccumulateIs ==
  ASSUME NEW P \in Nat, NEW limit \in Nat, NEW b \in Nat, NEW r \in Nat, NEW k \in Nat, r + k <= P
  PROVE  X3!Accumulate(AccOf(b, r, P, limit), X3!StripesAt((b * P + r) * 64, k), r * 8)
           = AccOf(b, r + k, P, limit)
<1> DEFINE base  == b * (P + 1)
           from  == (b * P + r) * 64
           added == [n \in 1..k |-> X3!Mix(<< <<from + (n - 1) * 64, 64>> >>,
                                          << <<r * 8 + (n - 1) * 8, 64>> >>)]
           old   == AccOf(b, r, P, limit)
           new   == AccOf(b, r + k, P, limit)
<1>1. base \in Nat /\ b * P \in Nat /\ from \in Nat
  <2>1. base \in Nat /\ b * P \in Nat
    OBVIOUS
  <2>2. from \in Nat
    BY <2>1
  <2> QED
    BY <2>1, <2>2
<1>2. X3!Accumulate(old, X3!StripesAt(from, k), r * 8) = old \o added
  <2> HIDE DEF old, from
  <2> DEFINE s == X3!StripesAt(from, k)
  <2>1. DOMAIN s = 1..k /\ \A n \in 1..k : s[n] = <<from + (n - 1) * 64, 64>>
    BY DEF X3!StripesAt, X3!StripeLen
  <2> HIDE DEF s
  <2>2. [n \in DOMAIN s |-> X3!Mix(<<s[n]>>, << <<r * 8 + (n - 1) * 8, 64>> >>)] = added
    BY <2>1
  <2>3. X3!Accumulate(old, s, r * 8)
          = old \o [n \in DOMAIN s |-> X3!Mix(<<s[n]>>, << <<r * 8 + (n - 1) * 8, 64>> >>)]
    BY DEF X3!Accumulate, X3!ConsumeRate, X3!StripeLen
  <2> QED
    BY <2>2, <2>3 DEF s
<1> DEFINE s == r + k
<1>3. s \in Nat /\ s <= P
  OBVIOUS
<1>4. old \in [1..base + r -> Mixes] /\ new \in [1..base + s -> Mixes]
  <2>1. old \in [1..base + r -> Mixes]
    BY AccOfType
  <2> HIDE DEF s
  <2>2. AccOf(b, s, P, limit) \in [1..base + s -> Mixes]
    BY <1>3, AccOfType
  <2> QED
    BY <2>1, <2>2 DEF s
<1>5. ASSUME NEW n \in 1..k PROVE added[n] = Taking(b, r + (n - 1), P, limit) /\ added[n] \in Mixes
  <2>1. r + (n - 1) # P /\ r + (n - 1) \in 0..P
    OBVIOUS
  <2> DEFINE z == b * P
  <2> HIDE DEF z
  <2>2. z \in Nat /\ (z + r) * 64 + (n - 1) * 64 = (z + (r + (n - 1))) * 64
        /\ r * 8 + (n - 1) * 8 = (r + (n - 1)) * 8
    BY <1>1 DEF z
  <2>3. added[n] = Taking(b, r + (n - 1), P, limit)
    BY <2>1, <2>2 DEF Taking, z
  <2> QED
    BY <2>1, <2>3, TakingType
<1>6. ASSUME NEW m \in 1..base + r PROVE old[m] = new[m]
  <2>1. m \in 1..base + (r + k)
    BY <1>1
  <2> HIDE DEF base
  <2> QED
    BY <2>1 DEF AccOf, base
<1>7. ASSUME NEW n \in 1..k PROVE added[n] = new[base + r + n]
  <2> DEFINE p == r + (n - 1)
  <2>1. added[n] = Taking(b, p, P, limit)
    BY <1>5
  <2>2. p \in 0..P /\ p < s
    OBVIOUS
  <2>3. base + p < base + s /\ base + p + 1 = base + r + n
    BY <1>1
  <2> HIDE DEF p, added, s
  <2>4. AccOf(b, s, P, limit)[base + p + 1] = Taking(b, p, P, limit)
    BY <1>3, <2>2, <2>3, AccOfEntry
  <2> QED
    BY <2>1, <2>3, <2>4 DEF s
<1> HIDE DEF old, new, added, base, from
<1>8. added \in [1..k -> Mixes]
  BY <1>5 DEF added
<1> DEFINE l == base + r
<1>9. l \in Nat /\ base + s = l + k
  BY <1>1
<1> HIDE DEF l, s
<1>10. old \in [1..l -> Mixes] /\ new \in [1..l + k -> Mixes]
  BY <1>4, <1>9 DEF l
<1>11. old \o added \in [1..l + k -> Mixes]
  BY <1>8, <1>9, <1>10, Joined
<1>12. \A m \in 1..l + k : (old \o added)[m] = IF m <= l THEN old[m] ELSE added[m - l]
  <2>1. l \in Nat
    BY <1>9
  <2>2. old \in [1..l -> Mixes]
    BY <1>10
  <2> QED
    BY <1>8, <2>1, <2>2, Joined
<1>13. ASSUME NEW m \in 1..l + k PROVE (old \o added)[m] = new[m]
  <2>1. CASE m <= l
    <3>1. m \in 1..base + r
      BY <1>9, <2>1 DEF l
    <3> QED
      BY <1>6, <1>12, <2>1, <3>1
  <2>2. CASE ~(m <= l)
    <3>1. m - l \in 1..k /\ base + r + (m - l) = m
      BY <1>1, <1>9, <2>2 DEF l
    <3> QED
      BY <1>7, <1>12, <2>2, <3>1
  <2> QED
    BY <2>1, <2>2
<1> DEFINE joined == old \o added
<1>14. joined = new
  <2>1. joined \in [1..l + k -> Mixes] /\ \A m \in 1..l + k : joined[m] = new[m]
    BY <1>11, <1>13
  <2> HIDE DEF joined
  <2> QED
    BY <1>9, <1>10, <2>1
<1> QED
  BY <1>2, <1>14 DEF old, new, from

(* A block that is full is scrambled.                                       *)
LEMMA ScrambleIs ==
  ASSUME NEW P \in Nat, NEW limit \in Nat, NEW b \in Nat
  PROVE  X3!Scramble(AccOf(b, P, P, limit), limit) = AccOf(b + 1, 0, P, limit)
<1> DEFINE l    == b * (P + 1) + P
           old  == AccOf(b, P, P, limit)
           new  == AccOf(b + 1, 0, P, limit)
           last == Taking(b, P, P, limit)
           s    == Append(old, last)
<1>1. X3!Scramble(old, limit) = s
  BY DEF X3!Scramble, X3!StripeLen, Taking
<1>2. l \in Nat /\ (b + 1) * (P + 1) + 0 = l + 1
  <2>1. b * (P + 1) \in Nat /\ (b + 1) * (P + 1) = b * (P + 1) + (P + 1)
    OBVIOUS
  <2> DEFINE y == b * (P + 1)
             z == (b + 1) * (P + 1)
  <2> HIDE DEF y, z
  <2>2. y \in Nat /\ z = y + (P + 1)
    BY <2>1 DEF y, z
  <2>3. y + P \in Nat /\ z + 0 = y + P + 1
    BY <2>2
  <2> QED
    BY <2>3 DEF y, z
<1>3. old \in [1..l -> Mixes]
  BY AccOfType
<1>4. new \in [1..l + 1 -> Mixes]
  <2>1. b + 1 \in Nat
    OBVIOUS
  <2>2. new \in [1..(b + 1) * (P + 1) + 0 -> Mixes]
    BY <2>1, AccOfType
  <2> HIDE DEF new, l
  <2> QED
    BY <1>2, <2>2
<1>5. last \in Mixes
  BY TakingType
<1>6. \A m \in 1..l : old[m] = new[m]
  <2> SUFFICES ASSUME NEW m \in 1..l PROVE old[m] = new[m]
    OBVIOUS
  <2>1. m \in 1..(b + 1) * (P + 1) + 0
    <3> HIDE DEF l
    <3> QED
      BY <1>2
  <2>2. new[m] = Taking((m - 1) \div (P + 1), (m - 1) % (P + 1), P, limit)
    BY <2>1 DEF AccOf
  <2>3. old[m] = Taking((m - 1) \div (P + 1), (m - 1) % (P + 1), P, limit)
    BY DEF AccOf
  <2> QED
    BY <2>2, <2>3
<1>7. new[l + 1] = last
  <2>1. b * (P + 1) + P < (b + 1) * (P + 1) + 0
    <3> HIDE DEF l
    <3>1. l < l + 1
      BY <1>2
    <3> QED
      BY <1>2, <3>1 DEF l
  <2> DEFINE c == b + 1
  <2>2. c \in Nat /\ 0 \in Nat /\ P \in 0..P
    OBVIOUS
  <2>3. b * (P + 1) + P < c * (P + 1) + 0
    BY <2>1
  <2> HIDE DEF c
  <2>4. AccOf(c, 0, P, limit)[b * (P + 1) + P + 1] = Taking(b, P, P, limit)
    BY <2>2, <2>3, AccOfEntry
  <2> QED
    BY <2>4 DEF c
<1> HIDE DEF old, new, last, l
<1>8. s \in [1..l + 1 -> Mixes] /\ \A m \in 1..l + 1 : s[m] = new[m]
  <2>1. old \in Seq(Mixes) /\ Len(old) = l
    BY <1>2, <1>3
  <2>2. s \in Seq(Mixes) /\ Len(s) = l + 1 /\ s[l + 1] = last /\ \A m \in 1..l : s[m] = old[m]
    BY <1>5, <2>1, AppendProperties
  <2>3. s \in [1..l + 1 -> Mixes]
    BY <2>2, LenProperties
  <2>4. \A m \in 1..l + 1 : m = l + 1 \/ m \in 1..l
    BY <1>2
  <2> QED
    BY <1>6, <1>7, <2>2, <2>3, <2>4
<1> HIDE DEF s
<1>9. s = new
  BY <1>2, <1>4, <1>8
<1> QED
  BY <1>1, <1>9 DEF old, new

(* n stripes from position p on.                                            *)
LEMMA StripesAre ==
  ASSUME NEW p \in Nat, NEW n \in Nat
  PROVE  /\ X3!StripesAt(p, n) \in [1..n -> Reading]
         /\ X3!StripesAt(p, n) \in Seq(Reading) /\ Len(X3!StripesAt(p, n)) = n
         /\ \A i \in 1..n : X3!StripesAt(p, n)[i] = <<p + (i - 1) * 64, 64>>
<1>1. X3!StripesAt(p, n) \in [1..n -> Reading]
  BY DEF X3!StripesAt, X3!StripeLen, Reading
<1>2. \A i \in 1..n : X3!StripesAt(p, n)[i] = <<p + (i - 1) * 64, 64>>
  BY DEF X3!StripesAt, X3!StripeLen
<1>3. \A t \in [1..n -> Reading] : t \in Seq(Reading) /\ Len(t) = n
  OBVIOUS
<1> QED
  BY <1>1, <1>2, <1>3

(* The first k of n stripes, and the others.                                *)
LEMMA StripesCut ==
  ASSUME NEW o \in Nat, NEW n \in Nat, NEW k \in 0..n
  PROVE  /\ Len(X3!StripesAt(o, n)) = n
         /\ SubSeq(X3!StripesAt(o, n), 1, k) = X3!StripesAt(o, k)
         /\ SubSeq(X3!StripesAt(o, n), k + 1, n) = X3!StripesAt(o + k * 64, n - k)
<1> DEFINE s == X3!StripesAt(o, n)
<1>1. s \in Seq(Reading) /\ Len(s) = n /\ \A i \in 1..n : s[i] = <<o + (i - 1) * 64, 64>>
  BY StripesAre
<1> HIDE DEF s
<1>4. SubSeq(s, 1, k) = X3!StripesAt(o, k)
  <2> DEFINE t == SubSeq(s, 1, k)
             u == X3!StripesAt(o, k)
  <2>1. t \in Seq(Reading) /\ Len(t) = k /\ \A i \in 1..k : t[i] = s[i]
    BY <1>1, SubSeqProperties
  <2>2. u \in Seq(Reading) /\ Len(u) = k /\ \A i \in 1..k : u[i] = <<o + (i - 1) * 64, 64>>
    <3>1. k \in Nat
      OBVIOUS
    <3> QED
      BY <3>1, StripesAre
  <2> HIDE DEF t, u
  <2>3. ASSUME NEW i \in 1..k PROVE t[i] = u[i]
    <3>1. t[i] = s[i] /\ i \in 1..n
      BY <2>1
    <3> QED
      BY <1>1, <2>2, <3>1
  <2>4. t = u
    BY <2>1, <2>2, <2>3, SeqEqual
  <2> QED
    BY <2>4 DEF t, u
<1>5. SubSeq(s, k + 1, n) = X3!StripesAt(o + k * 64, n - k)
  <2> DEFINE t == SubSeq(s, k + 1, n)
             u == X3!StripesAt(o + k * 64, n - k)
  <2>1. t \in Seq(Reading) /\ Len(t) = n - k /\ \A i \in 1..n - k : t[i] = s[k + i]
    <3>1. k + 1 \in 1..Len(s) + 1 /\ n \in k + 1 - 1..Len(s)
      BY <1>1
    <3>2. t \in Seq(Reading) /\ Len(t) = n - (k + 1) + 1
          /\ \A i \in 1..n - (k + 1) + 1 : t[i] = s[k + 1 + i - 1]
      BY <1>1, <3>1, SubSeqProperties
    <3>3. n - (k + 1) + 1 = n - k /\ \A i \in 1..n - k : k + 1 + i - 1 = k + i
      OBVIOUS
    <3> HIDE DEF t
    <3> QED
      BY <3>2, <3>3
  <2>2. /\ u \in Seq(Reading) /\ Len(u) = n - k
        /\ \A i \in 1..n - k : u[i] = <<o + k * 64 + (i - 1) * 64, 64>>
    <3>1. o + k * 64 \in Nat /\ n - k \in Nat
      OBVIOUS
    <3> QED
      BY <3>1, StripesAre
  <2> HIDE DEF t, u
  <2>3. ASSUME NEW i \in 1..n - k PROVE t[i] = u[i]
    <3>1. t[i] = s[k + i] /\ k + i \in 1..n
      BY <2>1
    <3>2. s[k + i] = <<o + (k + i - 1) * 64, 64>>
      BY <1>1, <3>1
    <3>3. u[i] = <<o + k * 64 + (i - 1) * 64, 64>>
      BY <2>2
    <3> QED
      BY <3>1, <3>2, <3>3
  <2>4. t = u
    BY <2>1, <2>2, <2>3, SeqEqual
  <2> QED
    BY <2>4 DEF t, u
<1> QED
  BY <1>1, <1>4, <1>5 DEF s

(* The record the loop of XXH3_consumeStripes works on, when s stripes of   *)
(* block c are done and n are left.                                         *)
Turn(c, s, n, P, limit) ==
  [acc |-> AccOf(c, s, P, limit), rest |-> X3!StripesAt((c * P + s) * 64, n), soFar |-> s]

(* XXH3_consumeStripes: a turn that ends block c.                           *)
LEMMA EndBlockIs ==
  ASSUME NEW P \in Nat, NEW limit \in Nat, nbStripesPerBlock = P, secretLimit = limit,
         NEW c \in Nat, NEW s \in Nat, s <= P, NEW n \in Nat, n + s >= P
  PROVE  X3!EndBlock(Turn(c, s, n, P, limit)) = Turn(c + 1, 0, n - (P - s), P, limit)
<1> DEFINE r     == Turn(c, s, n, P, limit)
           open  == P - s
           from  == (c * P + s) * 64
<1>1. r.acc = AccOf(c, s, P, limit) /\ r.rest = X3!StripesAt(from, n) /\ r.soFar = s
  BY DEF Turn
<1>2. open \in 0..n /\ from \in Nat
  <2>1. c * P \in Nat
    OBVIOUS
  <2> QED
    BY <2>1
<1> HIDE DEF r
<1>3. /\ Len(r.rest) = n
      /\ SubSeq(r.rest, 1, open) = X3!StripesAt(from, open)
      /\ SubSeq(r.rest, open + 1, Len(r.rest)) = X3!StripesAt(from + open * 64, n - open)
  <2> HIDE DEF open, from
  <2>1. /\ Len(X3!StripesAt(from, n)) = n
        /\ SubSeq(X3!StripesAt(from, n), 1, open) = X3!StripesAt(from, open)
        /\ SubSeq(X3!StripesAt(from, n), open + 1, n) = X3!StripesAt(from + open * 64, n - open)
    BY <1>2, StripesCut
  <2> QED
    BY <1>1, <2>1
<1>4. X3!Accumulate(r.acc, SubSeq(r.rest, 1, open), r.soFar * 8) = AccOf(c, P, P, limit)
  <2>1. open \in Nat /\ s + open = P /\ s + open <= P
    BY <1>2
  <2> HIDE DEF open
  <2>2. X3!Accumulate(AccOf(c, s, P, limit), X3!StripesAt(from, open), s * 8) = AccOf(c, s + open, P, limit)
    BY <2>1, AccumulateIs
  <2> QED
    BY <1>1, <1>3, <2>1, <2>2
<1>5. from + open * 64 = ((c + 1) * P + 0) * 64
  <2>1. (c + 1) * P = c * P + P /\ c * P \in Nat /\ (c + 1) * P \in Nat
    OBVIOUS
  <2> DEFINE y == c * P
             z == (c + 1) * P
  <2> HIDE DEF y, z
  <2>2. (y + s) * 64 + (P - s) * 64 = (z + 0) * 64
    BY <2>1 DEF y, z
  <2> QED
    BY <2>2 DEF y, z
<1>6. X3!EndBlock(r) = [acc   |-> AccOf(c + 1, 0, P, limit),
                        rest  |-> X3!StripesAt(((c + 1) * P + 0) * 64, n - open),
                        soFar |-> 0]
  <2> HIDE DEF open, from
  <2>1. nbStripesPerBlock - r.soFar = open
    BY <1>1 DEF open
  <2>2. X3!EndBlock(r) = [acc   |-> X3!Scramble(X3!Accumulate(r.acc, SubSeq(r.rest, 1, open), r.soFar * 8), limit),
                          rest  |-> SubSeq(r.rest, open + 1, Len(r.rest)),
                          soFar |-> 0]
    BY <2>1 DEF X3!EndBlock, X3!ConsumeRate
  <2>3. X3!Scramble(AccOf(c, P, P, limit), limit) = AccOf(c + 1, 0, P, limit)
    BY ScrambleIs
  <2> QED
    BY <1>3, <1>4, <1>5, <2>2, <2>3
<1> QED
  BY <1>6 DEF r, Turn

(* Two functions on 0..n that start alike and go on alike are the same:     *)
(* there is no first place at which they part.                              *)
LEMMA AgreeByStep ==
  ASSUME NEW n \in Nat, NEW f, NEW g, f[0] = g[0],
         \A k \in 1..n : f[k - 1] = g[k - 1] => f[k] = g[k]
  PROVE  \A k \in 0..n : f[k] = g[k]
<1> DEFINE apart == {k \in 0..n : f[k] # g[k]}
<1>1. apart = {}
  <2> SUFFICES ASSUME apart # {} PROVE FALSE
    OBVIOUS
  <2>1. apart \in SUBSET Nat
    OBVIOUS
  <2>2. PICK k \in apart : \A m \in apart : k <= m
    <3> HIDE DEF apart
    <3> QED
      BY <2>1, LeastNumber
  <2>3. k \in 1..n
    OBVIOUS
  <2>4. k - 1 \in 0..n /\ ~(k <= k - 1)
    BY <2>3
  <2>5. f[k - 1] = g[k - 1]
    BY <2>2, <2>4
  <2> QED
    BY <2>3, <2>5
<1> QED
  BY <1>1

(* Turn after turn of XXH3_consumeStripes.                                  *)
Turns(start, n, f) == f = [k \in 0..n |-> IF k = 0 THEN start ELSE X3!EndBlock(f[k - 1])]

AllTurns(start, n) == CHOOSE f : Turns(start, n, f)

(* Its turns one after the other: each but the first takes a whole block.   *)
LEMMA TurnsAre ==
  ASSUME NEW P \in Nat, P > 0, NEW limit \in Nat, nbStripesPerBlock = P, secretLimit = limit,
         NEW c \in Nat, NEW s \in 0..P - 1, NEW n \in Nat, NEW turns \in Nat, turns * P <= n + s
  PROVE  turns > 0 => AllTurns(Turn(c, s, n, P, limit), turns)[turns]
                        = Turn(c + turns, 0, n + s - turns * P, P, limit)
<1> DEFINE start == Turn(c, s, n, P, limit)
           g     == [k \in 0..turns |-> IF k = 0 THEN start
                                        ELSE Turn(c + k, 0, n + s - k * P, P, limit)]
           last  == AllTurns(start, turns)
<1>1. ASSUME NEW k \in 1..turns PROVE g[k] = X3!EndBlock(g[k - 1])
  <2>1. k * P <= turns * P
    BY Monotone
  <2>2. k * P \in Nat /\ turns * P \in Nat /\ (k - 1) * P \in Nat /\ k * P = (k - 1) * P + P
    OBVIOUS
  <2> DEFINE y == k * P
             z == (k - 1) * P
             t == turns * P
  <2> HIDE DEF y, z, t
  <2>3. y <= n + s /\ y \in Nat /\ z \in Nat /\ y = z + P
    <3>1. y <= t /\ t <= n + s /\ t \in Nat /\ y \in Nat /\ z \in Nat /\ y = z + P
      BY <2>1, <2>2 DEF y, z, t
    <3> QED
      BY <3>1
  <2>4. CASE k = 1
    <3>1. z = 0 /\ n + s >= P /\ s <= P /\ s \in Nat /\ n - (P - s) = n + s - y
      BY <2>3, <2>4 DEF z
    <3>2. X3!EndBlock(start) = Turn(c + 1, 0, n - (P - s), P, limit)
      BY <3>1, EndBlockIs
    <3>3. g[k] = Turn(c + k, 0, n + s - k * P, P, limit) /\ g[k - 1] = start
      BY <2>4
    <3> HIDE DEF g, start
    <3> QED
      BY <2>4, <3>1, <3>2, <3>3 DEF y
  <2>5. CASE k > 1
    <3> DEFINE m == n + s - z
               d == c + (k - 1)
    <3>1. d \in Nat /\ m \in Nat /\ m + 0 >= P /\ 0 <= P /\ m - (P - 0) = n + s - y /\ d + 1 = c + k
      BY <2>3
    <3>2. g[k] = Turn(c + k, 0, n + s - y, P, limit) /\ g[k - 1] = Turn(d, 0, m, P, limit)
      BY <2>5 DEF y, z
    <3> HIDE DEF g, start, m, d
    <3>3. X3!EndBlock(Turn(d, 0, m, P, limit)) = Turn(d + 1, 0, m - (P - 0), P, limit)
      BY <3>1, EndBlockIs
    <3> QED
      BY <3>1, <3>2, <3>3
  <2> QED
    BY <2>4, <2>5
<1>2. Turns(start, turns, g)
  <2>1. \A k \in 0..turns : g[k] = IF k = 0 THEN start ELSE X3!EndBlock(g[k - 1])
    <3>1. g[0] = start
      OBVIOUS
    <3> HIDE DEF g, start
    <3> QED
      BY <1>1, <3>1
  <2>2. g = [k \in 0..turns |-> g[k]]
    OBVIOUS
  <2> HIDE DEF g, start
  <2>3. [k \in 0..turns |-> g[k]] = [k \in 0..turns |-> IF k = 0 THEN start ELSE X3!EndBlock(g[k - 1])]
    BY <2>1
  <2> QED
    BY <2>2, <2>3 DEF Turns
<1> HIDE DEF g, start
<1>3. Turns(start, turns, last)
  BY <1>2 DEF AllTurns
<1> HIDE DEF last
<1>4. ASSUME NEW f, Turns(start, turns, f)
      PROVE  f[0] = start /\ \A k \in 1..turns : f[k] = X3!EndBlock(f[k - 1])
  BY <1>4 DEF Turns
<1>5. \A k \in 0..turns : last[k] = g[k]
  <2>1. last[0] = start /\ \A k \in 1..turns : last[k] = X3!EndBlock(last[k - 1])
    BY <1>3, <1>4
  <2>2. g[0] = start /\ \A k \in 1..turns : g[k] = X3!EndBlock(g[k - 1])
    BY <1>2, <1>4
  <2>3. \A k \in 1..turns : last[k - 1] = g[k - 1] => last[k] = g[k]
    BY <2>1, <2>2
  <2> QED
    BY <2>1, <2>2, <2>3, AgreeByStep
<1>6. turns > 0 => last[turns] = Turn(c + turns, 0, n + s - turns * P, P, limit)
  BY <1>5 DEF g
<1> QED
  BY <1>6 DEF last, start

(* The stripes of b blocks and r more.                                      *)
StripesIn(b, r, P) == b * P + r

(* A record of accumulators and a count holds the first m stripes.          *)
TakenStripes(r, m, P, limit) ==
  \E d \in Nat, t \in 0..P - 1 :
    StripesIn(d, t, P) = m /\ r = [acc |-> AccOf(d, t, P, limit), soFar |-> t]

(* XXH3_consumeStripes takes the next n stripes.                            *)
LEMMA ConsumeStripesIs ==
  ASSUME NEW P \in Nat, P > 0, NEW limit \in Nat, nbStripesPerBlock = P, secretLimit = limit,
         NEW c \in Nat, NEW s \in 0..P - 1, NEW n \in Nat,
         NEW m, m = StripesIn(c, s, P), NEW from, from = m * 64, NEW sum, sum = m + n
  PROVE  TakenStripes(X3!ConsumeStripes(AccOf(c, s, P, limit), s, X3!StripesAt(from, n)), sum, P, limit)
<1> DEFINE stripes == X3!StripesAt((c * P + s) * 64, n)
           start   == Turn(c, s, n, P, limit)
           turns   == (s + n) \div P
           t       == (s + n) % P
           last    == AllTurns(start, turns)
           r       == IF turns = 0 THEN start ELSE last[turns]
<1>1. turns \in Nat /\ t \in 0..P - 1 /\ s + n = turns * P + t
  <2>1. s + n \in Nat
    OBVIOUS
  <2> QED
    BY <2>1, QuotientIsNat
<1>2. c * P \in Nat /\ Len(stripes) = n
  <2>1. c * P \in Nat
    OBVIOUS
  <2>2. (c * P + s) * 64 \in Nat
    BY <2>1
  <2> QED
    BY <2>1, <2>2, StripesAre
<1>3. X3!ConsumeStripes(AccOf(c, s, P, limit), s, stripes)
        = [acc   |-> X3!Accumulate(r.acc, r.rest, r.soFar * 8),
           soFar |-> r.soFar + Len(r.rest)]
  <2> DEFINE many   == (s + Len(stripes)) \div nbStripesPerBlock
             begin  == [acc |-> AccOf(c, s, P, limit), rest |-> stripes, soFar |-> s]
             rr     == IF many = 0 THEN begin ELSE AllTurns(begin, many)[many]
  <2>1. many = turns /\ begin = start
    BY <1>2 DEF Turn
  <2> HIDE DEF stripes
  <2>2. X3!ConsumeStripes(AccOf(c, s, P, limit), s, stripes)
          = [acc   |-> X3!Accumulate(rr.acc, rr.rest, rr.soFar * X3!ConsumeRate),
             soFar |-> rr.soFar + Len(rr.rest)]
    BY DEF X3!ConsumeStripes, Turns, AllTurns
  <2> HIDE DEF many, begin, turns, start
  <2>3. rr = r
    BY <2>1
  <2> HIDE DEF rr, r
  <2> QED
    BY <2>2, <2>3 DEF X3!ConsumeRate
<1>4. turns * P \in Nat /\ turns * P <= n + s
  <2> DEFINE y == turns * P
  <2>1. y \in Nat /\ s + n = y + t /\ t \in Nat
    BY <1>1
  <2> HIDE DEF y, turns, t
  <2>2. y <= n + s
    BY <2>1
  <2> QED
    BY <2>1, <2>2 DEF y
<1> DEFINE d  == c + turns
           r0 == IF turns = 0 THEN s ELSE 0
           k  == t - r0
<1>5. d \in Nat /\ d * P + t = c * P + s + n
  <2> HIDE DEF turns, t
  <2>1. (c + turns) * P = c * P + turns * P
    BY <1>1
  <2> DEFINE x == c * P
             y == turns * P
             z == (c + turns) * P
  <2> HIDE DEF x, y, z
  <2>2. x \in Nat /\ y \in Nat /\ z = x + y /\ s + n = y + t
    BY <1>1, <1>2, <1>4, <2>1 DEF x, y, z
  <2>3. z + t = x + s + n
    BY <1>1, <2>2
  <2> QED
    BY <1>1, <2>3 DEF x, z
<1>6. k \in Nat /\ r0 \in Nat /\ r0 + k = t /\ r0 + k <= P
  <2> HIDE DEF turns, t
  <2>1. CASE turns = 0
    BY <1>1, <2>1
  <2>2. CASE turns # 0
    BY <1>1, <2>2
  <2> QED
    BY <2>1, <2>2
<1>7. r = Turn(d, r0, k, P, limit)
  <2>1. CASE turns = 0
    <3>1. k = n /\ d = c /\ r0 = s
      <4> HIDE DEF turns, t
      <4> QED
        BY <1>1, <2>1
    <3> HIDE DEF turns, k, d, r0
    <3> QED
      BY <2>1, <3>1
  <2>2. CASE turns > 0
    <3>1. last[turns] = Turn(c + turns, 0, n + s - turns * P, P, limit)
      <4> HIDE DEF turns
      <4> QED
        BY <1>1, <1>4, <2>2, TurnsAre
    <3>2. n + s - turns * P = k /\ r0 = 0
      <4> DEFINE y == turns * P
      <4> HIDE DEF y, turns, t
      <4>1. s + n = y + t /\ y \in Nat
        BY <1>1, <1>4 DEF y
      <4> QED
        BY <1>1, <2>2, <4>1 DEF y
    <3> HIDE DEF turns, k, r0, last
    <3> QED
      BY <2>2, <3>1, <3>2
  <2> QED
    BY <1>1, <2>1, <2>2
<1> HIDE DEF r, d, r0, k, turns, t, stripes
<1>8. r.acc = AccOf(d, r0, P, limit) /\ r.rest = X3!StripesAt((d * P + r0) * 64, k) /\ r.soFar = r0
  BY <1>7 DEF Turn
<1>9. Len(r.rest) = k
  <2>1. d * P \in Nat
    BY <1>5
  <2>2. (d * P + r0) * 64 \in Nat
    BY <1>6, <2>1
  <2> QED
    BY <1>6, <1>8, <2>2, StripesAre
<1>10. X3!Accumulate(r.acc, r.rest, r.soFar * 8) = AccOf(d, r0 + k, P, limit)
  <2>1. P \in Nat /\ limit \in Nat /\ d \in Nat /\ r0 \in Nat /\ k \in Nat /\ r0 + k <= P
    BY <1>5, <1>6
  <2> QED
    BY ONLY <1>8, <2>1, AccumulateIs
<1>11. X3!ConsumeStripes(AccOf(c, s, P, limit), s, stripes) = [acc |-> AccOf(d, t, P, limit), soFar |-> t]
  BY <1>3, <1>6, <1>8, <1>9, <1>10
<1>12. StripesIn(d, t, P) = sum
  <2> DEFINE x == c * P
             y == d * P
  <2> HIDE DEF x, y
  <2>1. y + t = x + s + n /\ StripesIn(d, t, P) = y + t /\ m = x + s /\ x \in Nat
    BY <1>2, <1>5 DEF x, y, StripesIn
  <2>2. x + s + n = (x + s) + n
    BY <2>1
  <2> QED
    BY <2>1, <2>2
<1>13. X3!StripesAt(from, n) = stripes
  BY DEF stripes, StripesIn
<1> QED
  BY <1>1, <1>5, <1>11, <1>12, <1>13 DEF TakenStripes

(* One block of XXH3_hashLong_internal_loop after another.                  *)
Blocks(blocks, blockLen, P, limit, f) ==
  f = [n \in 0..blocks |->
         IF n = 0 THEN X3!InitAcc
         ELSE X3!Scramble(X3!Accumulate(f[n - 1], X3!StripesAt((n - 1) * blockLen, P), 0), limit)]

AllBlocks(blocks, blockLen, P, limit) == CHOOSE f : Blocks(blocks, blockLen, P, limit, f)

(* XXH3_hashLong_internal_loop: its whole blocks, from empty accumulators.  *)
LEMMA BlocksAre ==
  ASSUME NEW P \in Nat, P > 0, NEW limit \in Nat, NEW blocks \in Nat,
         NEW blockLen, blockLen = 64 * P
  PROVE  AllBlocks(blocks, blockLen, P, limit)[blocks] = AccOf(blocks, 0, P, limit)
<1> SUFFICES AllBlocks(blocks, 64 * P, P, limit)[blocks] = AccOf(blocks, 0, P, limit)
  OBVIOUS
<1> DEFINE g    == [n \in 0..blocks |-> AccOf(n, 0, P, limit)]
           last == AllBlocks(blocks, 64 * P, P, limit)
           Next_(a, n) == X3!Scramble(X3!Accumulate(a, X3!StripesAt((n - 1) * (64 * P), P), 0), limit)
<1>1. ASSUME NEW n \in 1..blocks PROVE g[n] = Next_(g[n - 1], n)
  <2> DEFINE b == n - 1
  <2>1. b \in Nat /\ b + 1 = n /\ 0 + P <= P
    OBVIOUS
  <2>2. g[n] = AccOf(b + 1, 0, P, limit) /\ g[n - 1] = AccOf(b, 0, P, limit)
    OBVIOUS
  <2>3. (n - 1) * (64 * P) = (b * P + 0) * 64
    OBVIOUS
  <2> HIDE DEF b, g
  <2>4. X3!Accumulate(AccOf(b, 0, P, limit), X3!StripesAt((b * P + 0) * 64, P), 0 * 8)
          = AccOf(b, 0 + P, P, limit)
    BY <2>1, AccumulateIs
  <2>5. X3!Scramble(AccOf(b, P, P, limit), limit) = AccOf(b + 1, 0, P, limit)
    BY <2>1, ScrambleIs
  <2>6. 0 * 8 = 0 /\ 0 + P = P
    OBVIOUS
  <2> QED
    BY <2>2, <2>3, <2>4, <2>5, <2>6
<1>2. g[0] = <<>>
  <2>1. AccOf(0, 0, P, limit) \in [1..0 * (P + 1) + 0 -> Mixes]
    BY AccOfType
  <2>2. 0 * (P + 1) + 0 = 0
    OBVIOUS
  <2>3. AccOf(0, 0, P, limit) = <<>>
    BY <2>1, <2>2
  <2> QED
    BY <2>3
<1>3. Blocks(blocks, 64 * P, P, limit, g)
  <2>1. g = [n \in 0..blocks |-> g[n]]
    OBVIOUS
  <2> HIDE DEF g
  <2>2. [n \in 0..blocks |-> g[n]] = [n \in 0..blocks |-> IF n = 0 THEN <<>> ELSE Next_(g[n - 1], n)]
    BY <1>1, <1>2
  <2> QED
    BY <2>1, <2>2 DEF Blocks, X3!InitAcc
<1> HIDE DEF g
<1>4. Blocks(blocks, 64 * P, P, limit, last)
  BY <1>3 DEF AllBlocks
<1> HIDE DEF last, Next_
<1>5. ASSUME NEW f, Blocks(blocks, 64 * P, P, limit, f)
      PROVE  f[0] = <<>> /\ \A n \in 1..blocks : f[n] = Next_(f[n - 1], n)
  BY <1>5 DEF Blocks, Next_, X3!InitAcc
<1>6. \A n \in 0..blocks : last[n] = g[n]
  <2>1. last[0] = <<>> /\ \A n \in 1..blocks : last[n] = Next_(last[n - 1], n)
    BY <1>4, <1>5
  <2>2. g[0] = <<>> /\ \A n \in 1..blocks : g[n] = Next_(g[n - 1], n)
    BY <1>3, <1>5
  <2>3. \A n \in 1..blocks : last[n - 1] = g[n - 1] => last[n] = g[n]
    BY <2>1, <2>2
  <2> QED
    BY <2>1, <2>2, <2>3, AgreeByStep
<1>7. last[blocks] = AccOf(blocks, 0, P, limit)
  BY <1>6 DEF g
<1> QED
  BY <1>7 DEF last

(* The size of a secret, and what is derived from it.                       *)
LEMMA PerBlock ==
  ASSUME NEW size \in Nat, size >= 136
  PROVE  /\ X3!StripesPerBlock(size) \in Nat /\ X3!StripesPerBlock(size) >= 9
         /\ X3!StripesPerBlock(size) * 8 <= size - 64 /\ size - 64 \in Nat
         /\ X3!StripesPerBlock(size) = (size - 64) \div 8
BY DEF X3!StripesPerBlock, X3!StripeLen, X3!ConsumeRate

(* A long input in one shot: every whole stripe but perhaps the last, in    *)
(* blocks, and then the last 64 bytes.                                      *)
LEMMA LongLoopIs ==
  ASSUME NEW size \in Nat, size >= 136, NEW P \in Nat, P = X3!StripesPerBlock(size),
         NEW len \in Nat, NEW b \in Nat, NEW r \in 0..P - 1,
         len - StripesIn(b, r, P) * 64 \in 1..64
  PROVE  X3!LongLoop(len, size)
           = X3!AccumulateOne(AccOf(b, r, P, size - 64), <<len - 64, 64>>, size - 64 - 7)
<1>1. PICK e \in 1..64 : len = StripesIn(b, r, P) * 64 + e
  <2>1. P \in Nat /\ r \in Nat
    OBVIOUS
  <2>2. b * P \in Nat
    OBVIOUS
  <2>3. StripesIn(b, r, P) \in Nat
    BY <2>1, <2>2 DEF StripesIn
  <2> DEFINE e == len - StripesIn(b, r, P) * 64
  <2>4. e \in 1..64 /\ len = StripesIn(b, r, P) * 64 + e
    BY <2>3
  <2> QED
    BY <2>4
<1> DEFINE limit == size - 64
           y     == b * P
           B     == 64 * P
<1>2. P > 0 /\ limit \in Nat /\ y \in Nat /\ B \in Nat /\ B > 0
  BY PerBlock
<1>3. b * B = y * 64
  OBVIOUS
<1> HIDE DEF y
<1>4. len - 1 = b * B + (r * 64 + e - 1) /\ r * 64 + e - 1 \in 0..B - 1
  <2>1. len = (y + r) * 64 + e
    BY <1>1 DEF y, StripesIn
  <2>2. r * 64 + e - 1 \in 0..B - 1
    OBVIOUS
  <2> DEFINE x == b * B
  <2> HIDE DEF x, B
  <2>3. x = y * 64
    BY <1>3 DEF x
  <2>4. len - 1 = x + (r * 64 + e - 1)
    <3>1. \A i \in Nat : (i + r) * 64 + e - 1 = i * 64 + (r * 64 + e - 1)
      OBVIOUS
    <3> QED
      BY <1>2, <2>1, <2>3, <3>1
  <2> QED
    BY <2>2, <2>4 DEF x
<1> HIDE DEF limit, B
<1>5. (len - 1) \div B = b
  <2> DEFINE z == r * 64 + e - 1
  <2> HIDE DEF z
  <2>1. (b * B + z) \div B = b
    BY <1>2, <1>4, QuotientRest DEF z
  <2> QED
    BY <1>4, <2>1 DEF z
<1>6. (len - 1 - B * b) \div 64 = r
  <2> DEFINE x == b * B
  <2>1. B * b = x /\ x \in Nat
    BY <1>2
  <2> HIDE DEF x
  <2>2. len - 1 - B * b = r * 64 + (e - 1)
    BY <1>4, <2>1 DEF x
  <2>3. (r * 64 + (e - 1)) \div 64 = r
    OBVIOUS
  <2> QED
    BY <2>2, <2>3
<1>7. AllBlocks(b, B, P, limit)[b] = AccOf(b, 0, P, limit)
  <2>1. P > 0 /\ limit \in Nat
    BY <1>2
  <2>2. B = 64 * P
    BY DEF B
  <2>3. \A p, l, n \in Nat : p > 0 => AllBlocks(n, 64 * p, p, l)[n] = AccOf(n, 0, p, l)
    BY BlocksAre
  <2>4. \A l \in Nat : AllBlocks(b, 64 * P, P, l)[b] = AccOf(b, 0, P, l)
    <3>1. P \in Nat /\ b \in Nat /\ P > 0
      BY <2>1
    <3> QED
      BY ONLY <3>1, <2>3
  <2>5. AllBlocks(b, 64 * P, P, limit)[b] = AccOf(b, 0, P, limit)
    BY ONLY <2>1, <2>4
  <2> QED
    BY ONLY <2>2, <2>5
<1>8. X3!Accumulate(AccOf(b, 0, P, limit), X3!StripesAt(b * B, r), 0) = AccOf(b, r, P, limit)
  <2>1. r \in Nat /\ 0 + r <= P /\ 0 + r = r /\ 0 * 8 = 0 /\ 0 \in Nat
    OBVIOUS
  <2>2. b * B = (b * P + 0) * 64
    BY <1>2, <1>3 DEF y
  <2>3. X3!Accumulate(AccOf(b, 0, P, limit), X3!StripesAt((b * P + 0) * 64, r), 0 * 8) = AccOf(b, 0 + r, P, limit)
    <3>1. limit \in Nat
      BY <1>2
    <3> QED
      BY <2>1, <3>1, AccumulateIs
  <2> QED
    BY <2>1, <2>2, <2>3
<1>9. X3!LongLoop(len, size)
        = LET blocks == (len - 1) \div (64 * P)
              rest   == (len - 1 - (64 * P) * blocks) \div 64
          IN  X3!AccumulateOne(X3!Accumulate(AllBlocks(blocks, 64 * P, P, size - 64)[blocks],
                                             X3!StripesAt(blocks * (64 * P), rest), 0),
                               <<len - 64, 64>>, size - 64 - 7)
  BY DEF X3!LongLoop, X3!StripeLen, X3!LastAccStart, AllBlocks, Blocks
<1> QED
  BY <1>5, <1>6, <1>7, <1>8, <1>9 DEF B, limit

--------------------------------------------------------------------------------
(* XXH3: the state.                                                         *)

(* Bytes in order are read as a window of the input.                        *)
LEMMA WindowInOrder ==
  ASSUME NEW n \in Nat, n > 0, NEW start \in Nat, NEW bytes \in [1..n -> Int],
         \A k \in 1..n : bytes[k] = start + k - 1
  PROVE  X3!Window(bytes) = <<start, n>>
<1>1. DOMAIN bytes = 1..n /\ Len(bytes) = n
  OBVIOUS
<1>2. 1 \in 1..n /\ bytes[1] = start
  <2>1. 1 \in 1..n /\ start + 1 - 1 = start
    OBVIOUS
  <2> QED
    BY <2>1
<1>3. \A k \in DOMAIN bytes : bytes[k] # -1 /\ bytes[k] = bytes[1] + k - 1
  BY <1>1, <1>2
<1> QED
  BY <1>1, <1>2, <1>3 DEF X3!Window, X3!Old

(* Stripes of a buffer that holds the input from a position on.             *)
LEMMA StripesInOrder ==
  ASSUME NEW start \in Nat, NEW n \in Nat, NEW buf \in [0..255 -> Int], n * 64 <= 256,
         \A i \in 0..n * 64 - 1 : buf[i] = start + i
  PROVE  [k \in 1..n |-> X3!Window([j \in 1..64 |-> buf[(k - 1) * 64 + j - 1]])]
           = X3!StripesAt(start, n)
<1>1. ASSUME NEW k \in 1..n
      PROVE  X3!Window([j \in 1..64 |-> buf[(k - 1) * 64 + j - 1]]) = <<start + (k - 1) * 64, 64>>
  <2> DEFINE bytes == [j \in 1..64 |-> buf[(k - 1) * 64 + j - 1]]
             from  == start + (k - 1) * 64
  <2>1. k \in Int /\ k >= 1 /\ k <= n
    OBVIOUS
  <2>2. from \in Nat /\ (k - 1) * 64 \in Nat /\ (k - 1) * 64 + 64 <= n * 64
    BY <2>1
  <2>3. ASSUME NEW j \in 1..64 PROVE bytes[j] \in Int /\ bytes[j] = from + j - 1
    <3> DEFINE i == (k - 1) * 64 + j - 1
    <3>1. i \in 0..n * 64 - 1 /\ i \in 0..255 /\ start + i = from + j - 1
      BY <2>1, <2>2
    <3>2. bytes[j] = buf[i]
      OBVIOUS
    <3> HIDE DEF i, bytes, from
    <3>3. buf[i] = start + i /\ buf[i] \in Int
      BY <3>1
    <3> QED
      BY <3>1, <3>2, <3>3
  <2>4. bytes \in [1..64 -> Int]
    BY <2>3
  <2>5. from \in Nat /\ \A j \in 1..64 : bytes[j] = from + j - 1
    BY <2>2, <2>3
  <2> HIDE DEF bytes, from
  <2>6. 64 \in Nat /\ 64 > 0
    OBVIOUS
  <2>7. X3!Window(bytes) = <<from, 64>>
    BY ONLY <2>4, <2>5, <2>6, WindowInOrder, ZenonT(40)
  <2> QED
    BY <2>7 DEF bytes, from
<1> QED
  BY <1>1 DEF X3!StripesAt, X3!StripeLen

(* How the state was reset.                                                 *)
ResetIs ==
  \/ reset.variant = "none"
  \/ /\ reset = X3!Called("plain", X3!kSecret, 0)
     /\ seed = 0 /\ useSeed = FALSE /\ extSecret = X3!kSecret /\ secretLimit = 192 - 64
  \/ \E n \in UserSizes :
       /\ reset = X3!Called("secret", X3!UserSecret(n), 0)
       /\ seed = 0 /\ useSeed = FALSE /\ extSecret = X3!UserSecret(n) /\ secretLimit = n - 64
  \/ \E s \in Seeds \ {0} :
       /\ reset = X3!Called("seed", X3!NullSecret, s)
       /\ seed = s /\ useSeed = TRUE /\ extSecret = X3!NullSecret /\ secretLimit = 192 - 64
  \/ \E n \in UserSizes, s \in Seeds :
       /\ reset = X3!Called("secretAndSeed", X3!UserSecret(n), s)
       /\ seed = s /\ useSeed = TRUE /\ extSecret = X3!UserSecret(n) /\ secretLimit = n - 64

(* What the state holds of the input: whole stripes are in the accumulators *)
(* and the rest in the buffer, whose end holds the stripe before the rest   *)
(* as far as the rest has not run over it.                                  *)
Held ==
  /\ nbStripesSoFar \in 0..nbStripesPerBlock - 1
  /\ totalLen \in Nat /\ bufferedSize \in 0..256 /\ buffer \in [0..255 -> Int]
  /\ \E b \in Nat : /\ totalLen = StripesIn(b, nbStripesSoFar, nbStripesPerBlock) * 64 + bufferedSize
                    /\ acc = AccOf(b, nbStripesSoFar, nbStripesPerBlock, secretLimit)
  /\ \A i \in 0..bufferedSize - 1 : buffer[i] = totalLen - bufferedSize + i
  /\ totalLen > bufferedSize =>
       /\ bufferedSize >= 1 /\ totalLen > 256
       /\ \A i \in 192..255 : i >= bufferedSize => buffer[i] = totalLen - bufferedSize - 256 + i

(* Once XXH3 is reset: the block fits the secret, and Held.  Always: what   *)
(* the last reset set, and the secret derived from the seed in use.         *)
Xxh3Inv ==
  /\ extSecret = X3!NullSecret /\ seed # 0 => customSecret = X3!CustomSecret(seed)
  /\ ResetIs
  /\ IsReset =>
       /\ secretLimit \in Nat /\ secretLimit + 64 >= 136
       /\ nbStripesPerBlock = X3!StripesPerBlock(secretLimit + 64)
       /\ Held

(* Before the first stripe the accumulators have taken nothing.             *)
LEMMA NoStripes ==
  ASSUME NEW P \in Nat, NEW limit \in Nat
  PROVE  AccOf(0, 0, P, limit) = <<>> /\ StripesIn(0, 0, P) = 0
<1>1. AccOf(0, 0, P, limit) \in [1..0 * (P + 1) + 0 -> Mixes]
  BY AccOfType
<1>2. 0 * (P + 1) + 0 = 0 /\ 0 * P + 0 = 0
  OBVIOUS
<1> QED
  BY <1>1, <1>2 DEF StripesIn

(* A reset leaves an empty input.                                           *)
LEMMA ResetHeld ==
  ASSUME NEW size \in Nat, size >= 136, NEW s, NEW use, NEW secret,
         X3!ResetInternal(s, use, secret, size)
  PROVE  /\ secretLimit' = size - 64 /\ secretLimit' \in Nat /\ secretLimit' + 64 >= 136
         /\ nbStripesPerBlock' = X3!StripesPerBlock(secretLimit' + 64)
         /\ Held'
         /\ useSeed' = use /\ seed' = s /\ extSecret' = secret
<1>1. /\ acc' = <<>> /\ buffer' = [o \in 0..255 |-> -1] /\ bufferedSize' = 0 /\ nbStripesSoFar' = 0
      /\ totalLen' = 0 /\ useSeed' = use /\ seed' = s /\ extSecret' = secret
      /\ secretLimit' = size - 64 /\ nbStripesPerBlock' = secretLimit' \div 8
  BY DEF X3!ResetInternal, X3!InitAcc, X3!BufferSize, X3!Old, X3!StripeLen, X3!ConsumeRate
<1>2. secretLimit' \in Nat /\ secretLimit' + 64 = size
  BY <1>1
<1>3. nbStripesPerBlock' = X3!StripesPerBlock(size) /\ nbStripesPerBlock' \in Nat /\ nbStripesPerBlock' >= 9
  BY <1>1, PerBlock
<1>4. Held'
  <2>1. buffer' \in [0..255 -> Int]
    BY <1>1
  <2>2. totalLen' = StripesIn(0, 0, nbStripesPerBlock') * 64 + bufferedSize'
        /\ acc' = AccOf(0, 0, nbStripesPerBlock', secretLimit')
    <3> DEFINE P == nbStripesPerBlock'
               l == secretLimit'
    <3>1. P \in Nat /\ l \in Nat
      BY <1>2, <1>3
    <3> HIDE DEF P, l
    <3>2. AccOf(0, 0, P, l) = <<>> /\ StripesIn(0, 0, P) = 0
      BY <3>1, NoStripes
    <3>3. totalLen' = 0 * 64 + bufferedSize'
      BY <1>1
    <3> QED
      BY <1>1, <3>2, <3>3 DEF P, l
  <2>3. \E b \in Nat : /\ totalLen' = StripesIn(b, nbStripesSoFar', nbStripesPerBlock') * 64 + bufferedSize'
                       /\ acc' = AccOf(b, nbStripesSoFar', nbStripesPerBlock', secretLimit')
    BY <1>1, <2>2
  <2>4. 0..bufferedSize' - 1 = {} /\ ~(totalLen' > bufferedSize') /\ nbStripesSoFar' \in 0..nbStripesPerBlock' - 1
        /\ totalLen' \in Nat /\ bufferedSize' \in 0..256
    BY <1>1, <1>3
  <2> QED
    BY <2>1, <2>3, <2>4 DEF Held
<1> QED
  BY <1>1, <1>2, <1>3, <1>4

(* The streams start with no reset of XXH3.                                 *)
LEMMA Xxh3InitInv == StreamInit => Xxh3Inv
BY DEF StreamInit, X3!Init3, Xxh3Inv, ResetIs, IsReset, X3!Called

(* The secrets can be told apart.                                           *)
LEMMA SecretsDiffer ==
  /\ X3!kSecret # X3!NullSecret
  /\ \A n \in Nat : X3!UserSecret(n) # X3!NullSecret
BY DEF X3!kSecret, X3!NullSecret, X3!UserSecret, X3!Secret

(* What a reset records of itself.                                          *)
LEMMA VariantOf ==
  ASSUME NEW variant, NEW secret, NEW s
  PROVE  /\ X3!Called(variant, secret, s).variant = variant
         /\ X3!Called(variant, secret, s).secret = secret
         /\ X3!Called(variant, secret, s).seed = s
BY DEF X3!Called

(* A reset with any secret and any seed.                                    *)
LEMMA ResetInv ==
  ASSUME Xxh3Inv, NEW size \in Nat, size >= 136, NEW s, NEW use, NEW secret,
         X3!ResetInternal(s, use, secret, size),
         secret = X3!NullSecret /\ s # 0 => customSecret' = X3!CustomSecret(s),
         ResetIs'
  PROVE  Xxh3Inv'
BY ResetHeld DEF Xxh3Inv

(* A reset with the default secret and no seed.                             *)
LEMMA ResetPlainInv ==
  ASSUME Xxh3Inv, X3!ResetPlain
  PROVE  Xxh3Inv'
<1>1. X3!ResetInternal(0, FALSE, X3!kSecret, 192) /\ reset' = X3!Called("plain", X3!kSecret, 0)
  BY DEF X3!ResetPlain, X3!SecretSize
<1>2. seed' = 0 /\ useSeed' = FALSE /\ extSecret' = X3!kSecret /\ secretLimit' = 192 - 64
  BY <1>1 DEF X3!ResetInternal, X3!StripeLen
<1>3. ResetIs'
  BY <1>1, <1>2 DEF ResetIs
<1>4. 192 \in Nat /\ 192 >= 136 /\ X3!kSecret # X3!NullSecret
  BY SecretsDiffer
<1> QED
  BY <1>1, <1>3, <1>4, ResetInv

(* Every reset of XXH3.                                                     *)
LEMMA ResetInvs ==
  ASSUME Xxh3Inv, X3!Reset3
  PROVE  Xxh3Inv'
<1>1. 192 \in Nat /\ 192 >= 136
  OBVIOUS
<1>2. CASE X3!ResetPlain
  BY <1>2, ResetPlainInv
<1>3. CASE X3!ResetWithNullSecret
  <2>1. X3!ResetInternal(0, FALSE, X3!NullSecret, 192) /\ reset' = X3!Called("none", X3!NullSecret, 0)
    BY <1>3 DEF X3!ResetWithNullSecret, X3!ResetRefused, X3!SecretSize
  <2>2. ResetIs'
    BY <2>1, VariantOf DEF ResetIs
  <2> QED
    BY <1>1, <2>1, <2>2, ResetInv
<1>r. CASE X3!ResetWithShortSecret
  <2>1. seed' = 0 /\ reset' = X3!Called("none", X3!NullSecret, 0)
    BY <1>r DEF X3!ResetWithShortSecret, X3!ResetRefused, X3!ResetInternal
  <2>2. reset'.variant = "none"
    BY <2>1, VariantOf
  <2> QED
    BY <2>1, <2>2 DEF Xxh3Inv, ResetIs, IsReset
<1>4. ASSUME NEW n \in UserSizes, X3!ResetWithSecret(n) PROVE Xxh3Inv'
  <2>1. X3!ResetInternal(0, FALSE, X3!UserSecret(n), n) /\ reset' = X3!Called("secret", X3!UserSecret(n), 0)
    BY <1>4 DEF X3!ResetWithSecret
  <2>2. seed' = 0 /\ useSeed' = FALSE /\ extSecret' = X3!UserSecret(n) /\ secretLimit' = n - 64
    BY <2>1 DEF X3!ResetInternal, X3!StripeLen
  <2>3. ResetIs'
    BY <2>1, <2>2 DEF ResetIs
  <2>4. n \in Nat /\ n >= 136
    BY XxhAssumption
  <2> QED
    BY <2>1, <2>3, <2>4, SecretsDiffer, ResetInv
<1>5. ASSUME NEW s \in Seeds, X3!ResetWithSeed(s) PROVE Xxh3Inv'
  <2>1. CASE s = 0
    BY <1>5, <2>1, ResetPlainInv DEF X3!ResetWithSeed
  <2>2. CASE s # 0
    <3>1. /\ X3!ResetInternal(s, TRUE, X3!NullSecret, 192)
          /\ reset' = X3!Called("seed", X3!NullSecret, s)
          /\ customSecret' = IF s = seed /\ extSecret = X3!NullSecret THEN customSecret
                             ELSE X3!CustomSecret(s)
      BY <1>5, <2>2 DEF X3!ResetWithSeed, X3!SecretIsCached, X3!SecretSize
    <3>2. seed' = s /\ useSeed' = TRUE /\ extSecret' = X3!NullSecret /\ secretLimit' = 192 - 64
      BY <3>1 DEF X3!ResetInternal, X3!StripeLen
    <3>3. ResetIs'
      BY <2>2, <3>1, <3>2 DEF ResetIs
    <3>4. customSecret' = X3!CustomSecret(s)
      BY <2>2, <3>1 DEF Xxh3Inv
    <3> QED
      BY <1>1, <3>1, <3>3, <3>4, ResetInv
  <2> QED
    BY <2>1, <2>2
<1>6. ASSUME NEW n \in UserSizes, NEW s \in Seeds, X3!ResetWithSecretAndSeed(n, s) PROVE Xxh3Inv'
  <2>1. /\ X3!ResetInternal(s, TRUE, X3!UserSecret(n), n)
        /\ reset' = X3!Called("secretAndSeed", X3!UserSecret(n), s)
    BY <1>6 DEF X3!ResetWithSecretAndSeed
  <2>2. seed' = s /\ useSeed' = TRUE /\ extSecret' = X3!UserSecret(n) /\ secretLimit' = n - 64
    BY <2>1 DEF X3!ResetInternal, X3!StripeLen
  <2>3. ResetIs'
    BY <2>1, <2>2 DEF ResetIs
  <2>4. n \in Nat /\ n >= 136
    BY XxhAssumption
  <2> QED
    BY <2>1, <2>3, <2>4, SecretsDiffer, ResetInv
<1> QED
  BY <1>2, <1>3, <1>r, <1>4, <1>5, <1>6 DEF X3!Reset3

(* An update that fits in the buffer.                                       *)
LEMMA Xxh3FillInv ==
  ASSUME Xxh3Inv, NEW len \in Nat \ {0}, X3!Fill(len)
  PROVE  Xxh3Inv'
<1>1. /\ IsReset /\ bufferedSize + len <= 256
      /\ totalLen' = totalLen + len
      /\ buffer' = X3!Store(buffer, bufferedSize, totalLen, len)
      /\ bufferedSize' = bufferedSize + len
      /\ UNCHANGED <<acc, nbStripesSoFar, customSecret, useSeed, secretLimit,
                     nbStripesPerBlock, seed, extSecret, reset>>
  <2>1. bufferedSize \in Nat
    BY DEF X3!Fill, X3!CanUpdate, IsReset, Xxh3Inv, Held
  <2>2. len <= 256 - bufferedSize
    BY DEF X3!Fill, X3!Fits, X3!BufferSize
  <2> QED
    BY <2>1, <2>2 DEF X3!Fill, X3!CanUpdate, X3!settings, IsReset
<1>2. Held
  BY <1>1 DEF Xxh3Inv
<1>3. /\ totalLen \in Nat /\ bufferedSize \in 0..256 /\ buffer \in [0..255 -> Int]
      /\ \A i \in 0..bufferedSize - 1 : buffer[i] = totalLen - bufferedSize + i
      /\ nbStripesSoFar \in 0..nbStripesPerBlock - 1
  BY <1>2 DEF Held
<1>4. PICK b \in Nat : /\ totalLen = StripesIn(b, nbStripesSoFar, nbStripesPerBlock) * 64 + bufferedSize
                       /\ acc = AccOf(b, nbStripesSoFar, nbStripesPerBlock, secretLimit)
  BY <1>2 DEF Held
<1>5. buffer' = [i \in 0..255 |-> IF i \in bufferedSize..bufferedSize + len - 1
                                  THEN totalLen + i - bufferedSize ELSE buffer[i]]
  BY <1>1, <1>3 DEF X3!Store
<1>6. buffer' \in [0..255 -> Int] /\ bufferedSize' \in 0..256 /\ totalLen' \in Nat
  BY <1>1, <1>3, <1>5, SMTT(30)
<1>7. \A i \in 0..bufferedSize' - 1 : buffer'[i] = totalLen' - bufferedSize' + i
  <2> SUFFICES ASSUME NEW i \in 0..bufferedSize' - 1 PROVE buffer'[i] = totalLen' - bufferedSize' + i
    OBVIOUS
  <2>1. i \in 0..255 /\ i <= bufferedSize + len - 1
    BY <1>1, <1>3
  <2>2. CASE i < bufferedSize
    BY <1>1, <1>3, <1>5, <2>1, <2>2, SMTT(30)
  <2>3. CASE i >= bufferedSize
    BY <1>1, <1>3, <1>5, <2>1, <2>3
  <2> QED
    BY <1>3, <2>1, <2>2, <2>3
<1>8. totalLen' - bufferedSize' = totalLen - bufferedSize /\ totalLen' >= totalLen
      /\ bufferedSize' >= bufferedSize
  BY <1>1, <1>3
<1>9. totalLen' > bufferedSize' =>
        /\ bufferedSize' >= 1 /\ totalLen' > 256
        /\ \A i \in 192..255 : i >= bufferedSize' => buffer'[i] = totalLen' - bufferedSize' - 256 + i
  <2> SUFFICES ASSUME totalLen' > bufferedSize'
               PROVE  /\ bufferedSize' >= 1 /\ totalLen' > 256
                      /\ \A i \in 192..255 : i >= bufferedSize' => buffer'[i] = totalLen' - bufferedSize' - 256 + i
    OBVIOUS
  <2>1. totalLen > bufferedSize
    BY <1>1, <1>3
  <2>2. /\ bufferedSize >= 1 /\ totalLen > 256
        /\ \A i \in 192..255 : i >= bufferedSize => buffer[i] = totalLen - bufferedSize - 256 + i
    BY <1>2, <2>1 DEF Held
  <2>3. \A i \in 192..255 : i >= bufferedSize => buffer[i] = totalLen - bufferedSize - 256 + i
    BY <2>2
  <2>4. ASSUME NEW i \in 192..255, i >= bufferedSize'
        PROVE  buffer'[i] = totalLen' - bufferedSize' - 256 + i
    <3>1. buffer'[i] = buffer[i] /\ i >= bufferedSize
      BY <1>1, <1>3, <1>5, <2>4, SMTT(30)
    <3>2. buffer[i] = totalLen - bufferedSize - 256 + i
      BY <2>3, <3>1
    <3> QED
      BY <1>8, <3>1, <3>2
  <2>5. bufferedSize' >= 1 /\ totalLen' > 256
    BY <1>1, <1>3, <1>8, <2>2
  <2> QED
    BY <2>4, <2>5
<1>10. \E c \in Nat : /\ totalLen' = StripesIn(c, nbStripesSoFar', nbStripesPerBlock') * 64 + bufferedSize'
                      /\ acc' = AccOf(c, nbStripesSoFar', nbStripesPerBlock', secretLimit')
  <2> DEFINE x == StripesIn(b, nbStripesSoFar, nbStripesPerBlock) * 64
  <2>1. totalLen = x + bufferedSize
    BY <1>4
  <2>2. x \in Int
    <3>1. nbStripesPerBlock \in Nat /\ nbStripesSoFar \in Nat
      BY <1>1, <1>3, PerBlock DEF Xxh3Inv
    <3>2. StripesIn(b, nbStripesSoFar, nbStripesPerBlock) \in Int
      BY <3>1 DEF StripesIn
    <3> QED
      BY <3>2
  <2> HIDE DEF x
  <2>3. totalLen' = x + bufferedSize'
    BY <1>1, <1>3, <2>1, <2>2
  <2> QED
    BY <1>1, <1>4, <2>3 DEF x
<1>11. nbStripesSoFar' \in 0..nbStripesPerBlock' - 1
  BY <1>1, <1>3
<1>12. Held'
  BY <1>6, <1>7, <1>9, <1>10, <1>11 DEF Held
<1>13. ResetIs'
  BY <1>1 DEF ResetIs, Xxh3Inv
<1> QED
  BY <1>1, <1>12, <1>13 DEF Xxh3Inv, IsReset

(* The number of stripes taken is a number.                                 *)
LEMMA StripesInType ==
  ASSUME NEW P \in Nat, NEW b \in Nat, NEW r \in Nat
  PROVE  StripesIn(b, r, P) \in Nat
<1>1. b * P \in Nat
  OBVIOUS
<1> QED
  BY <1>1 DEF StripesIn

(* After m stripes come the n that follow.                                  *)
LEMMA NextStripes ==
  ASSUME nbStripesPerBlock \in Nat, nbStripesPerBlock > 0, secretLimit \in Nat,
         NEW r, NEW m \in Nat, TakenStripes(r, m, nbStripesPerBlock, secretLimit), NEW n \in Nat,
         NEW from, from = m * 64
  PROVE  TakenStripes(X3!ConsumeStripes(r.acc, r.soFar, X3!StripesAt(from, n)), m + n, nbStripesPerBlock, secretLimit)
<1>1. PICK c \in Nat, s \in 0..nbStripesPerBlock - 1 :
        StripesIn(c, s, nbStripesPerBlock) = m /\ r = [acc |-> AccOf(c, s, nbStripesPerBlock, secretLimit), soFar |-> s]
  BY DEF TakenStripes
<1> DEFINE two == X3!ConsumeStripes(AccOf(c, s, nbStripesPerBlock, secretLimit), s, X3!StripesAt(from, n))
           sum == m + n
<1>2. m = StripesIn(c, s, nbStripesPerBlock) /\ sum = m + n
  BY <1>1
<1> HIDE DEF sum
<1>3. TakenStripes(X3!ConsumeStripes(AccOf(c, s, nbStripesPerBlock, secretLimit), s, X3!StripesAt(from, n)), sum, nbStripesPerBlock, secretLimit)
  BY <1>2, ConsumeStripesIs
<1>4. TakenStripes(two, m + n, nbStripesPerBlock, secretLimit)
  BY <1>3 DEF sum
<1>5. X3!ConsumeStripes(r.acc, r.soFar, X3!StripesAt(from, n)) = two
  BY <1>1
<1> QED
  BY <1>4, <1>5

(* Bytes of a buffer that are in order: byte i is the input's base + i.     *)
InOrder(buf, from, to, base) == \A i \in from..to - 1 : buf[i] = base + i

(* The four stripes of the buffer.                                          *)
StripesOf(buf) == [k \in 1..4 |-> X3!Window([j \in 1..64 |-> buf[(k - 1) * 64 + j - 1]])]

(* full is buf, which holds size bytes of the input from base on, with load *)
(* more of them, from position len on.                                      *)
Filled(buf, size, base, len, load, full) ==
  /\ buf \in [0..255 -> Int] /\ size \in 1..256 /\ base \in Int /\ InOrder(buf, 0, size, base)
  /\ len \in Nat /\ len = base + size /\ load = 256 - size
  /\ full = X3!Store(buf, size, len, load)

(* The first step of an update that overflows the buffer: it is filled up,  *)
LEMMA FillUp ==
  ASSUME NEW buf, NEW size, NEW base, NEW len, NEW load, NEW full,
         Filled(buf, size, base, len, load, full)
  PROVE  /\ full \in [0..255 -> Int]
         /\ InOrder(full, 0, 256, base)
<1> SUFFICES ASSUME buf \in [0..255 -> Int], size \in 1..256, base \in Int,
                    InOrder(buf, 0, size, base), len \in Nat, len = base + size,
                    load = 256 - size, full = X3!Store(buf, size, len, load)
             PROVE  full \in [0..255 -> Int] /\ InOrder(full, 0, 256, base)
  BY DEF Filled
<1>1. full = [i \in 0..255 |-> IF i \in size..size + load - 1 THEN len + i - size ELSE buf[i]]
  BY DEF X3!Store
<1>2. ASSUME NEW i \in 0..255 PROVE full[i] = base + i /\ full[i] \in Int
  <2>1. full[i] = IF i \in size..size + load - 1 THEN len + i - size ELSE buf[i]
    BY <1>1
  <2>2. CASE i < size
    <3>1. full[i] = buf[i] /\ i \in 0..size - 1
      BY <2>1, <2>2
    <3> QED
      BY <3>1 DEF InOrder
  <2>3. CASE i >= size
    <3>1. i \in size..size + load - 1 /\ len + i - size = base + i /\ base + i \in Int
      BY <2>3
    <3> QED
      BY <2>1, <3>1
  <2> QED
    BY <2>2, <2>3
<1>3. full = [i \in 0..255 |-> full[i]]
  BY <1>1
<1>4. full \in [0..255 -> Int]
  BY ONLY <1>2, <1>3
<1> QED
  BY <1>2, <1>4, SMTT(30) DEF InOrder

(* and its stripes are consumed.                                            *)
LEMMA FullStripes ==
  ASSUME nbStripesPerBlock \in Nat, nbStripesPerBlock > 0, secretLimit \in Nat,
         NEW r, NEW m \in Nat, TakenStripes(r, m, nbStripesPerBlock, secretLimit),
         NEW full \in [0..255 -> Int], NEW base, base = m * 64, InOrder(full, 0, 256, base)
  PROVE  TakenStripes(X3!ConsumeStripes(r.acc, r.soFar, StripesOf(full)), m + 4,
                      nbStripesPerBlock, secretLimit)
<1>1. base \in Nat
  OBVIOUS
<1>2. \A i \in 0..255 : full[i] = base + i
  BY DEF InOrder
<1>3. StripesOf(full) = X3!StripesAt(base, 4)
  <2>1. 0..4 * 64 - 1 = 0..255
    OBVIOUS
  <2>2. 4 \in Nat /\ 4 * 64 <= 256
    OBVIOUS
  <2>3. \A i \in 0..4 * 64 - 1 : full[i] = base + i
    BY ONLY <1>2, <2>1
  <2>4. full \in [0..255 -> Int]
    OBVIOUS
  <2> QED
    BY ONLY <1>1, <2>2, <2>3, <2>4, StripesInOrder DEF StripesOf
<1>4. \A n \in Nat : TakenStripes(X3!ConsumeStripes(r.acc, r.soFar, X3!StripesAt(base, n)), m + n,
                                  nbStripesPerBlock, secretLimit)
  BY <1>1, NextStripes
<1>5. 4 \in Nat
  OBVIOUS
<1> QED
  BY ONLY <1>3, <1>4, <1>5

(* In the end the last stripe is kept at the end of the buffer.             *)
LEMMA KeptStripe ==
  ASSUME NEW full \in [0..255 -> Int], NEW from \in Nat, NEW base, base = from - 256
  PROVE  /\ X3!KeepLastStripe(full, from) \in [0..255 -> Int]
         /\ InOrder(X3!KeepLastStripe(full, from), 192, 256, base)
<1>1. X3!KeepLastStripe(full, from)
        = [i \in 0..255 |-> IF i \in 192..192 + 64 - 1 THEN from - 64 + i - 192 ELSE full[i]]
  BY DEF X3!KeepLastStripe, X3!BufferSize, X3!StripeLen, X3!Store
<1> QED
  BY <1>1 DEF InOrder

(* The stripes that have been taken, as one number.                         *)
LEMMA HeldStripes ==
  ASSUME Xxh3Inv, IsReset
  PROVE  /\ nbStripesPerBlock \in Nat /\ nbStripesPerBlock > 0 /\ secretLimit \in Nat
         /\ \E m \in Nat : /\ totalLen = m * 64 + bufferedSize
                           /\ TakenStripes([acc |-> acc, soFar |-> nbStripesSoFar], m,
                                           nbStripesPerBlock, secretLimit)
<1>1. Held /\ secretLimit \in Nat /\ nbStripesPerBlock \in Nat /\ nbStripesPerBlock > 0
  <2>1. /\ Held /\ secretLimit \in Nat /\ secretLimit + 64 >= 136
        /\ nbStripesPerBlock = X3!StripesPerBlock(secretLimit + 64)
    BY DEF Xxh3Inv
  <2> DEFINE size == secretLimit + 64
  <2>2. size \in Nat /\ size >= 136 /\ nbStripesPerBlock = X3!StripesPerBlock(size)
    BY <2>1
  <2> HIDE DEF size
  <2>3. X3!StripesPerBlock(size) \in Nat /\ X3!StripesPerBlock(size) >= 9
    BY <2>2, PerBlock
  <2> QED
    BY <2>1, <2>2, <2>3
<1>2. PICK b \in Nat : /\ totalLen = StripesIn(b, nbStripesSoFar, nbStripesPerBlock) * 64 + bufferedSize
                       /\ acc = AccOf(b, nbStripesSoFar, nbStripesPerBlock, secretLimit)
  BY <1>1 DEF Held
<1> DEFINE m == StripesIn(b, nbStripesSoFar, nbStripesPerBlock)
<1>3. nbStripesSoFar \in 0..nbStripesPerBlock - 1
  BY <1>1 DEF Held
<1>4. m \in Nat
  BY <1>1, <1>3, StripesInType
<1>5. TakenStripes([acc |-> acc, soFar |-> nbStripesSoFar], m, nbStripesPerBlock, secretLimit)
  BY <1>2, <1>3 DEF TakenStripes
<1> QED
  BY <1>1, <1>2, <1>4, <1>5

(* The other way round.                                                     *)
LEMMA StripesHeld ==
  ASSUME NEW P \in Nat, NEW limit, NEW m \in Nat, NEW r, TakenStripes(r, m, P, limit)
  PROVE  /\ r.soFar \in 0..P - 1
         /\ \E b \in Nat : StripesIn(b, r.soFar, P) = m /\ r.acc = AccOf(b, r.soFar, P, limit)
<1>1. PICK d \in Nat, t \in 0..P - 1 :
    StripesIn(d, t, P) = m /\ r = [acc |-> AccOf(d, t, P, limit), soFar |-> t]
  BY DEF TakenStripes
<1>2. r.soFar = t /\ r.acc = AccOf(d, t, P, limit)
  BY <1>1
<1> QED
  BY <1>1, <1>2

(* What an update that overflows the buffer leaves behind.                  *)
LEMMA NowHeld ==
  ASSUME nbStripesPerBlock \in Nat, secretLimit \in Nat, UNCHANGED <<secretLimit, nbStripesPerBlock>>,
         NEW size \in 1..256, NEW from \in Nat, from + size > 256,
         NEW kept \in [0..255 -> Int],
         NEW base \in Int, base = from - 256, InOrder(kept, 192, 256, base),
         NEW n \in Nat, from = n * 64,
         NEW two, TakenStripes(two, n, nbStripesPerBlock, secretLimit),
         totalLen' = from + size, bufferedSize' = size, buffer' = X3!Store(kept, 0, from, size),
         acc' = two.acc, nbStripesSoFar' = two.soFar
  PROVE  Held'
<1> DEFINE new == X3!Store(kept, 0, from, size)
<1>1. new = [i \in 0..255 |-> IF i \in 0..0 + size - 1 THEN from + i - 0 ELSE kept[i]]
  BY DEF X3!Store
<1> HIDE DEF new
<1>2. ASSUME NEW i \in 0..255
      PROVE  new[i] = (IF i < size THEN from + i ELSE kept[i]) /\ new[i] \in Int
  <2>1. new[i] = IF i \in 0..0 + size - 1 THEN from + i - 0 ELSE kept[i]
    BY <1>1
  <2>2. (i \in 0..0 + size - 1 <=> i < size) /\ from + i - 0 = from + i /\ from + i \in Int /\ kept[i] \in Int
    OBVIOUS
  <2> QED
    BY ONLY <2>1, <2>2
<1>3. new \in [0..255 -> Int]
  <2>1. new = [i \in 0..255 |-> new[i]]
    BY <1>1
  <2> QED
    BY ONLY <1>2, <2>1
<1>4. ASSUME NEW i \in 0..size - 1 PROVE new[i] = from + i
  <2>1. i \in 0..255 /\ i < size
    OBVIOUS
  <2> QED
    BY <1>2, <2>1, ZenonT(40)
<1>5. ASSUME NEW i \in 192..255, i >= size PROVE new[i] = from - 256 + i
  <2>1. i \in 0..255 /\ ~(i < size)
    BY <1>5
  <2>2. new[i] = kept[i]
    BY <1>2, <2>1, SMTT(30)
  <2> QED
    BY <1>5, <2>2 DEF InOrder
<1>6. /\ two.soFar \in 0..nbStripesPerBlock - 1
      /\ \E b \in Nat : StripesIn(b, two.soFar, nbStripesPerBlock) = n
                       /\ two.acc = AccOf(b, two.soFar, nbStripesPerBlock, secretLimit)
  BY StripesHeld
<1>7. totalLen' - bufferedSize' = from /\ totalLen' \in Nat /\ totalLen' = n * 64 + bufferedSize'
  OBVIOUS
<1>8. bufferedSize' \in 0..256 /\ bufferedSize' >= 1 /\ totalLen' > 256
  OBVIOUS
<1>9. \A i \in 0..bufferedSize' - 1 : buffer'[i] = totalLen' - bufferedSize' + i
  BY <1>4, <1>7 DEF new
<1>10. \A i \in 192..255 : i >= bufferedSize' => buffer'[i] = totalLen' - bufferedSize' - 256 + i
  BY <1>5, <1>7 DEF new
<1>11. buffer' \in [0..255 -> Int]
  BY <1>3 DEF new
<1>12. nbStripesSoFar' \in 0..nbStripesPerBlock' - 1
  BY <1>6
<1>13. \E b \in Nat : /\ totalLen' = StripesIn(b, nbStripesSoFar', nbStripesPerBlock') * 64 + bufferedSize'
                      /\ acc' = AccOf(b, nbStripesSoFar', nbStripesPerBlock', secretLimit')
  BY <1>6, <1>7
<1> QED
  BY <1>7, <1>8, <1>9, <1>10, <1>11, <1>12, <1>13 DEF Held

(* An update that overflows the buffer.                                     *)
LEMMA Xxh3ConsumeInv ==
  ASSUME Xxh3Inv, NEW len \in Nat \ {0}, X3!Consume(len)
  PROVE  Xxh3Inv'
<1> DEFINE old      == [acc |-> acc, soFar |-> nbStripesSoFar]
           loadSize == IF bufferedSize > 0 THEN 256 - bufferedSize ELSE 0
           full     == X3!Store(buffer, bufferedSize, totalLen, loadSize)
           one      == IF bufferedSize > 0
                       THEN X3!ConsumeStripes(acc, nbStripesSoFar,
                              [k \in 1..256 \div 64 |->
                                 X3!Window([j \in 1..64 |-> full[(k - 1) * 64 + j - 1]])])
                       ELSE old
           p        == totalLen + loadSize
           end      == totalLen + len
           direct   == end - p > 256
           stripes  == (end - 1 - p) \div 64
           two      == IF direct THEN X3!ConsumeStripes(one.acc, one.soFar, X3!StripesAt(p, stripes))
                       ELSE one
           from        == IF direct THEN p + stripes * 64 ELSE p
           kept     == IF direct THEN X3!KeepLastStripe(full, from) ELSE full
<1>1. /\ IsReset /\ ~(len <= 256 - bufferedSize)
      /\ totalLen' = end /\ acc' = two.acc /\ nbStripesSoFar' = two.soFar
      /\ buffer' = X3!Store(kept, 0, from, end - from) /\ bufferedSize' = end - from
      /\ UNCHANGED <<customSecret, useSeed, secretLimit, nbStripesPerBlock, seed, extSecret, reset>>
  BY DEF X3!Consume, X3!CanUpdate, X3!Fits, X3!settings, IsReset, X3!BufferSize, X3!StripeLen,
         X3!BufferStripes
<1>2. nbStripesPerBlock \in Nat /\ nbStripesPerBlock > 0 /\ secretLimit \in Nat
  BY <1>1, HeldStripes
<1>3. PICK m \in Nat : totalLen = m * 64 + bufferedSize /\ TakenStripes(old, m, nbStripesPerBlock, secretLimit)
  BY <1>1, HeldStripes
<1>4. /\ totalLen \in Nat /\ bufferedSize \in 0..256 /\ buffer \in [0..255 -> Int]
      /\ \A i \in 0..bufferedSize - 1 : buffer[i] = totalLen - bufferedSize + i
  BY <1>1, SMTT(30) DEF Xxh3Inv, Held
<1>5. /\ end \in Nat /\ end > 256 /\ p \in Nat /\ end - p >= 1
      /\ bufferedSize = 0 => end - p > 256
  BY <1>1, <1>3, <1>4, SMTT(30)
<1>6. /\ full \in [0..255 -> Int]
      /\ bufferedSize > 0 => \E base \in Int : base = p - 256 /\ InOrder(full, 0, 256, base)
      /\ \E k \in Nat : p = k * 64 /\ TakenStripes(one, k, nbStripesPerBlock, secretLimit)
  <2>1. CASE bufferedSize > 0
    <3>1. /\ bufferedSize \in 1..256 /\ loadSize = 256 - bufferedSize /\ p = (m + 4) * 64
      BY <1>3, <1>4, <2>1
    <3>2. full = X3!Store(buffer, bufferedSize, totalLen, loadSize)
      OBVIOUS
    <3>3. old.acc = acc /\ old.soFar = nbStripesSoFar /\ 256 \div 64 = 4
      OBVIOUS
    <3>4. one = X3!ConsumeStripes(old.acc, old.soFar, StripesOf(full))
      BY <2>1, <3>3 DEF StripesOf
    <3> HIDE DEF full, one, old, p, loadSize
    <3>5. PICK base \in Int : base = m * 64
      OBVIOUS
    <3>6. totalLen = base + bufferedSize /\ base = p - 256
      BY <1>3, <3>1, <3>5
    <3>7. InOrder(buffer, 0, bufferedSize, base)
      <4>1. totalLen - bufferedSize = base
        BY <1>4, <3>6
      <4> QED
        BY <1>4, <4>1 DEF InOrder
    <3>8. full \in [0..255 -> Int] /\ InOrder(full, 0, 256, base)
      <4>1. /\ buffer \in [0..255 -> Int] /\ bufferedSize \in 1..256 /\ totalLen \in Nat
            /\ totalLen = base + bufferedSize /\ loadSize = 256 - bufferedSize
            /\ base \in Int /\ full = X3!Store(buffer, bufferedSize, totalLen, loadSize)
        BY <1>4, <3>1, <3>2, <3>6
      <4>2. PICK f, buf, size, have, load :
              f = full /\ buf = buffer /\ size = bufferedSize /\ have = totalLen /\ load = loadSize
        OBVIOUS
      <4>3. Filled(buf, size, base, have, load, f)
        BY ONLY <3>7, <4>1, <4>2 DEF Filled
      <4>4. f \in [0..255 -> Int] /\ InOrder(f, 0, 256, base)
        BY ONLY <4>3, FillUp
      <4> QED
        BY ONLY <4>2, <4>4
    <3>9. TakenStripes(one, m + 4, nbStripesPerBlock, secretLimit)
      BY <1>2, <1>3, <3>4, <3>5, <3>8, FullStripes
    <3>10. m + 4 \in Nat
      OBVIOUS
    <3> QED
      BY <3>1, <3>5, <3>6, <3>8, <3>9, <3>10
  <2>2. CASE ~(bufferedSize > 0)
    <3>1. bufferedSize = 0 /\ loadSize = 0 /\ p = m * 64 /\ one = old
      BY <1>3, <1>4, <2>2
    <3>2. X3!Store(buffer, 0, totalLen, 0) \in [0..255 -> Int]
      BY <1>4 DEF X3!Store
    <3>3. full = X3!Store(buffer, 0, totalLen, 0)
      BY <3>1
    <3> HIDE DEF full, one, p
    <3> QED
      BY <1>3, <3>1, <3>2, <3>3
  <2> QED
    BY <2>1, <2>2
<1>7. PICK k \in Nat : p = k * 64 /\ TakenStripes(one, k, nbStripesPerBlock, secretLimit)
  BY <1>6, ZenonT(40)
<1> HIDE DEF full, one, p, end, old
<1>8. /\ end - from \in 1..256 /\ kept \in [0..255 -> Int]
      /\ \E base \in Int : base = from - 256 /\ InOrder(kept, 192, 256, base)
      /\ \E n \in Nat : from = n * 64 /\ TakenStripes(two, n, nbStripesPerBlock, secretLimit)
  <2>1. CASE direct
    <3>1. PICK n \in Nat : n = stripes /\ end - (p + n * 64) \in 1..64
      <4>1. end - p > 256
        BY <2>1
      <4>2. (end - 1 - p) \div 64 \in Nat /\ end - (p + ((end - 1 - p) \div 64) * 64) \in 1..64
        BY <1>5, <4>1
      <4> QED
        BY <4>2
    <3>2. PICK z \in Nat : z = p + n * 64
      BY <1>5
    <3>3. from = z /\ kept = X3!KeepLastStripe(full, z)
          /\ two = X3!ConsumeStripes(one.acc, one.soFar, X3!StripesAt(p, n))
      BY <2>1, <3>1, <3>2
    <3> HIDE DEF from, kept, two, direct, stripes
    <3>4. PICK base \in Int : base = z - 256
      OBVIOUS
    <3>5. kept \in [0..255 -> Int] /\ InOrder(kept, 192, 256, base) /\ base = from - 256
      BY <1>6, <3>3, <3>4, KeptStripe
    <3>6. TakenStripes(two, k + n, nbStripesPerBlock, secretLimit)
      BY <1>2, <1>7, <3>3, NextStripes
    <3>7. from = (k + n) * 64 /\ k + n \in Nat
      BY <1>7, <3>2, <3>3
    <3>8. end - from \in 1..256
      BY <1>5, <3>1, <3>2, <3>3
    <3> QED
      BY <3>4, <3>5, <3>6, <3>7, <3>8
  <2>2. CASE ~direct
    <3>1. from = p /\ kept = full /\ two = one
      BY <2>2
    <3>2. bufferedSize > 0 /\ end - p \in 1..256
      BY <1>4, <1>5, <2>2
    <3> HIDE DEF from, kept, two, direct
    <3>3. \E base \in Int : base = from - 256 /\ InOrder(kept, 192, 256, base)
      <4>1. PICK base \in Int : base = p - 256 /\ InOrder(full, 0, 256, base)
        BY <1>6, <3>2
      <4>2. InOrder(full, 192, 256, base)
        BY <4>1 DEF InOrder
      <4> QED
        BY <3>1, <4>1, <4>2
    <3> QED
      BY <1>6, <1>7, <3>1, <3>2, <3>3
  <2> QED
    BY <2>1, <2>2, SMTT(30)
<1>9. PICK n \in Nat : from = n * 64 /\ TakenStripes(two, n, nbStripesPerBlock, secretLimit)
  BY <1>8
<1>10. PICK size \in 1..256 : size = end - from
  BY <1>8
<1> HIDE DEF from, kept, two, direct
<1>11. from \in Nat /\ end = from + size /\ from + size > 256
  <2>1. from \in Nat
    BY <1>9
  <2> QED
    BY <1>5, <1>10, <2>1
<1>12. totalLen' = from + size /\ bufferedSize' = size /\ buffer' = X3!Store(kept, 0, from, size)
  BY <1>1, <1>10, <1>11
<1>13. kept \in [0..255 -> Int] /\ \E base \in Int : base = from - 256 /\ InOrder(kept, 192, 256, base)
  BY <1>8
<1>14. Held'
  <2>1. /\ nbStripesPerBlock \in Nat /\ secretLimit \in Nat /\ UNCHANGED <<secretLimit, nbStripesPerBlock>>
        /\ size \in 1..256 /\ from \in Nat /\ from + size > 256 /\ kept \in [0..255 -> Int] /\ n \in Nat
        /\ from = n * 64 /\ TakenStripes(two, n, nbStripesPerBlock, secretLimit)
        /\ totalLen' = from + size /\ bufferedSize' = size /\ buffer' = X3!Store(kept, 0, from, size)
        /\ acc' = two.acc /\ nbStripesSoFar' = two.soFar
    BY <1>1, <1>2, <1>9, <1>11, <1>12, <1>13
  <2>2. PICK base \in Int : base = from - 256 /\ InOrder(kept, 192, 256, base)
    BY <1>13
  <2> QED
    BY ONLY <2>1, <2>2, NowHeld
<1>15. ResetIs'
  BY <1>1 DEF ResetIs, Xxh3Inv
<1> QED
  BY <1>1, <1>14, <1>15 DEF Xxh3Inv, IsReset

(* Every step keeps Xxh3Inv.                                                *)
LEMMA Xxh3NextInv == Xxh3Inv /\ [StreamNext]_streamVars => Xxh3Inv'
<1> SUFFICES ASSUME Xxh3Inv, [StreamNext]_streamVars PROVE Xxh3Inv'
  OBVIOUS
<1>1. ASSUME UNCHANGED xxh3Vars PROVE Xxh3Inv'
  BY <1>1 DEF Xxh3Inv, ResetIs, IsReset, Held, xxh3Vars
<1>2. CASE X3!Next3
  <2>1. \A n \in Chunks3 : n \in Nat \ {0}
    BY XxhAssumption
  <2> QED
    BY <1>2, <2>1, ResetInvs, Xxh3FillInv, Xxh3ConsumeInv DEF X3!Next3
<1>3. CASE UNCHANGED streamVars
  BY <1>1, <1>3 DEF streamVars
<1> QED
  BY <1>1, <1>2, <1>3 DEF StreamNext

--------------------------------------------------------------------------------
(* XXH3: the digests.                                                       *)

(* A piece of the buffer, while its bytes are in order.                     *)
LEMMA PieceOfBuffer ==
  ASSUME NEW base \in Int, NEW from \in Int, NEW to \in 0..256, InOrder(buffer, from, to, base),
         buffer \in [0..255 -> Int], NEW o \in Nat, o >= from, NEW n \in Nat, n > 0, o + n <= to,
         base + o >= 0
  PROVE  X3!Window(X3!BytesIn(o, n)) = <<base + o, n>>
<1>1. PICK start \in Nat : start = base + o
  OBVIOUS
<1> DEFINE bytes == X3!BytesIn(o, n)
<1>2. bytes = [k \in 1..n |-> buffer[o + k - 1]]
  BY DEF X3!BytesIn
<1> HIDE DEF bytes
<1>3. ASSUME NEW k \in 1..n PROVE bytes[k] \in Int /\ bytes[k] = start + k - 1
  <2> DEFINE i == o + k - 1
  <2>1. i \in 0..255 /\ i \in from..to - 1 /\ base + i = start + k - 1
    BY <1>1
  <2>2. bytes[k] = buffer[i]
    BY <1>2
  <2> HIDE DEF i
  <2>3. buffer[i] = base + i /\ buffer[i] \in Int
    BY <2>1 DEF InOrder
  <2> QED
    BY ONLY <2>1, <2>2, <2>3
<1>4. bytes \in [1..n -> Int]
  <2>1. bytes = [k \in 1..n |-> bytes[k]]
    BY <1>2
  <2> QED
    BY ONLY <1>3, <2>1
<1>5. n \in Nat /\ n > 0 /\ start \in Nat
  BY <1>1
<1>6. X3!Window(bytes) = <<start, n>>
  BY ONLY <1>3, <1>4, <1>5, WindowInOrder
<1> QED
  BY <1>1, <1>6 DEF bytes

(* What an update or a reset leaves in the buffer.                          *)
LEMMA BufferHolds ==
  ASSUME Xxh3Inv, IsReset, NEW m \in Nat, totalLen = m * 64 + bufferedSize
  PROVE  /\ buffer \in [0..255 -> Int] /\ bufferedSize \in 0..256 /\ totalLen \in Nat
         /\ \E base \in Int : base = m * 64 /\ InOrder(buffer, 0, bufferedSize, base)
         /\ totalLen > bufferedSize =>
              /\ bufferedSize >= 1 /\ totalLen > 256
              /\ \E base \in Int : base = m * 64 - 256
                                /\ (bufferedSize < 64 => InOrder(buffer, 192 + bufferedSize, 256, base))
<1>1. /\ buffer \in [0..255 -> Int] /\ bufferedSize \in 0..256 /\ totalLen \in Nat
      /\ \A i \in 0..bufferedSize - 1 : buffer[i] = totalLen - bufferedSize + i
  BY DEF Xxh3Inv, Held
<1>2. totalLen - bufferedSize = m * 64
  BY <1>1
<1>3. \E base \in Int : base = m * 64 /\ InOrder(buffer, 0, bufferedSize, base)
  <2>1. PICK base \in Int : base = m * 64
    OBVIOUS
  <2>2. totalLen - bufferedSize = base
    BY <1>2, <2>1
  <2>3. InOrder(buffer, 0, bufferedSize, base)
    BY <1>1, <2>2 DEF InOrder
  <2> QED
    BY <2>1, <2>3
<1>4. ASSUME totalLen > bufferedSize
      PROVE  /\ bufferedSize >= 1 /\ totalLen > 256
             /\ \E base \in Int : base = m * 64 - 256
                               /\ (bufferedSize < 64 => InOrder(buffer, 192 + bufferedSize, 256, base))
  <2>1. /\ bufferedSize >= 1 /\ totalLen > 256
        /\ \A i \in 192..255 : i >= bufferedSize => buffer[i] = totalLen - bufferedSize - 256 + i
    BY <1>4 DEF Xxh3Inv, Held
  <2>2. PICK base \in Int : base = m * 64 - 256
    OBVIOUS
  <2>3. totalLen - bufferedSize - 256 = base
    BY <1>1, <1>2, <2>2
  <2>4. ASSUME bufferedSize < 64, NEW i \in 192 + bufferedSize..256 - 1 PROVE buffer[i] = base + i
    <3>1. i \in 192..255 /\ i >= bufferedSize
      BY <1>1, <2>4
    <3>2. buffer[i] = totalLen - bufferedSize - 256 + i
      BY <2>1, <3>1
    <3> QED
      BY <2>3, <3>2
  <2> QED
    BY <2>1, <2>2, <2>4 DEF InOrder
<1> QED
  BY <1>1, <1>3, <1>4

(* The hash of a long input, with the secret of the state.                  *)
LEMMA LongIs ==
  ASSUME Xxh3Inv, IsReset, NEW len \in Nat,
         NEW b \in Nat, NEW r \in 0..nbStripesPerBlock - 1,
         len - StripesIn(b, r, nbStripesPerBlock) * 64 \in 1..64
  PROVE  X3!LongLoop(len, secretLimit + 64)
           = X3!AccumulateOne(AccOf(b, r, nbStripesPerBlock, secretLimit), <<len - 64, 64>>, secretLimit - 7)
<1>1. /\ secretLimit \in Nat /\ secretLimit + 64 >= 136 /\ nbStripesPerBlock \in Nat
      /\ nbStripesPerBlock = X3!StripesPerBlock(secretLimit + 64)
  BY HeldStripes DEF Xxh3Inv
<1>2. PICK size \in Nat : size = secretLimit + 64
  BY <1>1
<1>3. size >= 136 /\ nbStripesPerBlock = X3!StripesPerBlock(size) /\ size - 64 = secretLimit
      /\ size - 64 - 7 = secretLimit - 7
  BY <1>1, <1>2
<1>4. X3!LongLoop(len, size)
        = X3!AccumulateOne(AccOf(b, r, nbStripesPerBlock, size - 64), <<len - 64, 64>>, size - 64 - 7)
  <2>1. /\ size \in Nat /\ size >= 136 /\ nbStripesPerBlock \in Nat
        /\ nbStripesPerBlock = X3!StripesPerBlock(size) /\ len \in Nat /\ b \in Nat
        /\ r \in 0..nbStripesPerBlock - 1
        /\ len - StripesIn(b, r, nbStripesPerBlock) * 64 \in 1..64
    BY <1>1, <1>3
  <2> QED
    BY ONLY <2>1, LongLoopIs
<1> QED
  BY <1>2, <1>3, <1>4

(* The end of a long input when the buffer holds a stripe or more,          *)
LEMMA DigestFromBuffer ==
  ASSUME Xxh3Inv, IsReset, totalLen > 240, bufferedSize >= 64
  PROVE  X3!DigestLong = X3!LongLoop(totalLen, secretLimit + 64)
<1> DEFINE old == [acc |-> acc, soFar |-> nbStripesSoFar]
<1>1. nbStripesPerBlock \in Nat /\ nbStripesPerBlock > 0 /\ secretLimit \in Nat
  BY HeldStripes
<1>2. PICK m \in Nat : /\ totalLen = m * 64 + bufferedSize
                       /\ TakenStripes(old, m, nbStripesPerBlock, secretLimit)
  BY HeldStripes
<1>3. /\ buffer \in [0..255 -> Int] /\ bufferedSize \in 0..256 /\ totalLen \in Nat
      /\ \E base \in Int : base = m * 64 /\ InOrder(buffer, 0, bufferedSize, base)
  BY <1>2, BufferHolds
<1>4. PICK base \in Int : base = m * 64 /\ InOrder(buffer, 0, bufferedSize, base)
  BY <1>3
<1>5. PICK n \in Nat, e \in 1..64 : n = (bufferedSize - 1) \div 64 /\ bufferedSize = n * 64 + e
  <2> DEFINE n == (bufferedSize - 1) \div 64
             e == bufferedSize - n * 64
  <2>1. n \in Nat /\ e \in 1..64 /\ bufferedSize = n * 64 + e
    BY <1>3
  <2> QED
    BY <2>1
<1>6. X3!BufferedStripes(n) = X3!StripesAt(base, n)
  <2>1. ASSUME NEW k \in 1..n
        PROVE  X3!Window(X3!BytesIn((k - 1) * 64, 64)) = <<base + (k - 1) * 64, 64>>
    <3>1. PICK o \in Nat : o = (k - 1) * 64
      OBVIOUS
    <3>2. PICK start \in Nat : start = base + o
      BY <1>4
    <3>3. PICK w \in Nat, first \in Int : w = 64 /\ first = 0
      OBVIOUS
    <3>4. /\ base \in Int /\ first \in Int /\ bufferedSize \in 0..256 /\ InOrder(buffer, first, bufferedSize, base)
          /\ buffer \in [0..255 -> Int] /\ o \in Nat /\ o >= first /\ w \in Nat /\ w > 0
          /\ o + w <= bufferedSize /\ base + o >= 0
      BY <1>3, <1>4, <1>5, <3>1, <3>2, <3>3
    <3>5. X3!Window(X3!BytesIn(o, w)) = <<base + o, w>>
      BY ONLY <3>4, PieceOfBuffer, ZenonT(40)
    <3> QED
      BY <3>1, <3>3, <3>5
  <2> QED
    BY <2>1 DEF X3!BufferedStripes, X3!StripesAt, X3!StripeLen
<1>7. X3!Window(X3!BytesIn(bufferedSize - 64, 64)) = <<totalLen - 64, 64>>
  <2>1. PICK o \in Nat : o = bufferedSize - 64
    BY <1>3
  <2>2. PICK start \in Nat : start = base + o
    BY <1>4
  <2>3. PICK w \in Nat, first \in Int : w = 64 /\ first = 0
    OBVIOUS
  <2>4. /\ base \in Int /\ first \in Int /\ bufferedSize \in 0..256 /\ InOrder(buffer, first, bufferedSize, base)
        /\ buffer \in [0..255 -> Int] /\ o \in Nat /\ o >= first /\ w \in Nat /\ w > 0
        /\ o + w <= bufferedSize /\ base + o >= 0
    BY <1>3, <1>4, <2>1, <2>2, <2>3
  <2>5. X3!Window(X3!BytesIn(o, w)) = <<base + o, w>>
    BY ONLY <2>4, PieceOfBuffer, ZenonT(40)
  <2>6. start = totalLen - 64
    BY <1>2, <1>3, <1>4, <2>1, <2>2
  <2> QED
    BY <2>1, <2>2, <2>3, <2>5, <2>6
<1> HIDE DEF old
<1>8. TakenStripes(X3!ConsumeStripes(old.acc, old.soFar, X3!StripesAt(base, n)), m + n,
                   nbStripesPerBlock, secretLimit)
  BY <1>1, <1>2, <1>4, NextStripes
<1> DEFINE new == X3!ConsumeStripes(old.acc, old.soFar, X3!StripesAt(base, n))
<1>9. PICK b \in Nat, r \in 0..nbStripesPerBlock - 1 :
        StripesIn(b, r, nbStripesPerBlock) = m + n
        /\ new = [acc |-> AccOf(b, r, nbStripesPerBlock, secretLimit), soFar |-> r]
  BY <1>8 DEF TakenStripes
<1> HIDE DEF new
<1>10. X3!DigestLong = X3!AccumulateOne(new.acc, <<totalLen - 64, 64>>, secretLimit - 7)
  BY <1>5, <1>6, <1>7 DEF X3!DigestLong, X3!StripeLen, X3!LastAccStart, old, new
<1>11. X3!LongLoop(totalLen, secretLimit + 64)
         = X3!AccumulateOne(AccOf(b, r, nbStripesPerBlock, secretLimit), <<totalLen - 64, 64>>, secretLimit - 7)
  <2>1. totalLen - StripesIn(b, r, nbStripesPerBlock) * 64 \in 1..64
    <3>1. totalLen - (m + n) * 64 = e
      BY <1>2, <1>3, <1>5
    <3> QED
      BY <1>9, <3>1
  <2> QED
    BY <1>1, <1>3, <2>1, LongIs
<1> QED
  BY <1>9, <1>10, <1>11

(* and when it holds less: then the stripe before is at its end.            *)
LEMMA DigestFromEnd ==
  ASSUME Xxh3Inv, IsReset, totalLen > 240, bufferedSize < 64
  PROVE  X3!DigestLong = X3!LongLoop(totalLen, secretLimit + 64)
<1> DEFINE old == [acc |-> acc, soFar |-> nbStripesSoFar]
<1>1. nbStripesPerBlock \in Nat /\ nbStripesPerBlock > 0 /\ secretLimit \in Nat
  BY HeldStripes
<1>2. PICK m \in Nat : /\ totalLen = m * 64 + bufferedSize
                       /\ TakenStripes(old, m, nbStripesPerBlock, secretLimit)
  BY HeldStripes
<1>3. /\ buffer \in [0..255 -> Int] /\ bufferedSize \in 0..256 /\ totalLen \in Nat
      /\ \E base \in Int : base = m * 64 /\ InOrder(buffer, 0, bufferedSize, base)
      /\ totalLen > bufferedSize =>
              /\ bufferedSize >= 1 /\ totalLen > 256
              /\ \E base \in Int : base = m * 64 - 256
                                /\ (bufferedSize < 64 => InOrder(buffer, 192 + bufferedSize, 256, base))
  BY <1>2, BufferHolds
<1>4. PICK base \in Int : base = m * 64 /\ InOrder(buffer, 0, bufferedSize, base)
  BY <1>3
<1>5. totalLen > bufferedSize /\ bufferedSize \in 1..63
  BY <1>3
<1>6. PICK back \in Int : back = base - 256 /\ InOrder(buffer, 192 + bufferedSize, 256, back)
  BY <1>3, <1>4, <1>5
<1> DEFINE catchup == 64 - bufferedSize
           one     == X3!BytesIn(256 - catchup, catchup)
           two     == X3!BytesIn(0, bufferedSize)
           start   == totalLen - 64
<1>7. X3!Window(one \o two) = <<totalLen - 64, 64>>
  <2>1. catchup \in Nat /\ catchup > 0 /\ bufferedSize \in Nat /\ 256 - catchup = 192 + bufferedSize
        /\ catchup + bufferedSize = 64 /\ start \in Nat
    BY <1>3, <1>5
  <2>2. ASSUME NEW k \in 1..catchup PROVE one[k] \in Int /\ one[k] = start + k - 1
    <3> DEFINE i == 256 - catchup + k - 1
    <3>1. i \in 0..255 /\ i \in 192 + bufferedSize..256 - 1 /\ back + i = start + k - 1
      BY <1>2, <1>3, <1>4, <1>5, <1>6
    <3>2. one[k] = buffer[i]
      BY DEF X3!BytesIn
    <3> HIDE DEF i
    <3>3. buffer[i] = back + i /\ buffer[i] \in Int
      BY <1>3, <1>6, <3>1 DEF InOrder
    <3> QED
      BY ONLY <3>1, <3>2, <3>3
  <2>3. ASSUME NEW k \in 1..bufferedSize PROVE two[k] \in Int /\ two[k] = start + catchup + k - 1
    <3> DEFINE i == 0 + k - 1
    <3>1. i \in 0..255 /\ i \in 0..bufferedSize - 1 /\ base + i = start + catchup + k - 1
      BY <1>2, <1>3, <1>4, <1>5
    <3>2. two[k] = buffer[i]
      BY DEF X3!BytesIn
    <3> HIDE DEF i
    <3>3. buffer[i] = base + i /\ buffer[i] \in Int
      BY <1>3, <1>4, <3>1, ZenonT(40) DEF InOrder
    <3> QED
      BY ONLY <3>1, <3>2, <3>3
  <2>4. one \in [1..catchup -> Int] /\ two \in [1..bufferedSize -> Int]
    <3>1. one = [k \in 1..catchup |-> one[k]] /\ two = [k \in 1..bufferedSize |-> two[k]]
      BY DEF X3!BytesIn
    <3> HIDE DEF one, two
    <3> QED
      BY ONLY <2>2, <2>3, <3>1
  <2> HIDE DEF one, two, catchup, start
  <2>5. PICK c \in Nat, s \in Nat : c = catchup /\ s = bufferedSize /\ c + s = 64
    BY <2>1
  <2>6. one \in [1..c -> Int] /\ two \in [1..s -> Int]
    BY <2>4, <2>5
  <2>7. one \o two \in [1..c + s -> Int]
    BY ONLY <2>6, c \in Nat, s \in Nat, Joined
  <2>8. \A k \in 1..c + s : (one \o two)[k] = IF k <= c THEN one[k] ELSE two[k - c]
    BY ONLY <2>6, c \in Nat, s \in Nat, Joined
  <2> DEFINE both == one \o two
  <2>9. both \in [1..64 -> Int]
    BY <2>5, <2>7
  <2>10. ASSUME NEW k \in 1..64 PROVE both[k] = start + k - 1
    <3>1. both[k] = IF k <= catchup THEN one[k] ELSE two[k - catchup]
      BY <2>5, <2>8
    <3>2. CASE k <= catchup
      <4>1. k \in 1..catchup
        BY <2>1, <3>2
      <4> QED
        BY <2>2, <3>1, <3>2, <4>1
    <3>3. CASE ~(k <= catchup)
      <4>1. k - catchup \in 1..bufferedSize /\ start + catchup + (k - catchup) - 1 = start + k - 1
        BY <2>1, <3>3
      <4> QED
        BY <2>3, <3>1, <3>3, <4>1
    <3> QED
      BY <3>2, <3>3
  <2> HIDE DEF both
  <2>11. X3!Window(both) = <<start, 64>>
    <3>1. 64 \in Nat /\ 64 > 0 /\ start \in Nat
      BY <2>1
    <3> QED
      BY ONLY <2>9, <2>10, <3>1, WindowInOrder
  <2> QED
    BY <2>11 DEF both, start
<1> HIDE DEF one, two
<1>8. X3!DigestLong = X3!AccumulateOne(acc, <<totalLen - 64, 64>>, secretLimit - 7)
  <2>1. ~(bufferedSize >= 64)
    BY <1>3
  <2> QED
    BY <1>7, <2>1 DEF X3!DigestLong, X3!StripeLen, X3!LastAccStart, X3!BufferSize, one, two
<1>9. PICK b \in Nat, r \in 0..nbStripesPerBlock - 1 :
        StripesIn(b, r, nbStripesPerBlock) = m
        /\ old = [acc |-> AccOf(b, r, nbStripesPerBlock, secretLimit), soFar |-> r]
  BY <1>2 DEF TakenStripes
<1>10. acc = AccOf(b, r, nbStripesPerBlock, secretLimit)
  BY <1>9
<1>11. X3!LongLoop(totalLen, secretLimit + 64)
         = X3!AccumulateOne(AccOf(b, r, nbStripesPerBlock, secretLimit), <<totalLen - 64, 64>>, secretLimit - 7)
  <2>1. totalLen - m * 64 = bufferedSize /\ bufferedSize \in 1..64
    BY <1>2, <1>3, <1>5
  <2>2. totalLen - StripesIn(b, r, nbStripesPerBlock) * 64 \in 1..64
    BY <1>9, <2>1
  <2> QED
    BY <1>1, <1>3, <2>2, LongIs
<1> QED
  BY <1>8, <1>10, <1>11

--------------------------------------------------------------------------------
(* XXH3: what a hash reads.                                                 *)

(* What one mixing may read of len bytes of input and of a secret.          *)
Inside(len, size) == [in : Seq(Pieces(len)), key : Seq(Pieces(size))]

(* Byte i of the input is read by one mixing, and by one of many.           *)
Touches(mix, i) == \E r \in DOMAIN mix.in : mix.in[r][1] <= i /\ i < mix.in[r][1] + mix.in[r][2]

Reached(mixes, i) == \E m \in DOMAIN mixes : Touches(mixes[m], i)

(* A mixing of two pieces of the input reads both.                          *)
LEMMA TwoReads ==
  ASSUME NEW len \in Nat, NEW size \in Nat, NEW p \in Pieces(len), NEW other \in Pieces(len),
         NEW key \in Seq(Pieces(size))
  PROVE  /\ X3!Mix(<<p, other>>, key) \in Inside(len, size)
         /\ \A i : p[1] <= i /\ i < p[1] + p[2] => Touches(X3!Mix(<<p, other>>, key), i)
         /\ \A i : other[1] <= i /\ i < other[1] + other[2] => Touches(X3!Mix(<<p, other>>, key), i)
<1> DEFINE both == <<p, other>>
           mix  == X3!Mix(both, key)
<1>1. both \in Seq(Pieces(len)) /\ DOMAIN both = {1, 2} /\ both[1] = p /\ both[2] = other
  OBVIOUS
<1> HIDE DEF both
<1>2. mix \in Inside(len, size) /\ mix.in = both
  BY <1>1 DEF Inside, X3!Mix
<1>3. ASSUME NEW i, p[1] <= i /\ i < p[1] + p[2] PROVE Touches(mix, i)
  BY <1>1, <1>2, <1>3 DEF Touches
<1>4. ASSUME NEW i, other[1] <= i /\ i < other[1] + other[2] PROVE Touches(mix, i)
  BY <1>1, <1>2, <1>4 DEF Touches
<1> QED
  BY <1>2, <1>3, <1>4 DEF both

(* XXH3_mix16B reads 16 bytes.                                              *)
LEMMA Mix16BReads ==
  ASSUME NEW len \in Nat, NEW size \in Nat, NEW o \in Nat, NEW s \in Nat, o + 16 <= len, s + 16 <= size
  PROVE  /\ X3!mix16B(o, s) \in Inside(len, size)
         /\ \A i \in Int : o <= i /\ i < o + 16 => Touches(X3!mix16B(o, s), i)
<1> DEFINE p == <<o, 8>>
           other == <<o + 8, 8>>
           key == << <<s, 8>>, <<s + 8, 8>> >>
<1>1. p \in Pieces(len) /\ other \in Pieces(len) /\ p[1] = o /\ p[2] = 8 /\ other[1] = o + 8 /\ other[2] = 8
  BY DEF Pieces
<1>2. key \in Seq(Pieces(size))
  <2>1. <<s, 8>> \in Pieces(size) /\ <<s + 8, 8>> \in Pieces(size)
    BY DEF Pieces
  <2> QED
    BY <2>1
<1>3. X3!mix16B(o, s) = X3!Mix(<<p, other>>, key)
  BY DEF X3!mix16B
<1> HIDE DEF p, other, key
<1>4. /\ X3!Mix(<<p, other>>, key) \in Inside(len, size)
      /\ \A i : p[1] <= i /\ i < p[1] + p[2] => Touches(X3!Mix(<<p, other>>, key), i)
      /\ \A i : other[1] <= i /\ i < other[1] + other[2] => Touches(X3!Mix(<<p, other>>, key), i)
  BY <1>1, <1>2, TwoReads
<1>5. ASSUME NEW i \in Int, o <= i, i < o + 16 PROVE Touches(X3!mix16B(o, s), i)
  <2>1. (p[1] <= i /\ i < p[1] + p[2]) \/ (other[1] <= i /\ i < other[1] + other[2])
    BY <1>1, <1>5
  <2> QED
    BY <1>3, <1>4, <2>1
<1> QED
  BY <1>3, <1>4, <1>5

(* XXH128_mix32B reads 16 bytes at each of two places.                      *)
LEMMA Mix32BReads ==
  ASSUME NEW len \in Nat, NEW size \in Nat, NEW o1 \in Nat, NEW o2 \in Nat, NEW s \in Nat,
         o1 + 16 <= len, o2 + 16 <= len, s + 32 <= size
  PROVE  /\ X3!mix32B(o1, o2, s) \in Inside(len, size)
         /\ \A i \in Int : o1 <= i /\ i < o1 + 16 => Touches(X3!mix32B(o1, o2, s), i)
         /\ \A i \in Int : o2 <= i /\ i < o2 + 16 => Touches(X3!mix32B(o1, o2, s), i)
<1> DEFINE p == <<o1, 16>>
           other == <<o2, 16>>
           key == << <<s, 16>>, <<s + 16, 16>> >>
<1>1. p \in Pieces(len) /\ other \in Pieces(len) /\ p[1] = o1 /\ p[2] = 16 /\ other[1] = o2 /\ other[2] = 16
  BY DEF Pieces
<1>2. key \in Seq(Pieces(size))
  <2>1. <<s, 16>> \in Pieces(size) /\ <<s + 16, 16>> \in Pieces(size)
    BY DEF Pieces
  <2> QED
    BY <2>1
<1>3. X3!mix32B(o1, o2, s) = X3!Mix(<<p, other>>, key)
  BY DEF X3!mix32B
<1> HIDE DEF p, other, key
<1>4. /\ X3!Mix(<<p, other>>, key) \in Inside(len, size)
      /\ \A i : p[1] <= i /\ i < p[1] + p[2] => Touches(X3!Mix(<<p, other>>, key), i)
      /\ \A i : other[1] <= i /\ i < other[1] + other[2] => Touches(X3!Mix(<<p, other>>, key), i)
  BY <1>1, <1>2, TwoReads
<1> QED
  BY <1>1, <1>3, <1>4

(* Mixings one after another.                                               *)
LEMMA ReachedOne ==
  ASSUME NEW S, NEW x \in S
  PROVE  <<x>> \in Seq(S) /\ \A i : Touches(x, i) => Reached(<<x>>, i)
BY DEF Reached

(* What either of two sequences of mixings reads, both together read.       *)
LEMMA ReachedBoth ==
  ASSUME NEW S, NEW f \in Seq(S), NEW g \in Seq(S)
  PROVE  f \o g \in Seq(S) /\ \A i : Reached(f, i) \/ Reached(g, i) => Reached(f \o g, i)
<1>1. /\ f \o g \in Seq(S) /\ Len(f \o g) = Len(f) + Len(g)
      /\ \A k \in 1..Len(f) + Len(g) : (f \o g)[k] = IF k <= Len(f) THEN f[k] ELSE g[k - Len(f)]
  BY ConcatProperties
<1> DEFINE both == f \o g
<1>2. DOMAIN both = 1..Len(f) + Len(g) /\ DOMAIN f = 1..Len(f) /\ DOMAIN g = 1..Len(g)
      /\ Len(f) \in Nat /\ Len(g) \in Nat
  BY <1>1
<1>3. ASSUME NEW m \in DOMAIN f PROVE m \in DOMAIN both /\ both[m] = f[m]
  BY <1>1, <1>2
<1>4. ASSUME NEW m \in DOMAIN g PROVE Len(f) + m \in DOMAIN both /\ both[Len(f) + m] = g[m]
  <2> DEFINE k == Len(f) + m
  <2>1. k \in 1..Len(f) + Len(g) /\ ~(k <= Len(f)) /\ k - Len(f) = m
    BY <1>2
  <2> HIDE DEF k
  <2>2. both[k] = g[m] /\ k \in DOMAIN both
    BY <1>1, <1>2, <2>1
  <2> QED
    BY <2>2 DEF k
<1> HIDE DEF both
<1>5. ASSUME NEW i, Reached(f, i) \/ Reached(g, i) PROVE Reached(both, i)
  BY <1>3, <1>4, <1>5 DEF Reached
<1> QED
  BY <1>1, <1>5 DEF both

(* No mixing at all is a sequence of mixings.                               *)
LEMMA NoMixings ==
  ASSUME NEW S
  PROVE  <<>> \in Seq(S)
OBVIOUS

(* Pieces of the secret.                                                    *)
LEMMA SecretPieces ==
  ASSUME NEW size \in Nat, size >= 136
  PROVE  /\ X3!Pieces(0, 4, 2) \in Seq(Pieces(size)) /\ X3!Pieces(8, 8, 2) \in Seq(Pieces(size))
         /\ X3!Pieces(24, 8, 4) \in Seq(Pieces(size)) /\ X3!Pieces(56, 8, 2) \in Seq(Pieces(size))
         /\ X3!Pieces(0, 4, 4) \in Seq(Pieces(size)) /\ X3!Pieces(16, 8, 2) \in Seq(Pieces(size))
         /\ X3!Pieces(32, 8, 4) \in Seq(Pieces(size)) /\ X3!Pieces(64, 8, 4) \in Seq(Pieces(size))
<1>1. ASSUME NEW o \in 0..64, NEW w \in {4, 8}, NEW n \in {2, 4}
      PROVE  X3!Pieces(o, w, n) \in Seq(Pieces(size))
  <2>1. ASSUME NEW k \in 1..n PROVE <<o + (k - 1) * w, w>> \in Pieces(size)
    <3>1. o + (k - 1) * w \in Nat /\ o + (k - 1) * w + w <= size /\ w \in Nat \ {0}
      OBVIOUS
    <3> QED
      BY <3>1 DEF Pieces
  <2> DEFINE piece(k) == <<o + (k - 1) * w, w>>
  <2>2. X3!Pieces(o, w, n) = [k \in 1..n |-> piece(k)]
    BY DEF X3!Pieces
  <2>3. \A k \in 1..n : piece(k) \in Pieces(size)
    BY ONLY <2>1
  <2> HIDE DEF piece
  <2>4. [k \in 1..n |-> piece(k)] \in [1..n -> Pieces(size)]
    BY ONLY <2>3
  <2>5. n \in Nat
    OBVIOUS
  <2>6. [k \in 1..n |-> piece(k)] \in Seq(Pieces(size))
    BY ONLY <2>4, <2>5
  <2> QED
    BY ONLY <2>2, <2>6
<1>2. /\ 0 \in 0..64 /\ 8 \in 0..64 /\ 24 \in 0..64 /\ 56 \in 0..64 /\ 16 \in 0..64
      /\ 32 \in 0..64 /\ 64 \in 0..64 /\ 4 \in {4, 8} /\ 8 \in {4, 8} /\ 2 \in {2, 4} /\ 4 \in {2, 4}
  OBVIOUS
<1> QED
  BY <1>1, <1>2

(* One mixing that reaches every byte.                                      *)
LEMMA OneMixing ==
  ASSUME NEW len \in Nat, NEW size \in Nat, NEW x \in Inside(len, size),
         \A i \in 0..len - 1 : Touches(x, i)
  PROVE  <<x>> \in Seq(Inside(len, size)) /\ \A i \in 0..len - 1 : Reached(<<x>>, i)
BY ReachedOne

(* A mixing that reads the start and the end of the input.                  *)
LEMMA BothEnds ==
  ASSUME NEW len \in Nat, NEW size \in Nat, NEW w \in Nat, w > 0, w <= len, len <= 2 * w,
         NEW o, o = len - w, NEW key \in Seq(Pieces(size))
  PROVE  /\ X3!Mix(<< <<0, w>>, <<o, w>> >>, key) \in Inside(len, size)
         /\ \A i \in 0..len - 1 : Touches(X3!Mix(<< <<0, w>>, <<o, w>> >>, key), i)
<1> DEFINE p == <<0, w>>
           other == <<o, w>>
<1>1. p \in Pieces(len) /\ other \in Pieces(len) /\ p[1] = 0 /\ p[2] = w /\ other[1] = o /\ other[2] = w
  BY DEF Pieces
<1> HIDE DEF p, other
<1>2. /\ X3!Mix(<<p, other>>, key) \in Inside(len, size)
      /\ \A i : p[1] <= i /\ i < p[1] + p[2] => Touches(X3!Mix(<<p, other>>, key), i)
      /\ \A i : other[1] <= i /\ i < other[1] + other[2] => Touches(X3!Mix(<<p, other>>, key), i)
  BY <1>1, TwoReads
<1>3. ASSUME NEW i \in 0..len - 1 PROVE Touches(X3!Mix(<<p, other>>, key), i)
  <2>1. (p[1] <= i /\ i < p[1] + p[2]) \/ (other[1] <= i /\ i < other[1] + other[2])
    BY <1>1
  <2> QED
    BY <1>2, <2>1
<1> QED
  BY <1>2, <1>3 DEF p, other

(* The three bytes taken of one to three are all of them.                   *)
LEMMA FirstBytes ==
  ASSUME NEW len \in 1..3, NEW size \in Nat, NEW key \in Seq(Pieces(size))
  PROVE  /\ X3!Mix(X3!First1to3(len), key) \in Inside(len, size)
         /\ \A i \in 0..len - 1 : Touches(X3!Mix(X3!First1to3(len), key), i)
<1> DEFINE in  == << <<0, 1>>, <<len \div 2, 1>>, <<len - 1, 1>> >>
           mix == X3!Mix(in, key)
<1>1. in \in Seq(Pieces(len)) /\ DOMAIN in = {1, 2, 3}
      /\ in[1] = <<0, 1>> /\ in[2] = <<len \div 2, 1>> /\ in[3] = <<len - 1, 1>>
  <2>1. len \in Nat /\ len \div 2 \in Nat /\ len \div 2 + 1 <= len /\ len - 1 \in Nat
    OBVIOUS
  <2>2. <<0, 1>> \in Pieces(len) /\ <<len \div 2, 1>> \in Pieces(len) /\ <<len - 1, 1>> \in Pieces(len)
    BY <2>1 DEF Pieces
  <2> QED
    BY <2>2
<1> HIDE DEF in
<1>2. mix \in Inside(len, size) /\ mix.in = in
  BY <1>1 DEF Inside, X3!Mix
<1> HIDE DEF mix
<1>3. ASSUME NEW i \in 0..len - 1 PROVE Touches(mix, i)
  <2>1. i = 0 \/ i = len \div 2 \/ i = len - 1
    OBVIOUS
  <2>2. ASSUME NEW r \in {1, 2, 3}, in[r] = <<i, 1>> PROVE Touches(mix, i)
    <3>1. in[r][1] <= i /\ i < in[r][1] + in[r][2]
      BY <2>2
    <3> QED
      BY <1>1, <1>2, <3>1 DEF Touches
  <2> QED
    BY <1>1, <2>1, <2>2
<1> QED
  BY <1>2, <1>3 DEF mix, in, X3!First1to3

(* Mixings that stay inside an input and a secret, and reach every byte.    *)
Covering(mixes, len, size) ==
  mixes \in Seq(Inside(len, size)) /\ \A j \in 0..len - 1 : Reached(mixes, j)

(* The hashes of up to 16 bytes read every byte.                            *)
LEMMA ReadsUpTo16 ==
  ASSUME NEW len \in 0..16, NEW size \in Nat, size >= 136
  PROVE  Covering(X3!Len0to16_64(len), len, size) /\ Covering(X3!Len0to16_128(len), len, size)
<1> USE DEF Covering
<1>1. CASE len = 0
  <2>1. X3!Len0to16_64(len) = << X3!Mix(<<>>, X3!Pieces(56, 8, 2)) >>
        /\ X3!Len0to16_128(len) = << X3!Mix(<<>>, X3!Pieces(64, 8, 4)) >>
    BY <1>1 DEF X3!Len0to16_64, X3!Len0to16_128
  <2>2. ASSUME NEW key \in Seq(Pieces(size)) PROVE X3!Mix(<<>>, key) \in Inside(len, size)
    <3>1. <<>> \in Seq(Pieces(len))
      BY NoMixings
    <3> QED
      BY <3>1 DEF Inside, X3!Mix
  <2>3. 0..len - 1 = {}
    BY <1>1
  <2>4. ASSUME NEW key \in Seq(Pieces(size)) PROVE << X3!Mix(<<>>, key) >> \in Seq(Inside(len, size))
    BY <2>2, ReachedOne
  <2> QED
    BY <2>1, <2>3, <2>4, SecretPieces
<1>2. CASE len \in 1..3
  <2>1. X3!Len0to16_64(len) = << X3!Mix(X3!First1to3(len), X3!Pieces(0, 4, 2)) >>
        /\ X3!Len0to16_128(len) = << X3!Mix(X3!First1to3(len), X3!Pieces(0, 4, 4)) >>
    BY <1>2 DEF X3!Len0to16_64, X3!Len0to16_128, X3!Len1to3_64, X3!Len1to3_128
  <2>2. ASSUME NEW key \in Seq(Pieces(size))
        PROVE  /\ << X3!Mix(X3!First1to3(len), key) >> \in Seq(Inside(len, size))
               /\ \A i \in 0..len - 1 : Reached(<< X3!Mix(X3!First1to3(len), key) >>, i)
    BY <1>2, FirstBytes, OneMixing
  <2> QED
    BY <2>1, <2>2, SecretPieces
<1>3. CASE len \in 4..8
  <2>1. X3!Len0to16_64(len) = << X3!Mix(<< <<0, 4>>, <<len - 4, 4>> >>, X3!Pieces(8, 8, 2)) >>
        /\ X3!Len0to16_128(len) = << X3!Mix(<< <<0, 4>>, <<len - 4, 4>> >>, X3!Pieces(16, 8, 2)) >>
    BY <1>3 DEF X3!Len0to16_64, X3!Len0to16_128, X3!Len4to8_64, X3!Len4to8_128
  <2>2. ASSUME NEW key \in Seq(Pieces(size))
        PROVE  /\ << X3!Mix(<< <<0, 4>>, <<len - 4, 4>> >>, key) >> \in Seq(Inside(len, size))
               /\ \A i \in 0..len - 1 : Reached(<< X3!Mix(<< <<0, 4>>, <<len - 4, 4>> >>, key) >>, i)
    <3>1. PICK w \in Nat, o \in Int : w = 4 /\ o = len - w
      OBVIOUS
    <3>2. w > 0 /\ w <= len /\ len <= 2 * w /\ len \in Nat
      BY <1>3, <3>1
    <3>3. /\ X3!Mix(<< <<0, w>>, <<o, w>> >>, key) \in Inside(len, size)
          /\ \A i \in 0..len - 1 : Touches(X3!Mix(<< <<0, w>>, <<o, w>> >>, key), i)
      BY <3>1, <3>2, BothEnds
    <3> QED
      BY <3>1, <3>2, <3>3, OneMixing
  <2> QED
    BY <2>1, <2>2, SecretPieces
<1>4. CASE len \in 9..16
  <2>1. X3!Len0to16_64(len) = << X3!Mix(<< <<0, 8>>, <<len - 8, 8>> >>, X3!Pieces(24, 8, 4)) >>
        /\ X3!Len0to16_128(len) = << X3!Mix(<< <<0, 8>>, <<len - 8, 8>> >>, X3!Pieces(32, 8, 4)) >>
    BY <1>4 DEF X3!Len0to16_64, X3!Len0to16_128, X3!Len9to16_64, X3!Len9to16_128
  <2>2. ASSUME NEW key \in Seq(Pieces(size))
        PROVE  /\ << X3!Mix(<< <<0, 8>>, <<len - 8, 8>> >>, key) >> \in Seq(Inside(len, size))
               /\ \A i \in 0..len - 1 : Reached(<< X3!Mix(<< <<0, 8>>, <<len - 8, 8>> >>, key) >>, i)
    <3>1. PICK w \in Nat, o \in Int : w = 8 /\ o = len - w
      OBVIOUS
    <3>2. w > 0 /\ w <= len /\ len <= 2 * w /\ len \in Nat
      BY <1>4, <3>1
    <3>3. /\ X3!Mix(<< <<0, w>>, <<o, w>> >>, key) \in Inside(len, size)
          /\ \A i \in 0..len - 1 : Touches(X3!Mix(<< <<0, w>>, <<o, w>> >>, key), i)
      BY <3>1, <3>2, BothEnds
    <3> QED
      BY <3>1, <3>2, <3>3, OneMixing
  <2> QED
    BY <2>1, <2>2, SecretPieces
<1> QED
  BY <1>1, <1>2, <1>3, <1>4

(* The same of four sequences of mixings.                                   *)
LEMMA ReachedFour ==
  ASSUME NEW S, NEW f \in Seq(S), NEW g \in Seq(S), NEW h \in Seq(S), NEW k \in Seq(S)
  PROVE  /\ f \o g \o h \o k \in Seq(S)
         /\ \A i : Reached(f, i) \/ Reached(g, i) \/ Reached(h, i) \/ Reached(k, i)
                     => Reached(f \o g \o h \o k, i)
<1> DEFINE two   == f \o g
           three == two \o h
<1>1. two \in Seq(S) /\ \A i : Reached(f, i) \/ Reached(g, i) => Reached(two, i)
  BY ReachedBoth
<1> HIDE DEF two
<1>2. three \in Seq(S) /\ \A i : Reached(two, i) \/ Reached(h, i) => Reached(three, i)
  BY <1>1, ReachedBoth
<1> HIDE DEF three
<1>3. three \o k \in Seq(S) /\ \A i : Reached(three, i) \/ Reached(k, i) => Reached(three \o k, i)
  BY <1>2, ReachedBoth
<1> QED
  BY <1>1, <1>2, <1>3 DEF two, three

(* Round i of the hash of 17 to 128 bytes reads 16 bytes on both sides.     *)
Round64(len, i) ==
  IF len > 32 * i
  THEN << X3!mix16B(16 * i, 32 * i), X3!mix16B(len - 16 * (i + 1), 32 * i + 16) >> ELSE <<>>

Round128(len, i) ==
  IF len > 32 * i THEN << X3!mix32B(16 * i, len - 16 * (i + 1), 32 * i) >> ELSE <<>>

InRound(len, i, j) ==
  len > 32 * i /\ (j \in 16 * i..16 * i + 15 \/ len - 1 - j \in 16 * i..16 * i + 15)

(* A round of the hashes of 17 to 128 bytes reads 16 bytes at each end.     *)
LEMMA RoundReads ==
  ASSUME NEW len \in 17..128, NEW size \in Nat, size >= 136, NEW i \in 0..3
  PROVE  /\ Round64(len, i) \in Seq(Inside(len, size)) /\ Round128(len, i) \in Seq(Inside(len, size))
         /\ \A j \in 0..len - 1 : InRound(len, i, j) => Reached(Round64(len, i), j) /\ Reached(Round128(len, i), j)
<1>1. CASE ~(len > 32 * i)
  BY <1>1, NoMixings DEF Round64, Round128, InRound
<1>2. CASE len > 32 * i
  <2>1. PICK o \in Nat, p \in Nat, s \in Nat, t \in Nat :
          o = 16 * i /\ p = len - 16 * (i + 1) /\ s = 32 * i /\ t = 32 * i + 16
    BY <1>2
  <2>2. /\ len \in Nat /\ o + 16 <= len /\ p + 16 <= len /\ s + 32 <= size /\ s + 16 <= size
        /\ t + 16 <= size
    BY <1>2, <2>1
  <2>3. /\ X3!mix16B(o, s) \in Inside(len, size) /\ X3!mix16B(p, t) \in Inside(len, size)
        /\ X3!mix32B(o, p, s) \in Inside(len, size)
        /\ \A j \in Int : o <= j /\ j < o + 16 => Touches(X3!mix16B(o, s), j) /\ Touches(X3!mix32B(o, p, s), j)
        /\ \A j \in Int : p <= j /\ j < p + 16 => Touches(X3!mix16B(p, t), j) /\ Touches(X3!mix32B(o, p, s), j)
    BY <2>2, Mix16BReads, Mix32BReads
  <2>4. /\ Round64(len, i) = << X3!mix16B(o, s), X3!mix16B(p, t) >>
        /\ Round128(len, i) = << X3!mix32B(o, p, s) >>
    BY <1>2, <2>1 DEF Round64, Round128
  <2>5. ASSUME NEW S, NEW x \in S, NEW y \in S
        PROVE  <<x, y>> \in Seq(S) /\ \A j : Touches(x, j) \/ Touches(y, j) => Reached(<<x, y>>, j)
    <3> DEFINE both == <<x, y>>
    <3>1. both \in Seq(S) /\ DOMAIN both = {1, 2} /\ both[1] = x /\ both[2] = y
      OBVIOUS
    <3> HIDE DEF both
    <3>2. ASSUME NEW j, Touches(x, j) \/ Touches(y, j) PROVE Reached(both, j)
      BY <3>1, <3>2 DEF Reached
    <3> QED
      BY <3>1, <3>2 DEF both
  <2>6. ASSUME NEW j \in 0..len - 1, InRound(len, i, j)
        PROVE  Reached(Round64(len, i), j) /\ Reached(Round128(len, i), j)
    <3>1. (o <= j /\ j < o + 16) \/ (p <= j /\ j < p + 16)
      BY <2>1, <2>6 DEF InRound
    <3> QED
      BY <2>3, <2>4, <2>5, <3>1, ReachedOne
  <2> QED
    BY <2>3, <2>4, <2>5, <2>6, ReachedOne
<1> QED
  BY <1>1, <1>2

(* Every byte is read by one of the rounds.                                 *)
LEMMA RoundOf ==
  ASSUME NEW len \in 17..128, NEW j \in 0..len - 1
  PROVE  \E i \in 0..3 : InRound(len, i, j)
<1>1. ASSUME NEW k \in 0..127, 2 * k < len, k = j \/ k = len - 1 - j
      PROVE  \E i \in 0..3 : InRound(len, i, j)
  <2> DEFINE i == k \div 16
  <2>1. i \in 0..3 /\ k \in 16 * i..16 * i + 15
    BY <1>1
  <2>2. 32 * i < len
    BY <1>1, <2>1
  <2> HIDE DEF i
  <2>3. InRound(len, i, j)
    BY <1>1, <2>1, <2>2 DEF InRound
  <2> QED
    BY <2>1, <2>3
<1>2. CASE 2 * j < len
  <2>1. j \in 0..127
    BY <1>2
  <2> QED
    BY <1>1, <1>2, <2>1
<1>3. CASE ~(2 * j < len)
  <2>1. len - 1 - j \in 0..127 /\ 2 * (len - 1 - j) < len
    BY <1>3
  <2> QED
    BY <1>1, <2>1
<1> QED
  BY <1>2, <1>3

(* The hashes of 17 to 128 bytes read every byte.                           *)
LEMMA Reads17to128 ==
  ASSUME NEW len \in 17..128, NEW size \in Nat, size >= 136
  PROVE  Covering(X3!Len17to128_64(len), len, size) /\ Covering(X3!Len17to128_128(len), len, size)
<1>1. /\ X3!Len17to128_64(len) = Round64(len, 3) \o Round64(len, 2) \o Round64(len, 1) \o Round64(len, 0)
      /\ X3!Len17to128_128(len) = Round128(len, 3) \o Round128(len, 2) \o Round128(len, 1) \o Round128(len, 0)
  BY DEF X3!Len17to128_64, X3!Len17to128_128, Round64, Round128
<1>2. \A i \in 0..3 : Round64(len, i) \in Seq(Inside(len, size)) /\ Round128(len, i) \in Seq(Inside(len, size))
  BY RoundReads
<1>3. ASSUME NEW j \in 0..len - 1
      PROVE  /\ Reached(Round64(len, 3), j) \/ Reached(Round64(len, 2), j) \/ Reached(Round64(len, 1), j) \/ Reached(Round64(len, 0), j)
             /\ Reached(Round128(len, 3), j) \/ Reached(Round128(len, 2), j) \/ Reached(Round128(len, 1), j) \/ Reached(Round128(len, 0), j)
  <2>1. PICK i \in 0..3 : InRound(len, i, j)
    BY RoundOf, ZenonT(40)
  <2>2. Reached(Round64(len, i), j) /\ Reached(Round128(len, i), j)
    BY <2>1, RoundReads
  <2>3. i = 0 \/ i = 1 \/ i = 2 \/ i = 3
    OBVIOUS
  <2> QED
    BY ONLY <2>2, <2>3
<1>4. 0 \in 0..3 /\ 1 \in 0..3 /\ 2 \in 0..3 /\ 3 \in 0..3
  OBVIOUS
<1> QED
  BY ONLY <1>1, <1>2, <1>3, <1>4, ReachedFour DEF Covering

(* A row of mixings.                                                        *)
LEMMA ReachedRow ==
  ASSUME NEW S, NEW n \in Nat, NEW f, f = [i \in 1..n |-> f[i]], \A i \in 1..n : f[i] \in S
  PROVE  f \in Seq(S) /\ \A i \in 1..n : \A j : Touches(f[i], j) => Reached(f, j)
<1>1. f \in [1..n -> S]
  OBVIOUS
<1>2. f \in Seq(S) /\ DOMAIN f = 1..n
  BY <1>1
<1> QED
  BY <1>2 DEF Reached

(* The same of three sequences of mixings.                                  *)
LEMMA ReachedThree ==
  ASSUME NEW S, NEW f \in Seq(S), NEW g \in Seq(S), NEW h \in Seq(S)
  PROVE  /\ f \o g \o h \in Seq(S)
         /\ \A i : Reached(f, i) \/ Reached(g, i) \/ Reached(h, i) => Reached(f \o g \o h, i)
<1> DEFINE two == f \o g
<1>1. two \in Seq(S) /\ \A i : Reached(f, i) \/ Reached(g, i) => Reached(two, i)
  BY ReachedBoth
<1> HIDE DEF two
<1>2. two \o h \in Seq(S) /\ \A i : Reached(two, i) \/ Reached(h, i) => Reached(two \o h, i)
  BY <1>1, ReachedBoth
<1> QED
  BY <1>1, <1>2 DEF two

(* XXH3_len_129to240_64b reads every byte: its rounds of 16 bytes from the  *)
(* front, and the last 16.                                                  *)
LEMMA Reads129to240In64 ==
  ASSUME NEW len \in 129..240, NEW size \in Nat, size >= 136
  PROVE  Covering(X3!Len129to240_64(len), len, size)
<1>1. PICK rounds \in 8..15 : rounds = len \div 16 /\ 16 * rounds <= len /\ len < 16 * rounds + 16
  <2> DEFINE rounds == len \div 16
  <2>1. rounds \in 8..15 /\ 16 * rounds <= len /\ len < 16 * rounds + 16
    OBVIOUS
  <2> QED
    BY <2>1
<1> DEFINE f == [i \in 1..8 |-> X3!mix16B(16 * (i - 1), 16 * (i - 1))]
           g == << X3!mix16B(len - 16, 119) >>
           h == [i \in 1..rounds - 8 |-> X3!mix16B(16 * (i + 7), 16 * (i - 1) + 3)]
<1>2. X3!Len129to240_64(len) = f \o g \o h
  BY <1>1 DEF X3!Len129to240_64, X3!SecretSizeMin, X3!MidLastOffset, X3!MidStartOffset
<1>3. ASSUME NEW i \in 1..8
      PROVE  /\ f[i] \in Inside(len, size)
             /\ \A j \in Int : 16 * (i - 1) <= j /\ j < 16 * (i - 1) + 16 => Touches(f[i], j)
  <2>1. PICK o \in Nat : o = 16 * (i - 1)
    OBVIOUS
  <2>2. len \in Nat /\ o + 16 <= len /\ o + 16 <= size
    BY <2>1
  <2>3. f[i] = X3!mix16B(o, o)
    BY <2>1
  <2> QED
    BY <2>1, <2>2, <2>3, Mix16BReads
<1>4. /\ X3!mix16B(len - 16, 119) \in Inside(len, size)
      /\ \A j \in Int : len - 16 <= j /\ j < len => Touches(X3!mix16B(len - 16, 119), j)
  <2>1. PICK o \in Nat, s \in Nat : o = len - 16 /\ s = 119
    OBVIOUS
  <2>2. len \in Nat /\ o + 16 <= len /\ s + 16 <= size
    BY <2>1
  <2>3. o + 16 = len
    BY <2>1
  <2>4. /\ X3!mix16B(o, s) \in Inside(len, size)
        /\ \A j \in Int : o <= j /\ j < o + 16 => Touches(X3!mix16B(o, s), j)
    BY <2>2, Mix16BReads
  <2> QED
    BY <2>1, <2>3, <2>4
<1>5. ASSUME NEW i \in 1..rounds - 8
      PROVE  /\ h[i] \in Inside(len, size)
             /\ \A j \in Int : 16 * (i + 7) <= j /\ j < 16 * (i + 7) + 16 => Touches(h[i], j)
  <2>1. PICK o \in Nat, s \in Nat : o = 16 * (i + 7) /\ s = 16 * (i - 1) + 3
    OBVIOUS
  <2>2. len \in Nat /\ o + 16 <= len /\ s + 16 <= size
    BY <1>1, <2>1
  <2>3. h[i] = X3!mix16B(o, s)
    BY <2>1
  <2> QED
    BY <2>1, <2>2, <2>3, Mix16BReads
<1>6. f = [i \in 1..8 |-> f[i]] /\ h = [i \in 1..rounds - 8 |-> h[i]] /\ 8 \in Nat /\ rounds - 8 \in Nat
  OBVIOUS
<1> HIDE DEF f, h
<1>7. f \in Seq(Inside(len, size)) /\ \A i \in 1..8 : \A j : Touches(f[i], j) => Reached(f, j)
  BY ONLY <1>3, <1>6, ReachedRow
<1>8. h \in Seq(Inside(len, size)) /\ \A i \in 1..rounds - 8 : \A j : Touches(h[i], j) => Reached(h, j)
  BY ONLY <1>5, <1>6, ReachedRow
<1>9. /\ g \in Seq(Inside(len, size))
      /\ \A j \in Int : len - 16 <= j /\ j < len => Reached(g, j)
  BY <1>4, ReachedOne
<1> HIDE DEF g
<1>10. ASSUME NEW j \in 0..len - 1 PROVE Reached(f, j) \/ Reached(g, j) \/ Reached(h, j)
  <2>1. CASE j < 128
    <3> DEFINE i == (j \div 16) + 1
    <3>1. i \in 1..8 /\ 16 * (i - 1) <= j /\ j < 16 * (i - 1) + 16
      BY <2>1
    <3> HIDE DEF i
    <3> QED
      BY <1>3, <1>7, <3>1
  <2>2. CASE j >= 128 /\ j < 16 * rounds
    <3> DEFINE i == (j \div 16) - 7
    <3>1. i \in 1..rounds - 8 /\ 16 * (i + 7) <= j /\ j < 16 * (i + 7) + 16
      BY <1>1, <2>2
    <3> HIDE DEF i
    <3> QED
      BY <1>5, <1>8, <3>1
  <2>3. CASE j >= 16 * rounds
    <3>1. len - 16 <= j /\ j < len
      BY <1>1, <2>3
    <3> QED
      BY <1>9, <3>1
  <2> QED
    BY <2>1, <2>2, <2>3
<1> QED
  BY <1>2, <1>7, <1>8, <1>9, <1>10, ReachedThree DEF Covering

(* XXH3_len_129to240_128b, by rounds of 32 bytes.                           *)
LEMMA Reads129to240In128 ==
  ASSUME NEW len \in 129..240, NEW size \in Nat, size >= 136
  PROVE  Covering(X3!Len129to240_128(len), len, size)
<1>1. PICK rounds \in 4..7 : rounds = len \div 32 /\ 32 * rounds <= len /\ len < 32 * rounds + 32
  <2> DEFINE rounds == len \div 32
  <2>1. rounds \in 4..7 /\ 32 * rounds <= len /\ len < 32 * rounds + 32
    OBVIOUS
  <2> QED
    BY <2>1
<1> DEFINE f == [i \in 1..4 |-> X3!mix32B(32 * i - 32, 32 * i - 16, 32 * i - 32)]
           g == [i \in 1..rounds - 4 |->
                   X3!mix32B(32 * (i + 4) - 32, 32 * (i + 4) - 16, 3 + 32 * (i - 1))]
           h == << X3!mix32B(len - 16, len - 32, 103) >>
<1>2. X3!Len129to240_128(len) = f \o g \o h
  <2>1. 136 - 17 - 16 = 103
    OBVIOUS
  <2> QED
    BY <1>1, <2>1 DEF X3!Len129to240_128, X3!SecretSizeMin, X3!MidLastOffset, X3!MidStartOffset
<1>3. ASSUME NEW i \in 1..4
      PROVE  /\ f[i] \in Inside(len, size)
             /\ \A j \in Int : 32 * i - 32 <= j /\ j < 32 * i => Touches(f[i], j)
  <2>1. PICK o \in Nat, p \in Nat : o = 32 * i - 32 /\ p = 32 * i - 16
    OBVIOUS
  <2>2. len \in Nat /\ o + 16 <= len /\ p + 16 <= len /\ o + 32 <= size
    BY <2>1
  <2>3. f[i] = X3!mix32B(o, p, o)
    BY <2>1
  <2>4. /\ f[i] \in Inside(len, size)
        /\ \A j \in Int : o <= j /\ j < o + 16 => Touches(f[i], j)
        /\ \A j \in Int : p <= j /\ j < p + 16 => Touches(f[i], j)
    BY <2>2, <2>3, Mix32BReads
  <2> HIDE DEF f
  <2> QED
    BY <2>1, <2>4
<1>4. ASSUME NEW i \in 1..rounds - 4
      PROVE  /\ g[i] \in Inside(len, size)
             /\ \A j \in Int : 32 * (i + 4) - 32 <= j /\ j < 32 * (i + 4) => Touches(g[i], j)
  <2>1. PICK o \in Nat, p \in Nat, s \in Nat :
          o = 32 * (i + 4) - 32 /\ p = 32 * (i + 4) - 16 /\ s = 3 + 32 * (i - 1)
    OBVIOUS
  <2>2. len \in Nat /\ o + 16 <= len /\ p + 16 <= len /\ s + 32 <= size
    BY <1>1, <2>1
  <2>3. g[i] = X3!mix32B(o, p, s)
    BY <2>1
  <2>4. /\ g[i] \in Inside(len, size)
        /\ \A j \in Int : o <= j /\ j < o + 16 => Touches(g[i], j)
        /\ \A j \in Int : p <= j /\ j < p + 16 => Touches(g[i], j)
    BY <2>2, <2>3, Mix32BReads
  <2> HIDE DEF g
  <2> QED
    BY <2>1, <2>4
<1>5. /\ X3!mix32B(len - 16, len - 32, 103) \in Inside(len, size)
      /\ \A j \in Int : len - 32 <= j /\ j < len => Touches(X3!mix32B(len - 16, len - 32, 103), j)
  <2>1. PICK o \in Nat, p \in Nat, s \in Nat : o = len - 16 /\ p = len - 32 /\ s = 103
    OBVIOUS
  <2>2. len \in Nat /\ o + 16 <= len /\ p + 16 <= len /\ s + 32 <= size
    BY <2>1
  <2>3. o + 16 = len /\ p + 16 = o
    BY <2>1
  <2> DEFINE mix == X3!mix32B(o, p, s)
  <2>4. /\ mix \in Inside(len, size)
        /\ \A j \in Int : o <= j /\ j < o + 16 => Touches(mix, j)
        /\ \A j \in Int : p <= j /\ j < p + 16 => Touches(mix, j)
    BY <2>2, Mix32BReads
  <2>5. mix = X3!mix32B(len - 16, len - 32, 103)
    BY <2>1
  <2> HIDE DEF mix
  <2> QED
    BY <2>1, <2>3, <2>4, <2>5
<1>6. f = [i \in 1..4 |-> f[i]] /\ g = [i \in 1..rounds - 4 |-> g[i]] /\ 4 \in Nat /\ rounds - 4 \in Nat
  OBVIOUS
<1> HIDE DEF f, g
<1>7. f \in Seq(Inside(len, size)) /\ \A i \in 1..4 : \A j : Touches(f[i], j) => Reached(f, j)
  BY ONLY <1>3, <1>6, ReachedRow
<1>8. g \in Seq(Inside(len, size)) /\ \A i \in 1..rounds - 4 : \A j : Touches(g[i], j) => Reached(g, j)
  BY ONLY <1>4, <1>6, ReachedRow
<1>9. /\ h \in Seq(Inside(len, size))
      /\ \A j \in Int : len - 32 <= j /\ j < len => Reached(h, j)
  BY <1>5, ReachedOne
<1> HIDE DEF h
<1>10. ASSUME NEW j \in 0..len - 1 PROVE Reached(f, j) \/ Reached(g, j) \/ Reached(h, j)
  <2>1. CASE j < 128
    <3> DEFINE i == (j \div 32) + 1
    <3>1. i \in 1..4 /\ 32 * i - 32 <= j /\ j < 32 * i
      BY <2>1
    <3> HIDE DEF i
    <3> QED
      BY <1>3, <1>7, <3>1
  <2>2. CASE j >= 128 /\ j < 32 * rounds
    <3> DEFINE i == (j \div 32) - 3
    <3>1. i \in 1..rounds - 4 /\ 32 * (i + 4) - 32 <= j /\ j < 32 * (i + 4)
      BY <1>1, <2>2
    <3> HIDE DEF i
    <3>2. Touches(g[i], j)
      BY <1>4, <3>1
    <3> QED
      BY ONLY <1>8, <3>1, <3>2
  <2>3. CASE j >= 32 * rounds
    <3>1. len - 32 <= j /\ j < len
      BY <1>1, <2>3
    <3> QED
      BY <1>9, <3>1
  <2> QED
    BY <2>1, <2>2, <2>3
<1> QED
  BY <1>2, <1>7, <1>8, <1>9, <1>10, ReachedThree DEF Covering

(* Places of the accumulators come in the order of their stripes.           *)
LEMMA PlaceOrder ==
  ASSUME NEW P \in Nat, P > 0, NEW b \in Nat, NEW c \in Nat, NEW r \in 0..P - 1, NEW s \in 0..P - 1
  PROVE  b * (P + 1) + r < c * (P + 1) + s <=> StripesIn(b, r, P) < StripesIn(c, s, P)
<1> DEFINE x == b * P
           y == c * P
<1>1. x \in Int /\ y \in Int /\ b * (P + 1) = x + b /\ c * (P + 1) = y + c
  <2>1. b * (P + 1) = b * P + b * 1 /\ c * (P + 1) = c * P + c * 1
    BY Distribute
  <2> QED
    BY <2>1
<1>2. /\ b < c => x + P <= y
      /\ c < b => y + P <= x
      /\ b = c => x = y
  <2>1. ASSUME NEW d \in Nat, NEW e \in Nat, d < e PROVE d * P + P <= e * P
    <3>1. (d + 1) * P <= e * P
      BY <2>1, Monotone
    <3>2. (d + 1) * P = d * P + 1 * P
      BY Distribute
    <3> QED
      BY <3>1, <3>2
  <2> QED
    BY <2>1
<1>3. StripesIn(b, r, P) = x + r /\ StripesIn(c, s, P) = y + s
  BY DEF StripesIn
<1>4. b \in Int /\ c \in Int /\ P \in Int /\ P > 0 /\ r \in 0..P - 1 /\ s \in 0..P - 1
  OBVIOUS
<1> HIDE DEF x, y
<1>5. x + b + r < y + c + s <=> x + r < y + s
  BY ONLY <1>1, <1>2, <1>4
<1> QED
  BY <1>1, <1>3, <1>5

(* What is in the accumulators after whole stripes of a long input.         *)
LEMMA AccReads ==
  ASSUME NEW size \in Nat, size >= 136, NEW P \in Nat, P = X3!StripesPerBlock(size),
         NEW len \in Nat, NEW b \in Nat, NEW r \in 0..P - 1, StripesIn(b, r, P) * 64 <= len
  PROVE  /\ AccOf(b, r, P, size - 64) \in Seq(Inside(len, size))
         /\ \A j \in Nat : j < StripesIn(b, r, P) * 64 => Reached(AccOf(b, r, P, size - 64), j)
         /\ \A m \in DOMAIN AccOf(b, r, P, size - 64) :
              AccOf(b, r, P, size - 64)[m].key[1][1] # size - 71
<1> DEFINE all   == StripesIn(b, r, P)
           places == b * (P + 1) + r
<1>1. PICK limit \in Nat : limit = size - 64
  OBVIOUS
<1>2. P > 0 /\ P * 8 <= limit /\ limit + 64 = size /\ r \in Nat
  BY <1>1, PerBlock
<1>3. all \in Nat /\ places \in Nat
  BY <1>2, StripesInType, AccOfType
<1> DEFINE a == AccOf(b, r, P, limit)
<1>4. a \in [1..places -> Mixes]
  BY <1>2, AccOfType
<1>5. ASSUME NEW m \in 1..places
      PROVE  a[m] \in Inside(len, size) /\ a[m].key[1][1] # size - 71
  <2>1. PICK c \in Nat, s \in 0..P : m = c * (P + 1) + s + 1
    BY <1>3, PlaceIs
  <2>2. c * (P + 1) \in Nat /\ s \in Nat
    OBVIOUS
  <2>3. c * (P + 1) + s < places
    <3> DEFINE z == c * (P + 1)
    <3> HIDE DEF z, places
    <3>1. m = z + s + 1 /\ z \in Nat
      BY <2>1, <2>2 DEF z
    <3>2. z + s < places
      BY <1>3, <2>2, <3>1
    <3> QED
      BY <3>2 DEF z
  <2>4. a[m] = Taking(c, s, P, limit)
    <3>1. /\ P \in Nat /\ limit \in Nat /\ b \in Nat /\ r \in Nat /\ c \in Nat /\ s \in 0..P
          /\ c * (P + 1) + s < b * (P + 1) + r
      BY <1>2, <2>3
    <3>2. AccOf(b, r, P, limit)[c * (P + 1) + s + 1] = Taking(c, s, P, limit)
      BY ONLY <3>1, AccOfEntry
    <3> QED
      BY <2>1, <3>2
  <2> HIDE DEF a, all
  <2>5. CASE s = P
    <3> DEFINE key == << <<limit, 64>> >>
    <3>1. key \in Seq(Pieces(size)) /\ key[1][1] = limit
      <4>1. <<limit, 64>> \in Pieces(size)
        BY <1>2 DEF Pieces
      <4> QED
        BY <4>1
    <3>2. <<>> \in Seq(Pieces(len))
      BY NoMixings
    <3>3. a[m] = X3!Mix(<<>>, key)
      BY <2>4, <2>5 DEF Taking
    <3> HIDE DEF key
    <3>4. a[m] \in Inside(len, size) /\ a[m].key = key
      BY <3>1, <3>2, <3>3 DEF Inside, X3!Mix
    <3>5. limit # size - 71
      BY <1>2
    <3> QED
      BY <3>1, <3>4, <3>5
  <2>6. CASE s # P
    <3>1. s \in 0..P - 1
      BY <2>6
    <3>2. StripesIn(c, s, P) < all
      BY <1>2, <2>3, <3>1, PlaceOrder DEF all
    <3>3. PICK t \in Nat : t = StripesIn(c, s, P)
      <4>1. P \in Nat /\ c \in Nat /\ s \in Nat
        BY <3>1
      <4>2. StripesIn(c, s, P) \in Nat
        BY ONLY <4>1, StripesInType
      <4> QED
        BY <4>2
    <3>4. t * 64 \in Nat /\ t * 64 + 64 <= len
      BY <1>3, <3>2, <3>3 DEF all
    <3>5. s * 8 \in Nat /\ s * 8 + 64 <= size /\ s * 8 # size - 71
      BY <1>2, <3>1
    <3> DEFINE in  == << <<t * 64, 64>> >>
               key == << <<s * 8, 64>> >>
    <3>6. in \in Seq(Pieces(len)) /\ key \in Seq(Pieces(size)) /\ key[1][1] = s * 8
      <4>1. <<t * 64, 64>> \in Pieces(len) /\ <<s * 8, 64>> \in Pieces(size)
        BY <3>4, <3>5 DEF Pieces
      <4> QED
        BY <4>1
    <3>7. a[m] = X3!Mix(in, key)
      BY <2>4, <2>6, <3>3 DEF Taking, StripesIn
    <3> HIDE DEF in, key
    <3>8. a[m] \in Inside(len, size) /\ a[m].key = key
      BY <3>6, <3>7 DEF Inside, X3!Mix
    <3> QED
      BY <3>5, <3>6, <3>8
  <2> QED
    BY <2>5, <2>6
<1>6. ASSUME NEW j \in Nat, j < all * 64 PROVE Reached(a, j)
  <2>1. PICK t \in Nat : t = j \div 64 /\ t * 64 <= j /\ j < t * 64 + 64
    <3> DEFINE t == j \div 64
    <3>1. t \in Nat /\ t * 64 <= j /\ j < t * 64 + 64
      OBVIOUS
    <3> QED
      BY <3>1
  <2>2. t < all
    BY <1>3, <1>6, <2>1
  <2>3. PICK c \in Nat, s \in 0..P - 1 : StripesIn(c, s, P) = t
    <3>1. t \div P \in Nat /\ t % P \in 0..P - 1 /\ t = (t \div P) * P + (t % P)
      BY <1>2, QuotientIsNat
    <3> QED
      BY <3>1 DEF StripesIn
  <2>4. c * (P + 1) + s < places
    BY <1>2, <2>2, <2>3, PlaceOrder
  <2>5. a[c * (P + 1) + s + 1] = Taking(c, s, P, limit)
    <3>1. /\ P \in Nat /\ limit \in Nat /\ b \in Nat /\ r \in Nat /\ c \in Nat /\ s \in 0..P
          /\ c * (P + 1) + s < b * (P + 1) + r
      BY <1>2, <2>4
    <3>2. AccOf(b, r, P, limit)[c * (P + 1) + s + 1] = Taking(c, s, P, limit)
      BY ONLY <3>1, AccOfEntry
    <3> QED
      BY <3>2
  <2> DEFINE m == c * (P + 1) + s + 1
  <2>6. m \in 1..places
    <3>1. c * (P + 1) \in Nat /\ s \in Nat
      OBVIOUS
    <3> DEFINE z == c * (P + 1)
    <3> HIDE DEF z, places
    <3>2. z + s < places
      BY <2>4 DEF z
    <3>3. z \in Nat
      BY <3>1 DEF z
    <3>4. z + s + 1 \in 1..places
      BY <1>3, <3>1, <3>2, <3>3
    <3> QED
      BY <3>4 DEF z
  <2> HIDE DEF m
  <2>7. a[m] = X3!Mix(<< <<t * 64, 64>> >>, << <<s * 8, 64>> >>)
    <3>1. s # P
      BY <1>2
    <3> QED
      BY <2>3, <2>5, <3>1 DEF m, Taking, StripesIn
  <2> HIDE DEF a
  <2>8. a[m].in = << <<t * 64, 64>> >>
    BY <2>7 DEF X3!Mix
  <2>9. Touches(a[m], j)
    <3> DEFINE in == << <<t * 64, 64>> >>
    <3>1. DOMAIN in = {1} /\ in[1][1] = t * 64 /\ in[1][2] = 64
      OBVIOUS
    <3> HIDE DEF in
    <3>2. a[m].in = in
      BY <2>8 DEF in
    <3> QED
      BY <2>1, <3>1, <3>2 DEF Touches
  <2>10. DOMAIN a = 1..places
    BY <1>4
  <2> QED
    BY <2>6, <2>9, <2>10 DEF Reached
<1>7. a \in Seq(Inside(len, size)) /\ DOMAIN a = 1..places
  <2>1. a = [m \in 1..places |-> a[m]] /\ DOMAIN a = 1..places
    BY <1>4
  <2> HIDE DEF a, places
  <2>2. \A m \in 1..places : a[m] \in Inside(len, size)
    BY <1>5
  <2>3. a \in Seq(Inside(len, size))
    BY ONLY <1>3, <2>1, <2>2, ReachedRow
  <2> QED
    BY <2>1, <2>3
<1> QED
  BY <1>1, <1>5, <1>6, <1>7

(* The mixings that use the secret from place k on.                         *)
KeyedAt(mixes, k) == {m \in DOMAIN mixes : mixes[m].key[1][1] = k}

(* The place of a key in two sequences of mixings, when only one has it.    *)
LEMMA KeyedConcat ==
  ASSUME NEW S, NEW f \in Seq(S), NEW g \in Seq(S), NEW k
  PROVE  /\ KeyedAt(g, k) = {} => KeyedAt(f \o g, k) = KeyedAt(f, k)
         /\ KeyedAt(f, k) = {} /\ KeyedAt(g, k) = {1} => KeyedAt(f \o g, k) = {Len(f) + 1}
<1> DEFINE both == f \o g
           n    == Len(f)
           p    == Len(g)
<1>1. /\ both \in Seq(S) /\ Len(both) = n + p
      /\ \A m \in 1..n + p : both[m] = IF m <= n THEN f[m] ELSE g[m - n]
  BY ConcatProperties
<1>2. DOMAIN both = 1..n + p /\ DOMAIN f = 1..n /\ DOMAIN g = 1..p /\ n \in Nat /\ p \in Nat
  BY <1>1
<1> HIDE DEF both, n, p
<1>3. ASSUME NEW m \in KeyedAt(both, k) PROVE m \in KeyedAt(f, k) \/ \E i \in KeyedAt(g, k) : m = n + i
  <2>1. m \in 1..n + p /\ both[m].key[1][1] = k
    BY <1>2, <1>3 DEF KeyedAt
  <2>2. CASE m <= n
    <3>1. m \in DOMAIN f /\ f[m] = both[m]
      BY <1>1, <1>2, <2>1, <2>2
    <3> QED
      BY <2>1, <3>1 DEF KeyedAt
  <2>3. CASE ~(m <= n)
    <3> DEFINE i == m - n
    <3>1. i \in DOMAIN g /\ g[i] = both[m] /\ m = n + i
      BY <1>1, <1>2, <2>1, <2>3
    <3> HIDE DEF i
    <3> QED
      BY <2>1, <3>1 DEF KeyedAt
  <2> QED
    BY <2>2, <2>3
<1>4. ASSUME NEW m \in KeyedAt(f, k) PROVE m \in KeyedAt(both, k)
  <2>1. m \in 1..n /\ f[m].key[1][1] = k
    BY <1>2, <1>4 DEF KeyedAt
  <2>2. m \in 1..n + p /\ both[m] = f[m]
    BY <1>1, <1>2, <2>1
  <2> QED
    BY <1>2, <2>1, <2>2 DEF KeyedAt
<1>5. ASSUME NEW i \in KeyedAt(g, k) PROVE n + i \in KeyedAt(both, k)
  <2>1. i \in 1..p /\ g[i].key[1][1] = k
    BY <1>2, <1>5 DEF KeyedAt
  <2> DEFINE m == n + i
  <2>2. m \in 1..n + p /\ ~(m <= n) /\ m - n = i
    BY <1>2, <2>1
  <2> HIDE DEF m
  <2>3. both[m] = g[i]
    BY <1>1, <2>2
  <2>4. m \in KeyedAt(both, k)
    BY <1>2, <2>1, <2>2, <2>3 DEF KeyedAt
  <2> QED
    BY <2>4 DEF m
<1> QED
  BY <1>3, <1>4, <1>5 DEF both, n

(* A mixing of one piece of the secret, without input and with a piece of it.*)
LEMMA KeyIs ==
  ASSUME NEW size \in Nat, NEW s \in Nat, s + 64 <= size
  PROVE  /\ << <<s, 64>> >> \in Seq(Pieces(size))
         /\ \A x, k : x.key = << <<s, 64>> >> => KeyedAt(<<x>>, k) = IF k = s THEN {1} ELSE {}
<1> DEFINE key == << <<s, 64>> >>
<1>1. key \in Seq(Pieces(size)) /\ key[1][1] = s
  <2>1. <<s, 64>> \in Pieces(size)
    BY DEF Pieces
  <2> QED
    BY <2>1
<1> HIDE DEF key
<1>2. ASSUME NEW x, x.key = key, NEW k PROVE KeyedAt(<<x>>, k) = IF k = s THEN {1} ELSE {}
  <2> DEFINE one == <<x>>
  <2>1. DOMAIN one = {1} /\ one[1] = x
    OBVIOUS
  <2> HIDE DEF one
  <2>2. KeyedAt(one, k) = IF k = s THEN {1} ELSE {}
    BY <1>1, <1>2, <2>1 DEF KeyedAt
  <2> QED
    BY <2>2 DEF one
<1> QED
  BY <1>1, <1>2 DEF key

(* A mixing of the secret alone, at another key than k.                     *)
LEMMA MergeMix ==
  ASSUME NEW len \in Nat, NEW size \in Nat, NEW s \in Nat, s + 64 <= size, NEW k, k # s
  PROVE  /\ X3!Mix(<<>>, << <<s, 64>> >>) \in Inside(len, size)
         /\ KeyedAt(<<X3!Mix(<<>>, << <<s, 64>> >>)>>, k) = {}
<1> DEFINE key == << <<s, 64>> >>
           mix == X3!Mix(<<>>, key)
<1>1. key \in Seq(Pieces(size)) /\ \A x : x.key = key => KeyedAt(<<x>>, k) = {}
  BY KeyIs
<1>2. <<>> \in Seq(Pieces(len))
  BY NoMixings
<1> HIDE DEF key
<1>3. mix \in Inside(len, size) /\ mix.key = key
  BY <1>1, <1>2 DEF Inside, X3!Mix
<1> QED
  BY <1>1, <1>3 DEF key

(* A mixing of a stripe, the only one at its key.                           *)
LEMMA StripeMix ==
  ASSUME NEW len \in Nat, NEW size \in Nat, NEW s \in Nat, s + 64 <= size, NEW o \in Nat, o + 64 <= len
  PROVE  /\ X3!Mix(<< <<o, 64>> >>, << <<s, 64>> >>) \in Inside(len, size)
         /\ KeyedAt(<<X3!Mix(<< <<o, 64>> >>, << <<s, 64>> >>)>>, s) = {1}
         /\ \A j \in Int : o <= j /\ j < o + 64 => Touches(X3!Mix(<< <<o, 64>> >>, << <<s, 64>> >>), j)
<1> DEFINE key == << <<s, 64>> >>
           in  == << <<o, 64>> >>
           mix == X3!Mix(in, key)
<1>1. key \in Seq(Pieces(size)) /\ \A x : x.key = key => KeyedAt(<<x>>, s) = {1}
  BY KeyIs
<1>2. in \in Seq(Pieces(len)) /\ DOMAIN in = {1} /\ in[1][1] = o /\ in[1][2] = 64
  <2>1. <<o, 64>> \in Pieces(len)
    BY DEF Pieces
  <2> QED
    BY <2>1
<1> HIDE DEF key, in
<1>3. mix \in Inside(len, size) /\ mix.key = key /\ mix.in = in
  BY <1>1, <1>2 DEF Inside, X3!Mix
<1> HIDE DEF mix
<1>4. \A j \in Int : o <= j /\ j < o + 64 => Touches(mix, j)
  BY <1>2, <1>3 DEF Touches
<1> QED
  BY <1>1, <1>3, <1>4 DEF mix, in, key

(* A long input: every byte is read, and the last stripe alone is mixed     *)
(* with the piece of the secret that ends seven bytes before its end.       *)
LEMMA LongReads ==
  ASSUME NEW size \in Nat, size >= 136, NEW len \in Nat, len > 240,
         NEW mixes, \/ mixes = X3!Merge64(X3!LongLoop(len, size), size)
                    \/ mixes = X3!Merge128(X3!LongLoop(len, size), size)
  PROVE  Covering(mixes, len, size) /\ Cardinality(KeyedAt(mixes, size - 71)) = 1
<1>1. PICK P \in Nat : P = X3!StripesPerBlock(size) /\ P > 0
  BY PerBlock
<1>2. PICK s \in Nat : len - s * 64 \in 1..64
  <2> DEFINE s == (len - 1) \div 64
  <2>1. s \in Nat /\ len - s * 64 \in 1..64
    OBVIOUS
  <2> HIDE DEF s
  <2> QED
    BY <2>1
<1>3. PICK b \in Nat, r \in 0..P - 1 : StripesIn(b, r, P) = s
  <2>1. s \div P \in Nat /\ s % P \in 0..P - 1 /\ s = (s \div P) * P + (s % P)
    BY <1>1, QuotientIsNat
  <2> QED
    BY <2>1 DEF StripesIn
<1> DEFINE a == AccOf(b, r, P, size - 64)
           S == Inside(len, size)
           k == size - 71
<1>4. /\ a \in Seq(S)
      /\ \A j \in Nat : j < StripesIn(b, r, P) * 64 => Reached(a, j)
      /\ \A m \in DOMAIN a : a[m].key[1][1] # k
  <2>1. StripesIn(b, r, P) * 64 <= len
    BY <1>2, <1>3
  <2> QED
    BY <1>1, <2>1, AccReads
<1>5. X3!LongLoop(len, size) = X3!AccumulateOne(a, <<len - 64, 64>>, size - 64 - 7)
  <2>1. len - StripesIn(b, r, P) * 64 \in 1..64
    BY <1>2, <1>3
  <2> QED
    BY <1>1, <2>1, LongLoopIs
<1>6. PICK from \in Nat, one \in Nat, two \in Nat : from = len - 64 /\ one = 11 /\ two = size - 75
  OBVIOUS
<1> DEFINE last   == X3!Mix(<< <<from, 64>> >>, << <<k, 64>> >>)
           first  == X3!Mix(<<>>, << <<one, 64>> >>)
           second == X3!Mix(<<>>, << <<two, 64>> >>)
<1>7. X3!LongLoop(len, size) = a \o <<last>>
  <2>1. size - 64 - 7 = k
    OBVIOUS
  <2>2. last \in S
    <3>1. k \in Nat /\ k + 64 <= size /\ from + 64 <= len
      BY <1>6
    <3> QED
      BY <3>1, StripeMix
  <2>3. X3!AccumulateOne(a, <<len - 64, 64>>, size - 64 - 7) = Append(a, last)
    BY <1>6, <2>1 DEF X3!AccumulateOne, X3!StripeLen
  <2> HIDE DEF a, last, S
  <2>4. Append(a, last) = a \o <<last>>
    BY ONLY <1>4, <2>2, AppendIsConcat
  <2> QED
    BY <1>5, <2>3, <2>4
<1>8. /\ last \in S /\ KeyedAt(<<last>>, k) = {1}
      /\ \A j \in Int : from <= j /\ j < from + 64 => Touches(last, j)
      /\ first \in S /\ KeyedAt(<<first>>, k) = {}
      /\ second \in S /\ KeyedAt(<<second>>, k) = {}
  <2>1. /\ k \in Nat /\ k + 64 <= size /\ from + 64 <= len /\ one \in Nat /\ one + 64 <= size /\ k # one
        /\ two + 64 <= size /\ k # two /\ from \in Nat /\ two \in Nat /\ len \in Nat /\ size \in Nat
    BY <1>6
  <2> HIDE DEF k
  <2>2. /\ last \in S /\ KeyedAt(<<last>>, k) = {1}
        /\ \A j \in Int : from <= j /\ j < from + 64 => Touches(last, j)
    BY ONLY <2>1, StripeMix, ZenonT(40)
  <2>3. first \in S /\ KeyedAt(<<first>>, k) = {}
    BY ONLY <2>1, MergeMix
  <2>4. second \in S /\ KeyedAt(<<second>>, k) = {}
    BY ONLY <2>1, MergeMix
  <2> QED
    BY <2>2, <2>3, <2>4
<1>9. /\ X3!Merge64(X3!LongLoop(len, size), size) = a \o <<last>> \o <<first>>
      /\ X3!Merge128(X3!LongLoop(len, size), size) = a \o <<last>> \o <<first>> \o <<second>>
  <2>1. size - 64 - 11 = two /\ one = 11
    BY <1>6
  <2> QED
    BY <1>7, <2>1 DEF X3!Merge64, X3!Merge128, X3!MergeAccs, X3!MergeAccsStart, X3!StripeLen
<1>10. KeyedAt(a, k) = {}
  BY <1>4 DEF KeyedAt
<1>11. \A j \in 0..len - 1 : Reached(a, j) \/ Touches(last, j)
  <2>1. ASSUME NEW j \in 0..len - 1, j < s * 64 PROVE Reached(a, j)
    <3>1. j \in Nat /\ j < StripesIn(b, r, P) * 64
      BY <1>3, <2>1
    <3> HIDE DEF a
    <3> QED
      BY <1>4, <3>1
  <2>2. ASSUME NEW j \in 0..len - 1, ~(j < s * 64) PROVE Touches(last, j)
    <3>1. from <= j /\ j < from + 64
      BY <1>2, <1>6, <2>2
    <3> QED
      BY <1>8, <3>1
  <2> QED
    BY <2>1, <2>2
<1> HIDE DEF a, last, first, second, S, k
<1> DEFINE f == a \o <<last>>
<1>12. f \in Seq(S) /\ (\A j \in 0..len - 1 : Reached(f, j)) /\ KeyedAt(f, k) = {Len(a) + 1}
  <2>1. <<last>> \in Seq(S) /\ \A j : Touches(last, j) => Reached(<<last>>, j)
    BY <1>8, ReachedOne
  <2>2. f \in Seq(S) /\ \A j : Reached(a, j) \/ Reached(<<last>>, j) => Reached(f, j)
    BY <1>4, <2>1, ReachedBoth
  <2>3. KeyedAt(f, k) = {Len(a) + 1}
    <3>1. a \in Seq(S) /\ <<last>> \in Seq(S) /\ KeyedAt(a, k) = {} /\ KeyedAt(<<last>>, k) = {1}
      BY <1>4, <1>8, <1>10, <2>1
    <3>2. PICK u : u = <<last>>
      OBVIOUS
    <3>3. a \in Seq(S) /\ u \in Seq(S) /\ KeyedAt(a, k) = {} /\ KeyedAt(u, k) = {1}
      BY <3>1, <3>2
    <3>4. KeyedAt(a \o u, k) = {Len(a) + 1}
      BY ONLY <3>3, KeyedConcat
    <3> QED
      BY <3>2, <3>4 DEF f
  <2> QED
    BY <1>11, <2>1, <2>2, <2>3
<1> HIDE DEF f
<1> DEFINE g == f \o <<first>>
<1>13. g \in Seq(S) /\ (\A j \in 0..len - 1 : Reached(g, j)) /\ KeyedAt(g, k) = {Len(a) + 1}
  <2>1. <<first>> \in Seq(S)
    BY <1>8, ReachedOne
  <2>2. g \in Seq(S) /\ \A j : Reached(f, j) \/ Reached(<<first>>, j) => Reached(g, j)
    BY <1>12, <2>1, ReachedBoth
  <2>3. KeyedAt(g, k) = KeyedAt(f, k)
    BY ONLY <1>8, <1>12, <2>1, KeyedConcat
  <2> QED
    BY <1>12, <2>2, <2>3
<1> HIDE DEF g
<1> DEFINE h == g \o <<second>>
<1>14. h \in Seq(S) /\ (\A j \in 0..len - 1 : Reached(h, j)) /\ KeyedAt(h, k) = {Len(a) + 1}
  <2>1. <<second>> \in Seq(S)
    BY <1>8, ReachedOne
  <2>2. h \in Seq(S) /\ \A j : Reached(g, j) \/ Reached(<<second>>, j) => Reached(h, j)
    BY <1>13, <2>1, ReachedBoth
  <2>3. KeyedAt(h, k) = KeyedAt(g, k)
    <3>1. g \in Seq(S) /\ <<second>> \in Seq(S) /\ KeyedAt(<<second>>, k) = {}
      BY <1>8, <1>13, <2>1
    <3>2. PICK u : u = <<second>>
      OBVIOUS
    <3>3. g \in Seq(S) /\ u \in Seq(S) /\ KeyedAt(u, k) = {}
      BY <3>1, <3>2
    <3>4. KeyedAt(g \o u, k) = KeyedAt(g, k)
      BY ONLY <3>3, KeyedConcat
    <3> QED
      BY <3>2, <3>4 DEF h
  <2> QED
    BY <1>13, <2>2, <2>3
<1>15. Cardinality({Len(a) + 1}) = 1
  BY FS_Singleton
<1>16. mixes = g \/ mixes = h
  BY <1>9 DEF f, g
<1> QED
  BY <1>13, <1>14, <1>15, <1>16 DEF S, k, Covering

(* Mixings that reach every byte, and stay inside, cover the input.         *)
LEMMA ReachedCovers ==
  ASSUME NEW len \in Nat, NEW size \in Nat, NEW h, Covering(h.mixes, len, size)
  PROVE  Covered(Reads(h)) = 0..len - 1 /\ Covered(Keys(h)) \subseteq 0..size - 1
<1> DEFINE mixes == h.mixes
<1>1. ASSUME NEW m \in DOMAIN mixes
      PROVE  mixes[m].in \in Seq(Pieces(len)) /\ mixes[m].key \in Seq(Pieces(size))
  <2>1. mixes[m] \in Inside(len, size)
    BY DEF Covering
  <2> QED
    BY <2>1 DEF Inside
<1>2. ASSUME NEW n \in Nat, NEW c \in Pieces(n) PROVE c[1]..c[1] + c[2] - 1 \subseteq 0..n - 1
  BY PieceFields
<1>3. ASSUME NEW w \in Reads(h) PROVE w \in Pieces(len)
  BY <1>1 DEF Reads, Range
<1>4. ASSUME NEW w \in Keys(h) PROVE w \in Pieces(size)
  BY <1>1 DEF Keys, Range
<1>5. ASSUME NEW j \in 0..len - 1 PROVE j \in Covered(Reads(h))
  <2>1. PICK m \in DOMAIN mixes : Touches(mixes[m], j)
    BY DEF Reached, Covering
  <2>2. PICK r \in DOMAIN mixes[m].in :
          mixes[m].in[r][1] <= j /\ j < mixes[m].in[r][1] + mixes[m].in[r][2]
    BY <2>1 DEF Touches
  <2> DEFINE w == mixes[m].in[r]
  <2>3. w \in Reads(h) /\ w \in Pieces(len)
    BY <1>1 DEF Reads, Range
  <2>4. j \in w[1]..w[1] + w[2] - 1
    <3>1. w[1] <= j /\ j < w[1] + w[2]
      BY <2>2
    <3> HIDE DEF w
    <3>2. w[1] \in Nat /\ w[2] \in Nat
      BY <2>3, PieceFields
    <3> QED
      BY <3>1, <3>2
  <2> HIDE DEF w
  <2> QED
    BY <2>3, <2>4 DEF Covered
<1>6. ASSUME NEW j \in Covered(Reads(h)) PROVE j \in 0..len - 1
  BY <1>2, <1>3 DEF Covered
<1>7. ASSUME NEW j \in Covered(Keys(h)) PROVE j \in 0..size - 1
  BY <1>2, <1>4 DEF Covered
<1> QED
  BY <1>5, <1>6, <1>7

(* The short hashes, and every hash.                                        *)
ShortHash(h, len, secret, s) ==
  \E by, mixes : /\ h = X3!Hash(by, mixes, len, secret, s)
                 /\ by # "long"
                 /\ Covering(mixes, len, secret.size)

(* Up to 240 bytes are hashed by a function that reads every byte and keeps *)
(* inside its secret.                                                       *)
LEMMA ShortReads ==
  ASSUME NEW bits \in {64, 128}, NEW len \in 0..240, NEW s, NEW secret, NEW longSecret,
         secret.size \in Nat, secret.size >= 136
  PROVE  ShortHash(X3!Internal(bits, len, s, secret, longSecret), len, secret, s)
<1>1. PICK size \in Nat : size = secret.size /\ size >= 136
  OBVIOUS
<1> DEFINE h == X3!Internal(bits, len, s, secret, longSecret)
<1>2. ASSUME NEW by, by # "long", NEW mixes, Covering(mixes, len, size),
             h = X3!Hash(by, mixes, len, secret, s)
      PROVE  ShortHash(h, len, secret, s)
  <2> HIDE DEF h
  <2> QED
    BY <1>1, <1>2 DEF ShortHash
<1>3. CASE len \in 0..16
  <2>1. bits = 64 => h = X3!Hash("0to16", X3!Len0to16_64(len), len, secret, s)
    BY <1>3 DEF X3!Internal, X3!Internal64, X3!MidSizeMax
  <2>2. bits = 128 => h = X3!Hash("0to16", X3!Len0to16_128(len), len, secret, s)
    BY <1>3 DEF X3!Internal, X3!Internal128, X3!MidSizeMax
  <2>3. Covering(X3!Len0to16_64(len), len, size)
    BY <1>1, <1>3, ReadsUpTo16
  <2>4. Covering(X3!Len0to16_128(len), len, size)
    BY <1>1, <1>3, ReadsUpTo16
  <2>5. "0to16" # "long" /\ (bits = 64 \/ bits = 128)
    OBVIOUS
  <2> HIDE DEF h
  <2>6. ASSUME bits = 64 PROVE ShortHash(h, len, secret, s)
    BY ONLY <1>2, <2>1, <2>3, <2>5, <2>6
  <2>7. ASSUME bits = 128 PROVE ShortHash(h, len, secret, s)
    BY ONLY <1>2, <2>2, <2>4, <2>5, <2>7
  <2> QED
    BY <2>5, <2>6, <2>7 DEF h
<1>4. CASE len \in 17..128
  <2>1. bits = 64 => h = X3!Hash("17to128", X3!Len17to128_64(len), len, secret, s)
    BY <1>4 DEF X3!Internal, X3!Internal64, X3!MidSizeMax
  <2>2. bits = 128 => h = X3!Hash("17to128", X3!Len17to128_128(len), len, secret, s)
    BY <1>4 DEF X3!Internal, X3!Internal128, X3!MidSizeMax
  <2>3. Covering(X3!Len17to128_64(len), len, size)
    BY <1>1, <1>4, Reads17to128
  <2>4. Covering(X3!Len17to128_128(len), len, size)
    BY <1>1, <1>4, Reads17to128
  <2>5. "17to128" # "long" /\ (bits = 64 \/ bits = 128)
    OBVIOUS
  <2> HIDE DEF h
  <2>6. ASSUME bits = 64 PROVE ShortHash(h, len, secret, s)
    BY ONLY <1>2, <2>1, <2>3, <2>5, <2>6
  <2>7. ASSUME bits = 128 PROVE ShortHash(h, len, secret, s)
    BY ONLY <1>2, <2>2, <2>4, <2>5, <2>7
  <2> QED
    BY <2>5, <2>6, <2>7 DEF h
<1>5. CASE len \in 129..240
  <2>1. bits = 64 => h = X3!Hash("129to240", X3!Len129to240_64(len), len, secret, s)
    BY <1>5 DEF X3!Internal, X3!Internal64, X3!MidSizeMax
  <2>2. bits = 128 => h = X3!Hash("129to240", X3!Len129to240_128(len), len, secret, s)
    BY <1>5 DEF X3!Internal, X3!Internal128, X3!MidSizeMax
  <2>3. Covering(X3!Len129to240_64(len), len, size)
    BY <1>1, <1>5, Reads129to240In64
  <2>4. Covering(X3!Len129to240_128(len), len, size)
    BY <1>1, <1>5, Reads129to240In128
  <2>5. "129to240" # "long" /\ (bits = 64 \/ bits = 128)
    OBVIOUS
  <2> HIDE DEF h
  <2>6. ASSUME bits = 64 PROVE ShortHash(h, len, secret, s)
    BY ONLY <1>2, <2>1, <2>3, <2>5, <2>6
  <2>7. ASSUME bits = 128 PROVE ShortHash(h, len, secret, s)
    BY ONLY <1>2, <2>2, <2>4, <2>5, <2>7
  <2> QED
    BY <2>5, <2>6, <2>7 DEF h
<1> QED
  BY <1>3, <1>4, <1>5

HashLong(bits, len, secret) ==
  IF bits = 64 THEN X3!HashLong64(len, secret) ELSE X3!HashLong128(len, secret)

(* More than 240 bytes are hashed by the long function.                     *)
LEMMA LongIsHashLong ==
  ASSUME NEW bits \in {64, 128}, NEW len \in Nat, len > 240, NEW s, NEW secret, NEW longSecret
  PROVE  X3!Internal(bits, len, s, secret, longSecret) = HashLong(bits, len, longSecret)
BY DEF X3!Internal, X3!Internal64, X3!Internal128, X3!MidSizeMax, HashLong

(* A hash reads its input and keeps inside its secret.                      *)
HashReads(h, len) ==
  /\ h.secret.size \in Nat
  /\ Covered(Reads(h)) = 0..len - 1
  /\ Covered(Keys(h)) \subseteq 0..h.secret.size - 1
  /\ h.by = "long" => Cardinality(KeyedAt(h.mixes, h.secret.size - 71)) = 1

(* So every one-shot hash reads its input and keeps inside its secret.      *)
LEMMA InternalReads ==
  ASSUME NEW bits \in {64, 128}, NEW len \in Nat, NEW s, NEW secret, NEW longSecret,
         secret.size \in Nat, secret.size >= 136, longSecret.size \in Nat, longSecret.size >= 136
  PROVE  HashReads(X3!Internal(bits, len, s, secret, longSecret), len)
<1> DEFINE h == X3!Internal(bits, len, s, secret, longSecret)
<1>1. CASE len \in 0..240
  <2>1. PICK by, mixes :
          /\ h = X3!Hash(by, mixes, len, secret, s)
          /\ by # "long"
          /\ Covering(mixes, len, secret.size)
    <3>1. ShortHash(h, len, secret, s)
      BY <1>1, ShortReads
    <3> QED
      BY <3>1 DEF ShortHash
  <2> HIDE DEF h
  <2>2. h.mixes = mixes /\ h.secret = secret /\ h.by # "long"
    BY <2>1 DEF X3!Hash
  <2>3. Covered(Reads(h)) = 0..len - 1 /\ Covered(Keys(h)) \subseteq 0..secret.size - 1
    BY <2>1, <2>2, ReachedCovers
  <2> QED
    BY <2>2, <2>3 DEF HashReads, h
<1>2. CASE len > 240
  <2>1. PICK size \in Nat : size = longSecret.size /\ size >= 136
    OBVIOUS
  <2>2. PICK mixes : /\ h = X3!Hash("long", mixes, len, longSecret, 0)
                     /\ \/ mixes = X3!Merge64(X3!LongLoop(len, size), size)
                        \/ mixes = X3!Merge128(X3!LongLoop(len, size), size)
    <3>1. h = HashLong(bits, len, longSecret)
      BY <1>2, LongIsHashLong
    <3> QED
      BY <2>1, <3>1 DEF HashLong, X3!HashLong64, X3!HashLong128
  <2> HIDE DEF h
  <2>3. /\ Covering(mixes, len, size)
        /\ Cardinality(KeyedAt(mixes, size - 71)) = 1
    <3>1. /\ size \in Nat /\ size >= 136 /\ len \in Nat /\ len > 240
          /\ \/ mixes = X3!Merge64(X3!LongLoop(len, size), size)
             \/ mixes = X3!Merge128(X3!LongLoop(len, size), size)
      BY <1>2, <2>1, <2>2
    <3> QED
      BY ONLY <3>1, LongReads
  <2>4. h.mixes = mixes /\ h.secret = longSecret
    BY <2>2 DEF X3!Hash
  <2>5. Covered(Reads(h)) = 0..len - 1 /\ Covered(Keys(h)) \subseteq 0..size - 1
    BY <2>3, <2>4, ReachedCovers
  <2> QED
    BY <2>1, <2>3, <2>4, <2>5 DEF HashReads, h
<1> QED
  BY <1>1, <1>2

(* The secrets are long enough.                                             *)
LEMMA SecretSizes ==
  /\ X3!kSecret.size = 192 /\ (\A s : X3!CustomSecret(s).size = 192 /\ X3!SeededSecret(s).size = 192)
  /\ \A n : X3!UserSecret(n).size = n
BY DEF X3!kSecret, X3!CustomSecret, X3!SeededSecret, X3!UserSecret, X3!Secret, X3!SecretSize

(* The one-shot hash of what a reset stream was given does.                 *)
LEMMA OneShotReads ==
  ASSUME Xxh3Inv, IsReset, NEW bits \in {64, 128}
  PROVE  HashReads(OneShot(bits), totalLen)
<1>1. totalLen \in Nat
  BY DEF Xxh3Inv, Held
<1>2. ASSUME NEW s, NEW secret, NEW longSecret, secret.size \in Nat, secret.size >= 136,
             longSecret.size \in Nat, longSecret.size >= 136
      PROVE  HashReads(X3!Internal(bits, totalLen, s, secret, longSecret), totalLen)
  BY <1>1, <1>2, InternalReads
<1>3. \A n \in UserSizes : n \in Nat /\ n >= 136
  BY XxhAssumption
<1>4. 192 \in Nat /\ 192 >= 136
  OBVIOUS
<1>5. CASE reset = X3!Called("plain", X3!kSecret, 0)
  <2>1. OneShot(bits) = X3!Internal(bits, totalLen, 0, X3!kSecret, X3!kSecret)
    BY <1>5 DEF OneShot, X3!Called, X3!Plain
  <2> QED
    BY <1>2, <1>4, <2>1, SecretSizes
<1>6. ASSUME NEW n \in UserSizes, reset = X3!Called("secret", X3!UserSecret(n), 0)
      PROVE  HashReads(OneShot(bits), totalLen)
  <2>1. OneShot(bits) = X3!Internal(bits, totalLen, 0, X3!UserSecret(n), X3!UserSecret(n))
    BY <1>6 DEF OneShot, X3!Called, X3!WithSecret
  <2> QED
    BY <1>2, <1>3, <2>1, SecretSizes
<1>7. ASSUME NEW s \in Seeds, reset = X3!Called("seed", X3!NullSecret, s)
      PROVE  HashReads(OneShot(bits), totalLen)
  <2>1. OneShot(bits) = X3!Internal(bits, totalLen, s, X3!kSecret, X3!SeededSecret(s))
    BY <1>7 DEF OneShot, X3!Called, X3!WithSeed
  <2> QED
    BY <1>2, <1>4, <2>1, SecretSizes
<1>8. ASSUME NEW n \in UserSizes, NEW s \in Seeds, reset = X3!Called("secretAndSeed", X3!UserSecret(n), s)
      PROVE  HashReads(OneShot(bits), totalLen)
  <2>1. OneShot(bits) = X3!Internal(bits, totalLen, s, X3!kSecret, X3!UserSecret(n))
    BY <1>8 DEF OneShot, X3!Called, X3!WithSecretAndSeed
  <2> QED
    BY <1>2, <1>3, <1>4, <2>1, SecretSizes
<1> QED
  BY <1>5, <1>6, <1>7, <1>8 DEF Xxh3Inv, ResetIs, IsReset

(* Xxh3Inv relates the digests of the stream to it.                         *)
LEMMA Xxh3ReadsItsInput == Xxh3Inv => ReadsItsInput
<1> SUFFICES ASSUME Xxh3Inv, IsReset, NEW bits \in {64, 128}
      PROVE  LET h    == OneShot(bits)
                 last == h.secret.size - 64 - 7
             IN  /\ Covered(Reads(h)) = 0..totalLen - 1
                 /\ Covered(Keys(h)) \subseteq 0..h.secret.size - 1
                 /\ h.by = "long" =>
                      Cardinality({m \in DOMAIN h.mixes : h.mixes[m].key[1][1] = last}) = 1
  BY DEF ReadsItsInput, X3!StripeLen, X3!LastAccStart
<1> DEFINE h == OneShot(bits)
<1>1. HashReads(h, totalLen)
  BY OneShotReads
<1> HIDE DEF h
<1>2. /\ Covered(Reads(h)) = 0..totalLen - 1
      /\ Covered(Keys(h)) \subseteq 0..h.secret.size - 1
      /\ h.by = "long" =>
           Cardinality({m \in DOMAIN h.mixes : h.mixes[m].key[1][1] = h.secret.size - 64 - 7}) = 1
  <2>1. PICK size \in Nat : size = h.secret.size
    BY <1>1 DEF HashReads
  <2>2. size - 71 = size - 64 - 7
    OBVIOUS
  <2>3. KeyedAt(h.mixes, size - 71) = {m \in DOMAIN h.mixes : h.mixes[m].key[1][1] = size - 64 - 7}
    BY <2>2 DEF KeyedAt
  <2> QED
    BY ONLY <1>1, <2>1, <2>3 DEF HashReads
<1> QED
  BY ONLY <1>2 DEF h

--------------------------------------------------------------------------------
(* XXH3: the digest is the hash.                                            *)

(* A short input is in the buffer, from its start on.                       *)
LEMMA ShortInBuffer ==
  ASSUME Xxh3Inv, IsReset, totalLen <= 240, NEW w \in Pieces(totalLen)
  PROVE  X3!Window(X3!BytesIn(w[1], w[2])) = w
<1>1. /\ buffer \in [0..255 -> Int] /\ bufferedSize \in 0..256 /\ totalLen \in Nat
      /\ \A i \in 0..bufferedSize - 1 : buffer[i] = totalLen - bufferedSize + i
      /\ totalLen > bufferedSize => totalLen > 256
  BY DEF Xxh3Inv, Held
<1>2. totalLen >= bufferedSize
  <2>1. PICK m \in Nat : totalLen = m * 64 + bufferedSize
    BY HeldStripes
  <2> QED
    BY <1>1, <2>1
<1>3. totalLen = bufferedSize
  BY <1>1, <1>2
<1>4. PICK base \in Int : base = 0
  OBVIOUS
<1>5. InOrder(buffer, base, totalLen, base)
  <2>1. ASSUME NEW i \in 0..totalLen - 1 PROVE buffer[i] = 0 + i
    BY <1>1, <1>3
  <2> QED
    BY <1>4, <2>1 DEF InOrder
<1>6. PICK o \in Nat, n \in Nat : w = <<o, n>> /\ n > 0 /\ o + n <= totalLen
  BY <1>1, PieceFields
<1>7. /\ totalLen \in 0..256 /\ o >= base /\ base + o >= 0 /\ base + o = o
  BY <1>1, <1>3, <1>4
<1>8. X3!Window(X3!BytesIn(o, n)) = <<base + o, n>>
  <2>1. buffer \in [0..255 -> Int]
    BY <1>1
  <2> QED
    BY ONLY <1>5, <1>6, <1>7, <2>1, PieceOfBuffer
<1> QED
  BY <1>6, <1>7, <1>8

(* Up to 240 bytes are still in the buffer, at their places.                *)
LEMMA OfBufferIs ==
  ASSUME Xxh3Inv, IsReset, totalLen <= 240, NEW h, NEW secret, NEW s,
         ShortHash(h, totalLen, secret, s)
  PROVE  X3!OfBuffer(h) = h
<1>1. PICK by, mixes : /\ h = X3!Hash(by, mixes, totalLen, secret, s)
                       /\ Covering(mixes, totalLen, secret.size)
  BY DEF ShortHash
<1>2. \A m \in DOMAIN mixes : mixes[m] \in Inside(totalLen, secret.size)
  BY <1>1 DEF Covering
<1>3. mixes = [m \in DOMAIN mixes |-> mixes[m]]
  BY <1>1 DEF Covering
<1>4. ASSUME NEW m \in DOMAIN mixes
      PROVE  [mixes[m] EXCEPT !.in = [r \in DOMAIN mixes[m].in |->
                X3!Window(X3!BytesIn(mixes[m].in[r][1], mixes[m].in[r][2]))]] = mixes[m]
  <2> DEFINE mix == mixes[m]
             in  == mix.in
  <2>1. mix \in Inside(totalLen, secret.size)
    BY <1>2
  <2>2. in \in Seq(Pieces(totalLen)) /\ mix = [in |-> in, key |-> mix.key]
    BY <2>1 DEF Inside
  <2> HIDE DEF mix, in
  <2>3. \A r \in DOMAIN in : X3!Window(X3!BytesIn(in[r][1], in[r][2])) = in[r]
    BY <2>2, ShortInBuffer
  <2>4. [r \in DOMAIN in |-> X3!Window(X3!BytesIn(in[r][1], in[r][2]))] = in
    BY <2>2, <2>3
  <2>5. [mix EXCEPT !.in = in] = mix
    BY <2>2
  <2>6. [mix EXCEPT !.in = [r \in DOMAIN in |-> X3!Window(X3!BytesIn(in[r][1], in[r][2]))]] = mix
    BY ONLY <2>4, <2>5
  <2> QED
    BY ONLY <2>6 DEF mix, in
<1>5. [m \in DOMAIN mixes |->
         [mixes[m] EXCEPT !.in = [r \in DOMAIN mixes[m].in |->
            X3!Window(X3!BytesIn(mixes[m].in[r][1], mixes[m].in[r][2]))]]] = mixes
  BY ONLY <1>3, <1>4
<1>6. h.mixes = mixes /\ [h EXCEPT !.mixes = mixes] = h
  BY <1>1 DEF X3!Hash
<1> QED
  BY ONLY <1>5, <1>6 DEF X3!OfBuffer

(* The short digests, with a secret that is long enough.                    *)
LEMMA ShortDigest ==
  ASSUME Xxh3Inv, IsReset, totalLen <= 240, NEW bits \in {64, 128},
         X3!SecretInUse.size \in Nat, X3!SecretInUse.size >= 136
  PROVE  /\ X3!DigestShort(bits, TRUE) = X3!Internal(bits, totalLen, seed, X3!kSecret, X3!SeededSecret(seed))
         /\ X3!DigestShort(bits, FALSE) = X3!Internal(bits, totalLen, 0, X3!SecretInUse, X3!SecretInUse)
<1>1. totalLen \in 0..240
  <2>1. totalLen \in Nat
    BY DEF Xxh3Inv, Held
  <2> QED
    BY <2>1
<1>2. X3!kSecret.size \in Nat /\ X3!kSecret.size >= 136
  BY SecretSizes
<1>3. ASSUME NEW s, NEW secret, NEW long, secret.size \in Nat, secret.size >= 136
      PROVE  X3!OfBuffer(X3!Internal(bits, totalLen, s, secret, long)) = X3!Internal(bits, totalLen, s, secret, long)
  <2>1. ShortHash(X3!Internal(bits, totalLen, s, secret, long), totalLen, secret, s)
    BY <1>1, <1>3, ShortReads
  <2> QED
    BY <1>1, <2>1, OfBufferIs
<1>4. X3!DigestShort(bits, TRUE) = X3!Internal(bits, totalLen, seed, X3!kSecret, X3!SeededSecret(seed))
  BY <1>2, <1>3 DEF X3!DigestShort, X3!WithSeed
<1>5. X3!DigestShort(bits, FALSE) = X3!Internal(bits, totalLen, 0, X3!SecretInUse, X3!SecretInUse)
  BY <1>3 DEF X3!DigestShort, X3!WithSecret
<1> QED
  BY <1>4, <1>5

(* Short inputs do not ask for the secret of long ones.                     *)
LEMMA ShortForgets ==
  ASSUME NEW bits \in {64, 128}, NEW len \in 0..240, NEW s, NEW secret, NEW one, NEW two
  PROVE  X3!Internal(bits, len, s, secret, one) = X3!Internal(bits, len, s, secret, two)
BY DEF X3!Internal, X3!Internal64, X3!Internal128, X3!MidSizeMax

(* The secret and the seed that are in use, for each kind of reset.         *)
InUse ==
  \/ /\ reset = X3!Called("plain", X3!kSecret, 0)
     /\ seed = 0 /\ useSeed = FALSE /\ X3!SecretInUse = X3!kSecret
  \/ \E n \in UserSizes :
       /\ reset = X3!Called("secret", X3!UserSecret(n), 0)
       /\ seed = 0 /\ useSeed = FALSE /\ X3!SecretInUse = X3!UserSecret(n)
  \/ \E s \in Seeds \ {0} :
       /\ reset = X3!Called("seed", X3!NullSecret, s)
       /\ seed = s /\ useSeed = TRUE /\ X3!SecretInUse = X3!CustomSecret(s)
  \/ \E n \in UserSizes, s \in Seeds :
       /\ reset = X3!Called("secretAndSeed", X3!UserSecret(n), s)
       /\ seed = s /\ useSeed = TRUE /\ X3!SecretInUse = X3!UserSecret(n)

(* The secret in use is the one the last reset asked for.                   *)
LEMMA SecretOfReset ==
  ASSUME Xxh3Inv, IsReset
  PROVE  /\ InUse
         /\ X3!SecretInUse.size = secretLimit + 64
         /\ X3!SecretInUse.size \in Nat /\ X3!SecretInUse.size >= 136
<1>1. \A n \in UserSizes : n \in Nat /\ n >= 136
  BY XxhAssumption
<1>2. CASE /\ reset = X3!Called("plain", X3!kSecret, 0)
           /\ seed = 0 /\ useSeed = FALSE /\ extSecret = X3!kSecret /\ secretLimit = 192 - 64
  <2>1. X3!SecretInUse = X3!kSecret
    BY <1>2, SecretsDiffer DEF X3!SecretInUse
  <2>2. InUse
    BY <1>2, <2>1 DEF InUse
  <2> QED
    BY <1>2, <2>1, <2>2, SecretSizes
<1>3. ASSUME NEW n \in UserSizes, reset = X3!Called("secret", X3!UserSecret(n), 0),
             seed = 0, useSeed = FALSE, extSecret = X3!UserSecret(n), secretLimit = n - 64
      PROVE  /\ InUse /\ X3!SecretInUse.size = secretLimit + 64
             /\ X3!SecretInUse.size \in Nat /\ X3!SecretInUse.size >= 136
  <2>1. X3!SecretInUse = X3!UserSecret(n)
    BY <1>1, <1>3, SecretsDiffer DEF X3!SecretInUse
  <2>2. InUse
    BY <1>3, <2>1 DEF InUse
  <2> QED
    BY <1>1, <1>3, <2>1, <2>2, SecretSizes
<1>4. ASSUME NEW s \in Seeds \ {0}, reset = X3!Called("seed", X3!NullSecret, s),
             seed = s, useSeed = TRUE, extSecret = X3!NullSecret, secretLimit = 192 - 64
      PROVE  /\ InUse /\ X3!SecretInUse.size = secretLimit + 64
             /\ X3!SecretInUse.size \in Nat /\ X3!SecretInUse.size >= 136
  <2>1. X3!SecretInUse = X3!CustomSecret(s)
    BY <1>4 DEF X3!SecretInUse, Xxh3Inv
  <2>2. InUse
    BY <1>4, <2>1 DEF InUse
  <2> QED
    BY <1>4, <2>1, <2>2, SecretSizes
<1>5. ASSUME NEW n \in UserSizes, NEW s \in Seeds, reset = X3!Called("secretAndSeed", X3!UserSecret(n), s),
             seed = s, useSeed = TRUE, extSecret = X3!UserSecret(n), secretLimit = n - 64
      PROVE  /\ InUse /\ X3!SecretInUse.size = secretLimit + 64
             /\ X3!SecretInUse.size \in Nat /\ X3!SecretInUse.size >= 136
  <2>1. X3!SecretInUse = X3!UserSecret(n)
    BY <1>1, <1>5, SecretsDiffer DEF X3!SecretInUse
  <2>2. InUse
    BY <1>5, <2>1 DEF InUse
  <2> QED
    BY <1>1, <1>5, <2>1, <2>2, SecretSizes
<1>6. ResetIs /\ reset.variant # "none"
  BY DEF Xxh3Inv, IsReset
<1> QED
  BY ONLY <1>2, <1>3, <1>4, <1>5, <1>6 DEF ResetIs

(* The digests, when the hash is as long as the buffer can tell.            *)
LEMMA LongDigest ==
  ASSUME Xxh3Inv, IsReset, totalLen > 240
  PROVE  /\ X3!Digest64 = X3!HashLong64(totalLen, X3!SecretInUse)
         /\ X3!Digest128 = X3!HashLong128(totalLen, X3!SecretInUse)
<1>1. X3!DigestLong = X3!LongLoop(totalLen, secretLimit + 64)
  <2>1. bufferedSize \in 0..256
    BY DEF Xxh3Inv, Held
  <2> QED
    BY <2>1, DigestFromBuffer, DigestFromEnd
<1>2. X3!SecretInUse.size = secretLimit + 64
  BY SecretOfReset
<1>3. /\ X3!Digest64 = X3!Hash("long", X3!Merge64(X3!DigestLong, secretLimit + 64), totalLen, X3!SecretInUse, 0)
      /\ X3!Digest128 = X3!Hash("long", X3!Merge128(X3!DigestLong, secretLimit + 64), totalLen, X3!SecretInUse, 0)
  BY DEF X3!Digest64, X3!Digest128, X3!MidSizeMax, X3!StripeLen
<1> QED
  BY ONLY <1>1, <1>2, <1>3 DEF X3!HashLong64, X3!HashLong128

(* What the one-shot function is, for each kind of reset.                   *)
LEMMA OneShotIs ==
  ASSUME NEW bits \in {64, 128}, NEW secret, NEW s
  PROVE  /\ reset = X3!Called("plain", secret, s) =>
              OneShot(bits) = X3!Internal(bits, totalLen, 0, X3!kSecret, X3!kSecret)
         /\ reset = X3!Called("secret", secret, s) =>
              OneShot(bits) = X3!Internal(bits, totalLen, 0, secret, secret)
         /\ reset = X3!Called("seed", secret, s) =>
              OneShot(bits) = X3!Internal(bits, totalLen, s, X3!kSecret, X3!SeededSecret(s))
         /\ reset = X3!Called("secretAndSeed", secret, s) =>
              OneShot(bits) = X3!Internal(bits, totalLen, s, X3!kSecret, secret)
BY DEF OneShot, X3!Called, X3!Plain, X3!WithSecret, X3!WithSeed, X3!WithSecretAndSeed

(* A long input: all that matters is the secret.                            *)
LEMMA LongOneShot ==
  ASSUME Xxh3Inv, IsReset, totalLen > 240, NEW bits \in {64, 128}
  PROVE  OneShot(bits) = HashLong(bits, totalLen, X3!SecretInUse)
<1>1. totalLen \in Nat
  BY DEF Xxh3Inv, Held
<1>2. \A s, secret, long : X3!Internal(bits, totalLen, s, secret, long) = HashLong(bits, totalLen, long)
  BY <1>1, LongIsHashLong
<1>3. \A s \in Seeds \ {0} : X3!SeededSecret(s) = X3!CustomSecret(s)
  BY DEF X3!SeededSecret
<1>4. InUse
  BY SecretOfReset
<1>5. CASE reset = X3!Called("plain", X3!kSecret, 0) /\ X3!SecretInUse = X3!kSecret
  BY <1>2, <1>5, OneShotIs
<1>6. ASSUME NEW n \in UserSizes, reset = X3!Called("secret", X3!UserSecret(n), 0), X3!SecretInUse = X3!UserSecret(n)
      PROVE  OneShot(bits) = HashLong(bits, totalLen, X3!SecretInUse)
  BY <1>2, <1>6, OneShotIs
<1>7. ASSUME NEW s \in Seeds \ {0}, reset = X3!Called("seed", X3!NullSecret, s), X3!SecretInUse = X3!CustomSecret(s)
      PROVE  OneShot(bits) = HashLong(bits, totalLen, X3!SecretInUse)
  BY <1>2, <1>3, <1>7, OneShotIs
<1>8. ASSUME NEW n \in UserSizes, NEW s \in Seeds, reset = X3!Called("secretAndSeed", X3!UserSecret(n), s),
             X3!SecretInUse = X3!UserSecret(n)
      PROVE  OneShot(bits) = HashLong(bits, totalLen, X3!SecretInUse)
  BY <1>2, <1>8, OneShotIs
<1> QED
  BY ONLY <1>4, <1>5, <1>6, <1>7, <1>8 DEF InUse

(* With Xxh3Inv, the digest is the one-shot hash: of the buffer for a short *)
(* input, else of what the accumulators and the buffer hold.                *)
LEMMA Xxh3Digests == Xxh3Inv => Xxh3DigestIsOneShot
<1> SUFFICES ASSUME Xxh3Inv, IsReset
      PROVE  /\ X3!Digest64 = OneShot(64)
             /\ X3!Digest128 = IF reset.variant = "secretAndSeed" /\ reset.seed = 0 /\ totalLen <= 240
                               THEN X3!WithSecret(128, totalLen, reset.secret)
                               ELSE OneShot(128)
  BY DEF Xxh3DigestIsOneShot
<1>1. totalLen \in Nat
  BY DEF Xxh3Inv, Held
<1>2. CASE totalLen > 240
  <2>1. X3!Digest64 = OneShot(64) /\ X3!Digest128 = OneShot(128)
    BY <1>2, LongDigest, LongOneShot DEF HashLong
  <2>2. ~(totalLen <= 240)
    BY <1>1, <1>2
  <2> QED
    BY <2>1, <2>2
<1>3. CASE totalLen <= 240
  <2>1. /\ X3!Digest64 = X3!DigestShort(64, useSeed)
        /\ X3!Digest128 = X3!DigestShort(128, seed # 0)
    BY <1>1, <1>3 DEF X3!Digest64, X3!Digest128, X3!MidSizeMax
  <2> DEFINE inUse == X3!SecretInUse
  <2>2. \A bits \in {64, 128} :
          /\ X3!DigestShort(bits, TRUE) = X3!Internal(bits, totalLen, seed, X3!kSecret, X3!SeededSecret(seed))
          /\ X3!DigestShort(bits, FALSE) = X3!Internal(bits, totalLen, 0, inUse, inUse)
    BY <1>3, SecretOfReset, ShortDigest, ZenonT(40)
  <2>3. totalLen \in 0..240
    BY <1>1, <1>3
  <2>4. InUse
    BY SecretOfReset
  <2>5. CASE /\ reset = X3!Called("plain", X3!kSecret, 0)
             /\ seed = 0 /\ useSeed = FALSE /\ X3!SecretInUse = X3!kSecret
    <3>1. reset.variant # "secretAndSeed"
      BY <2>5, VariantOf
    <3> QED
      BY <2>1, <2>2, <2>5, <3>1, OneShotIs
  <2>6. ASSUME NEW n \in UserSizes, reset = X3!Called("secret", X3!UserSecret(n), 0),
               seed = 0, useSeed = FALSE, X3!SecretInUse = X3!UserSecret(n)
        PROVE  X3!Digest64 = OneShot(64) /\ X3!Digest128 = OneShot(128) /\ reset.variant # "secretAndSeed"
    <3>1. reset.variant # "secretAndSeed"
      BY <2>6, VariantOf
    <3> QED
      BY <2>1, <2>2, <2>6, <3>1, OneShotIs, ZenonT(40)
  <2>7. ASSUME NEW s \in Seeds \ {0}, reset = X3!Called("seed", X3!NullSecret, s),
               seed = s, useSeed = TRUE
        PROVE  X3!Digest64 = OneShot(64) /\ X3!Digest128 = OneShot(128) /\ reset.variant # "secretAndSeed"
    <3>1. reset.variant # "secretAndSeed" /\ (seed # 0) = TRUE
      BY <2>7, VariantOf
    <3>2. \A bits \in {64, 128} : OneShot(bits) = X3!Internal(bits, totalLen, s, X3!kSecret, X3!SeededSecret(s))
      BY <2>7, OneShotIs
    <3>3. X3!Digest64 = OneShot(64)
      BY <2>1, <2>2, <2>7, <3>2
    <3>4. X3!Digest128 = OneShot(128)
      BY <2>1, <2>2, <2>7, <3>1, <3>2
    <3> QED
      BY <3>1, <3>3, <3>4
  <2>8. ASSUME NEW n \in UserSizes, NEW s \in Seeds, reset = X3!Called("secretAndSeed", X3!UserSecret(n), s),
               seed = s, useSeed = TRUE, X3!SecretInUse = X3!UserSecret(n)
        PROVE  /\ X3!Digest64 = OneShot(64)
               /\ X3!Digest128 = IF reset.seed = 0 THEN X3!WithSecret(128, totalLen, reset.secret) ELSE OneShot(128)
               /\ reset.variant = "secretAndSeed"
    <3>1. reset.variant = "secretAndSeed" /\ reset.seed = s /\ reset.secret = X3!UserSecret(n)
      BY <2>8, VariantOf
    <3>2. \A bits \in {64, 128} : OneShot(bits) = X3!Internal(bits, totalLen, s, X3!kSecret, X3!SeededSecret(s))
      BY <2>3, <2>8, ShortForgets, OneShotIs
    <3>3. X3!Digest64 = OneShot(64)
      BY <2>1, <2>2, <2>8, <3>2
    <3>4. CASE s = 0
      <4>1. (seed # 0) = FALSE
        BY <2>8, <3>4
      <4>2. X3!Digest128 = X3!WithSecret(128, totalLen, reset.secret)
        BY <2>1, <2>2, <2>8, <3>1, <4>1 DEF X3!WithSecret
      <4> QED
        BY <3>1, <3>3, <3>4, <4>2
    <3>5. CASE s # 0
      <4>1. (seed # 0) = TRUE
        BY <2>8, <3>5
      <4>2. X3!Digest128 = OneShot(128)
        BY <2>1, <2>2, <2>8, <3>2, <4>1
      <4> QED
        BY <3>1, <3>3, <3>5, <4>2
    <3> QED
      BY <3>4, <3>5
  <2> QED
    BY ONLY <1>3, <2>4, <2>5, <2>6, <2>7, <2>8 DEF InUse
<1> QED
  BY <1>1, <1>2, <1>3

(* XXH32 and XXH64: after any sequence of resets and updates, of whatever   *)
(* sizes, the digest of a stream is the one-shot hash of its whole input    *)
(* (xxhash.h, XXH32_update, XXH32_digest and their 64-bit twins).           *)
THEOREM XxhStreamDigest == StreamSpec => []DigestIsOneShot
<1>1. XxhInv => DigestIsOneShot
  BY XxhDigests
<1> QED
  BY <1>1, XxhInitInv, XxhNextInv, PTL DEF StreamSpec

(* XXH3: after any reset, with or without a seed or a secret, the digests   *)
(* of 64 and 128 bits are the one-shot hashes of the input since, however   *)
(* it was cut into updates (XXH3_update, XXH3_digest_long), but for the     *)
(* short 128-bit digest with a secret and the seed 0.                       *)
THEOREM Xxh3StreamDigest == StreamSpec => []Xxh3DigestIsOneShot
<1> QED
  BY Xxh3InitInv, Xxh3NextInv, Xxh3Digests, PTL DEF StreamSpec

(* XXH3: a hash reads every byte of its input and none beyond, keeps inside *)
(* its secret, and a long one takes the last stripe once with the secret    *)
(* that only the last stripe has.                                           *)
THEOREM Xxh3StreamReads == StreamSpec => []ReadsItsInput
<1> QED
  BY Xxh3InitInv, Xxh3NextInv, Xxh3ReadsItsInput, PTL DEF StreamSpec

================================================================================
