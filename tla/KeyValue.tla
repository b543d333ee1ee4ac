-------------------------------- MODULE KeyValue --------------------------------
(***************************************************************************)
(* What tm_hashmap.h offers: a map from keys to values that operations     *)
(* change one key at a time.  HashMap implements it with chains, buckets   *)
(* that are replaced by larger ones, and transactions.                     *)
(***************************************************************************)
CONSTANTS
  Keys,     \* keys of the map
  Vals,     \* values the clients store
  NoVal     \* the key is not in the map

VARIABLES
  map,
  exists    \* between hashmap_new and hashmap_destroy

vars == <<map, exists>>

Empty == [k \in Keys |-> NoVal]

Init == map = Empty /\ exists = TRUE

Put(k, v) == exists /\ map' = [map EXCEPT ![k] = v] /\ UNCHANGED exists

Delete(k) ==
  /\ exists /\ map[k] # NoVal
  /\ map' = [map EXCEPT ![k] = NoVal]
  /\ UNCHANGED exists

Destroy == exists /\ exists' = FALSE /\ map' = Empty

New == ~exists /\ exists' = TRUE /\ UNCHANGED map

Next ==
  \/ \E k \in Keys, v \in Vals : Put(k, v)
  \/ \E k \in Keys : Delete(k)
  \/ Destroy \/ New
================================================================================
