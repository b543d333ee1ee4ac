--------------------------------- MODULE Deque ---------------------------------
(***************************************************************************)
(* What tm_queue.h offers: a queue of values that operations change one at *)
(* a time, at either end.  TmQueue implements it with a doubly linked list *)
(* and transactions that may be restarted.                                 *)
(***************************************************************************)
EXTENDS Naturals, Sequences

CONSTANT Values   \* values the client pushes

VARIABLES
  deque,    \* the content, front first
  exists    \* between queue_new and queue_destroy

vars == <<deque, exists>>

Init == deque = <<>> /\ exists = TRUE

PushBack(v)  == exists /\ deque' = Append(deque, v) /\ UNCHANGED exists
PushFront(v) == exists /\ deque' = <<v>> \o deque /\ UNCHANGED exists

PopFront ==
  /\ exists /\ deque # <<>>
  /\ deque' = Tail(deque)
  /\ UNCHANGED exists

PopBack ==
  /\ exists /\ deque # <<>>
  /\ deque' = SubSeq(deque, 1, Len(deque) - 1)
  /\ UNCHANGED exists

Destroy == exists /\ exists' = FALSE /\ deque' = <<>>

New == ~exists /\ exists' = TRUE /\ UNCHANGED deque

(* peak, and an operation that finds the queue empty or does not commit *)
NoChange == UNCHANGED vars

Next ==
  \/ NoChange
  \/ \E v \in Values : PushBack(v) \/ PushFront(v)
  \/ PopFront \/ PopBack
  \/ Destroy \/ New

Spec == Init /\ [][Next]_vars
================================================================================
