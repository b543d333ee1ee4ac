-------------------------------- MODULE AtomicTM --------------------------------
(***************************************************************************)
(* What a transactional memory without an undo log promises its clients:   *)
(* committed memory goes through versions, one after another; a            *)
(* transaction reads from one of them, whether it will commit or not; one  *)
(* that commits adds all of its writes and frees to the newest version.    *)
(* One that aborts has no effect as long as it is revocable.  One          *)
(* transaction at a time may be irrevocable (pledged), and if it fails     *)
(* nobody can take back what it has written so far: that is published,     *)
(* and nothing it freed is given back.                                     *)
(*                                                                         *)
(* Written once for TML and NOrec: no lock, no write set, no validation.   *)
(***************************************************************************)
EXTENDS Naturals

CONSTANTS
  Threads,    \* each runs one transaction after another
  Addrs,      \* locations
  Contents,   \* what a location may hold
  Junk,       \* what it holds once it was given back to the allocator
  NoVal,      \* "this transaction did not write the location"
  Initial     \* memory to begin with

VARIABLES
  versions,   \* versions[n]: the committed memory with stamp n
  latest,     \* the stamp of the newest one
  status,     \* status[t]: where t's transaction stands, or how the last one ended
  first,      \* first[t]: the newest version when that transaction began
  rd,         \* rd[t]: the <<location, value>> pairs it has read
  wr,         \* wr[t]: what it has written to each location, or NoVal
  fr          \* fr[t]: the locations its commit is to give back

store == <<versions, latest>>
vars  == <<versions, latest, status, first, rd, wr, fr>>

(*   active             runs and may still abort                            *)
(*   pledged            runs and is irrevocable                             *)
(*   closing            irrevocable and sure to commit, frees given back    *)
(*   failing            irrevocable and sure not to commit                  *)
(*   committed, aborted not in a transaction                                *)
Running == {"active", "pledged"}
Pledged == {"pledged", "closing", "failing"}

NoWrites == [a \in Addrs |-> NoVal]

Explains(n, r) == \A p \in r : versions[n][p[1]] = p[2]

Init ==
  /\ versions = [n \in {0} |-> Initial]
  /\ latest = 0
  /\ status = [t \in Threads |-> "committed"]
  /\ first = [t \in Threads |-> 0]
  /\ rd = [t \in Threads |-> {}]
  /\ wr = [t \in Threads |-> NoWrites]
  /\ fr = [t \in Threads |-> {}]

Begin(t) ==
  /\ status[t] \in {"committed", "aborted"}
  /\ status' = [status EXCEPT ![t] = "active"]
  /\ first' = [first EXCEPT ![t] = latest]
  /\ UNCHANGED <<store, rd, wr, fr>>

(* All it has read so far, this included, is in one version that is no      *)
(* older than the transaction.                                              *)
Read(t, a, v) ==
  /\ status[t] \in Running
  /\ wr[t][a] = NoVal
  /\ rd' = [rd EXCEPT ![t] = @ \cup {<<a, v>>}]
  /\ \E n \in DOMAIN versions : n >= first[t] /\ Explains(n, rd[t] \cup {<<a, v>>})
  /\ UNCHANGED <<store, status, first, wr, fr>>

Write(t, a, v) ==
  /\ status[t] \in Running
  /\ wr' = [wr EXCEPT ![t] = [@ EXCEPT ![a] = v]]
  /\ UNCHANGED <<store, status, first, rd, fr>>

(* Nobody else is irrevocable. *)
Alone(t) == \A s \in Threads \ {t} : status[s] \notin Pledged

(* A running transaction becomes irrevocable, if it is not, on the newest   *)
(* version.                                                                 *)
Pledge(t, s) ==
  /\ status[t] \in Running
  /\ status' = [status EXCEPT ![t] = s]
  /\ Alone(t)
  /\ Explains(latest, rd[t])
  /\ UNCHANGED <<store, first, rd, wr>>

Irrevoc(t) == Pledge(t, "pledged") /\ UNCHANGED fr

Free(t, a) == Pledge(t, "pledged") /\ fr' = [fr EXCEPT ![t] = @ \cup {a}]

(* It fails when it is irrevocable.  *)
Fail(t) == Pledge(t, "failing") /\ UNCHANGED fr

(* The first half of its commit. *)
GiveBack(t) ==
  /\ status[t] = "pledged"
  /\ status' = [status EXCEPT ![t] = "closing"]
  /\ wr' = [wr EXCEPT ![t] = [a \in Addrs |-> IF a \in fr[t] THEN Junk ELSE @[a]]]
  /\ fr' = [fr EXCEPT ![t] = {}]
  /\ UNCHANGED <<store, first, rd>>

(* The transaction is over and forgotten. *)
Leave(t, outcome) ==
  /\ status' = [status EXCEPT ![t] = outcome]
  /\ first' = [first EXCEPT ![t] = 0]
  /\ rd' = [rd EXCEPT ![t] = {}]
  /\ wr' = [wr EXCEPT ![t] = NoWrites]
  /\ fr' = [fr EXCEPT ![t] = {}]

(* What it read is what the newest version holds, and the version it adds   *)
(* differs from that one by its writes.                                     *)
Publish(t) ==
  /\ Alone(t)
  /\ Explains(latest, rd[t])
  /\ latest' > latest
  /\ versions' =
       [n \in DOMAIN versions \cup {latest'} |->
          IF n = latest'
          THEN [a \in Addrs |-> IF wr[t][a] = NoVal THEN versions[latest][a] ELSE wr[t][a]]
          ELSE versions[n]]

Abort(t) == status[t] = "active" /\ Leave(t, "aborted") /\ UNCHANGED store

CommitReader(t) ==
  /\ status[t] = "active"
  /\ wr[t] = NoWrites
  /\ Leave(t, "committed")
  /\ UNCHANGED store

CommitWriter(t) ==
  /\ status[t] \in {"active", "closing"}
  /\ Publish(t)
  /\ Leave(t, "committed")

LeaveTrace(t) ==
  /\ status[t] = "failing"
  /\ Publish(t)
  /\ Leave(t, "aborted")

(* Nothing a client could tell. *)
Idle == UNCHANGED vars

Next ==
  \/ Idle
  \/ \E t \in Threads :
       \/ Begin(t)
       \/ /\ status' = status
          /\ \E a \in Addrs, v \in Contents : Read(t, a, v) \/ Write(t, a, v)
       \/ /\ status'[t] = "pledged"
          /\ Irrevoc(t) \/ \E a \in Addrs : Free(t, a)
       \/ Fail(t) \/ GiveBack(t)
       \/ Abort(t) \/ CommitReader(t)
       \/ CommitWriter(t) \/ LeaveTrace(t)

Spec == Init /\ [][Next]_vars
================================================================================
