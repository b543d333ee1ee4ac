------------------------------ MODULE NOrecRefines ------------------------------
(***************************************************************************)
(* NOrec implements AtomicTM.  A transaction that is not irrevocable is    *)
(* over when its outermost block has committed or when it fails; one that  *)
(* is irrevocable is pledged, closing after its outermost commit, and over *)
(* when norec_tx_end has let go of it.                                     *)
(***************************************************************************)
EXTENDS NOrec

(* norec_tx_commit has run in the outermost block. *)
HasCommitted(t) == tx[t].err = "none" /\ tx[t].level = 0 /\ ~InWork(tx[t])

Pledged(t) == InTx(t) /\ irrevoc[t]

Active(t) == InTx(t) /\ ~irrevoc[t] /\ tx[t].err = "none" /\ ~HasCommitted(t)

PledgedStatus(t) == IF tx[t].err # "none" THEN "failing"
                    ELSE IF HasCommitted(t) THEN "closing" ELSE "pledged"

Status(t) == IF Pledged(t) THEN PledgedStatus(t)
             ELSE IF tx[t].err # "none" THEN "aborted"
             ELSE IF Active(t) THEN "active" ELSE "committed"

Live(t) == Pledged(t) \/ Active(t)

First(t) == IF Live(t) THEN start[t] ELSE 0

Reads(t) == IF Live(t) THEN seen[t] ELSE {}

Writes(t) == IF Live(t) THEN own[t] ELSE NoWrites

(* The blocks the commit is to give back: norec.c:282 leaves before         *)
(* tx_reclaim_frees when the write set is empty, so what such a transaction *)
(* frees stays allocated.                                                   *)
Frees(t) == IF Pledged(t) /\ ~HasCommitted(t) /\ wset[t] # <<>> THEN frees[t] ELSE {}

TM == INSTANCE AtomicTM WITH
  Initial  <- [a \in Addrs |-> InitVal],
  versions <- hist,
  latest   <- Even(glb),
  status   <- [t \in Threads |-> Status(t)],
  first    <- [t \in Threads |-> First(t)],
  rd       <- [t \in Threads |-> Reads(t)],
  wr       <- [t \in Threads |-> Writes(t)],
  fr       <- [t \in Threads |-> Frees(t)]

(* As long as the client does not restart a transaction that has become     *)
(* irrevocable, buffered writes and validation by value cannot be told from *)
(* atomic transactions; a block that reports success has had its effect,    *)
(* except for the frees of an irrevocable transaction that had buffered no  *)
(* write, which are lost; one that reports failure has had none, unless it  *)
(* was irrevocable: then what it had written is published and what it had   *)
(* freed is not given back.                                                 *)
ImplementsTM == TM!Spec
================================================================================
