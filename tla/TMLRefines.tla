------------------------------- MODULE TMLRefines -------------------------------
(***************************************************************************)
(* TML implements AtomicTM.  The versions are the memories glb's even      *)
(* values left behind; a transaction is pledged when it holds the lock,    *)
(* closing when its outermost block has committed, and over when           *)
(* tml_tx_end has let go of it, or when it fails before it has the lock.   *)
(***************************************************************************)
EXTENDS TML

Live(t) == InTx(t) /\ (tx[t].err = "none" \/ irrevoc[t])

Newest == IF IsEven(glb) THEN glb ELSE glb - 1

PledgedStatus(t) == IF tx[t].err # "none" THEN "failing"
                    ELSE IF HasCommitted(t) THEN "closing" ELSE "pledged"

Status(t) == IF Holds(t) THEN PledgedStatus(t)
             ELSE IF tx[t].err # "none" THEN "aborted"
             ELSE IF InTx(t) THEN "active" ELSE "committed"

First(t) == IF Live(t) THEN Version(t) ELSE 0

Reads(t) == IF Live(t) THEN seen[t] ELSE {}

Writes(t) == IF Live(t) THEN own[t] ELSE NoWrites

Frees(t) == IF Live(t) /\ ~HasCommitted(t) THEN frees[t] ELSE {}

TM == INSTANCE AtomicTM WITH
  Initial  <- [a \in Addrs |-> InitVal],
  versions <- hist,
  latest   <- Newest,
  status   <- [t \in Threads |-> Status(t)],
  first    <- [t \in Threads |-> First(t)],
  rd       <- [t \in Threads |-> Reads(t)],
  wr       <- [t \in Threads |-> Writes(t)],
  fr       <- [t \in Threads |-> Frees(t)]

(* As long as the client does not restart a transaction that has become     *)
(* irrevocable, in-place writing behind a sequence lock cannot be told from *)
(* atomic transactions: TML_READ only ever hands out one version, TML_WRITE *)
(* and TML_FREE show up in the next version all together or not at all, and *)
(* a block that reports success has had its effect.  One that reports       *)
(* failure has had none, unless it had the lock: then what it had written   *)
(* is published and what it had freed is not given back.                    *)
ImplementsTM == TM!Spec
================================================================================
