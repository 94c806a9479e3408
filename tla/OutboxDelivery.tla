--------------------------- MODULE OutboxDelivery ---------------------------
(***************************************************************************)
(* What the outbox promises, without publishers, batches or transactions:  *)
(* at-least-once delivery.  An event is delivered only after the           *)
(* transaction that wrote it has committed, any number of times; it is     *)
(* settled as "sent" only after a delivery, and settled for good.  Rows of *)
(* the previous version are left alone.                                    *)
(*                                                                         *)
(* OutboxPublisher implements this specification.                          *)
(***************************************************************************)
EXTENDS Naturals

CONSTANTS Events, Legacy, Poison, WriterAttempts

VARIABLES
  status,    \* "none", "pending", "sent", or "failed" for a legacy row
  attempts,  \* how many failures are on record
  kafka      \* how often an event was delivered

vars == <<status, attempts, kafka>>

Init ==
  /\ status = [e \in Events |-> IF e \in Legacy THEN "failed" ELSE "none"]
  /\ attempts = [e \in Events |-> 0]
  /\ kafka = [e \in Events |-> 0]

Publish(e) ==
  /\ status[e] = "none"
  /\ status' = [status EXCEPT ![e] = "pending"]
  /\ UNCHANGED <<attempts, kafka>>

\* A late delivery of an event another publisher has settled is possible.  A call
\* of the writer delivers once, or again when it was not sure of the last time.
Deliver(e) ==
  /\ e \notin Poison
  /\ status[e] \in {"pending", "sent"}
  /\ \E n \in 1 .. WriterAttempts : kafka' = [kafka EXCEPT ![e] = @ + n]
  /\ UNCHANGED <<status, attempts>>

\* The results of a batch are recorded at one instant; not every failure is.
Settle(sent, failed) ==
  /\ sent \cap failed = {}
  /\ \A e \in sent \cup failed : status[e] = "pending"
  /\ \A e \in sent : kafka[e] > 0
  /\ status' = [e \in Events |-> IF e \in sent THEN "sent" ELSE status[e]]
  /\ attempts' = [e \in Events |-> IF e \in failed THEN attempts[e] + 1 ELSE attempts[e]]
  /\ UNCHANGED kafka

Next ==
  \/ \E e \in Events : Publish(e) \/ Deliver(e)
  \/ \E sent, failed \in SUBSET Events : Settle(sent, failed)

Spec == Init /\ [][Next]_vars
=============================================================================
