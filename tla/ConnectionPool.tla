--------------------------- MODULE ConnectionPool ---------------------------
(***************************************************************************)
(* The PostgreSQL connections of one replica and those who share them:     *)
(* the handlers of requests, the outbox publisher, which keeps one while   *)
(* it talks to Kafka, and the readiness probe.  A handler waits for a      *)
(* connection without a limit of its own, the probe for three seconds.     *)
(*                                                                         *)
(* The pool itself is external (pgxpool): it serves those who wait in      *)
(* their order.  What the statements do is TripService's and               *)
(* OutboxPublisher's; here they only take time, and end well or badly.     *)
(***************************************************************************)
EXTENDS Naturals, FiniteSets, SequencesExt

CONSTANTS
  MaxConns,   \* the size of the pool
  Handlers,   \* requests served at a time
  Publisher, Probe

ASSUME PoolAssumption == MaxConns \in Nat /\ MaxConns > 1
ASSUME UsersAssumption ==
  Publisher # Probe /\ Publisher \notin Handlers /\ Probe \notin Handlers

Users == Handlers \cup {Publisher, Probe}

VARIABLES
  pc,      \* what each user does
  queue,   \* those who wait for a connection, in order
  inUse    \* connections given out

vars == <<pc, queue, inUse>>

Goto(u, step) == pc' = [pc EXCEPT ![u] = step]

Init ==
  /\ pc = [u \in Users |-> "idle"]
  /\ queue = <<>> /\ inUse = 0

-----------------------------------------------------------------------------
(* The pool *)

Wait(u, step) ==
  /\ Goto(u, step)
  /\ queue' = Append(queue, u)
  /\ UNCHANGED inUse

\* What the connection is for: the query of the publisher after a batch, or a
\* transaction, a query or a ping.
Use(u) == IF pc[u] = "waitingToCount" THEN "counting" ELSE "using"

Acquire(u) ==
  /\ queue # <<>> /\ Head(queue) = u /\ inUse < MaxConns
  /\ queue' = Tail(queue)
  /\ Goto(u, Use(u))
  /\ inUse' = inUse + 1

\* The connection cannot be made, and the call ends; the publisher counts even so.
AcquireFails(u) ==
  /\ queue # <<>> /\ Head(queue) = u /\ inUse < MaxConns
  /\ queue' = Tail(queue)
  /\ Goto(u, IF u = Publisher /\ pc[u] = "waiting" THEN "counts" ELSE "idle")
  /\ UNCHANGED inUse

\* Mutants: a transaction that failed is not rolled back; one that was committed
\* is given back once more.
NoRollback(u, step, failed) ==
  /\ Goto(u, step)
  /\ inUse' = IF failed THEN inUse ELSE inUse - 1
  /\ UNCHANGED queue
ReleasesTwice(u, step, failed) ==
  /\ Goto(u, step)
  /\ inUse' = IF failed THEN inUse - 1 ELSE inUse - 2
  /\ UNCHANGED queue
Release(u, step, failed) ==
  /\ Goto(u, step)
  /\ inUse' = inUse - 1
  /\ UNCHANGED queue

-----------------------------------------------------------------------------
(* The handlers *)

\* To create or show a trip; to publish or start one the Contract Service is
\* asked first, with no connection in hand.
Begin(h) ==
  /\ pc[h] = "idle"
  /\ Wait(h, "waiting") \/ (Goto(h, "checking") /\ UNCHANGED <<queue, inUse>>)

Checked(h) ==
  /\ pc[h] = "checking"
  /\ Wait(h, "waiting") \/ (Goto(h, "idle") /\ UNCHANGED <<queue, inUse>>)

\* The statements all run in the transaction.
\* Mutant: the event is sent to Kafka from there, instead of being written.
SendsItself(h) ==
  /\ pc[h] = "using"
  /\ Goto(h, "sending") /\ UNCHANGED <<queue, inUse>>
Write(h) ==
  /\ pc[h] = "using"
  /\ Goto(h, "written") /\ UNCHANGED <<queue, inUse>>

End(h) ==
  \/ pc[h] = "written" /\ Release(h, "idle", FALSE)
  \/ pc[h] \in {"using", "written"} /\ Release(h, "idle", TRUE)

Handle(h) == Acquire(h) \/ AcquireFails(h) \/ Checked(h) \/ Write(h) \/ End(h)

-----------------------------------------------------------------------------
(* The outbox publisher *)

Batch == pc[Publisher] = "idle" /\ Wait(Publisher, "waiting")

\* The rows are locked, and in the same transaction their events are sent, one
\* by one.
SendNext ==
  /\ pc[Publisher] \in {"using", "marking"}
  /\ Goto(Publisher, "sending") /\ UNCHANGED <<queue, inUse>>

\* Kafka has taken the event, or sending it has failed, and the row is marked.
\* Kafka may take as long as it likes.
Sent ==
  /\ pc[Publisher] = "sending"
  /\ Goto(Publisher, "marking") /\ UNCHANGED <<queue, inUse>>

\* The batch is over, and the pending rows are counted on another connection.
EndBatch ==
  /\ pc[Publisher] \in {"using", "marking"}
  /\ \E failed \in BOOLEAN : Release(Publisher, "counts", failed)

CountPending == pc[Publisher] = "counts" /\ Wait(Publisher, "waitingToCount")

Counted ==
  /\ pc[Publisher] = "counting"
  /\ \E failed \in BOOLEAN : Release(Publisher, "idle", failed)

Publish ==
  \/ Acquire(Publisher) \/ AcquireFails(Publisher)
  \/ SendNext \/ EndBatch \/ CountPending \/ Counted

-----------------------------------------------------------------------------
(* The readiness probe *)

Ready == pc[Probe] = "idle" /\ Wait(Probe, "waiting")

Pinged == pc[Probe] = "using" /\ \E failed \in BOOLEAN : Release(Probe, "idle", failed)

\* Three seconds are over: "503", and the place in the queue is given up.
TimesOut ==
  /\ pc[Probe] = "waiting"
  /\ Goto(Probe, "idle")
  /\ \E i \in 1 .. Len(queue) : queue[i] = Probe /\ queue' = RemoveAt(queue, i)
  /\ UNCHANGED inUse

CheckReadiness == Acquire(Probe) \/ AcquireFails(Probe) \/ Pinged

Next ==
  \/ \E h \in Handlers : Begin(h) \/ Handle(h)
  \/ Batch \/ Publish \/ Sent
  \/ Ready \/ CheckReadiness \/ TimesOut

\* PostgreSQL answers, and a check of the Contract Service ends (ContractClient,
\* EveryCheckEnds).  Nothing is assumed of Kafka: Sent may never happen.
Fairness ==
  /\ \A h \in Handlers : WF_vars(Handle(h))
  /\ WF_vars(Publish)
  /\ WF_vars(CheckReadiness)

Spec == Init /\ [][Next]_vars /\ Fairness

-----------------------------------------------------------------------------
(* Properties *)

Holding == {"using", "written", "sending", "marking", "counting"}
Waiting == {"waiting", "waitingToCount"}

Holders == {u \in Users : pc[u] \in Holding}

TypeOK ==
  /\ pc \in [Users -> {"idle", "checking", "counts"} \cup Holding \cup Waiting]
  /\ inUse \in 0 .. MaxConns
  /\ queue \in Seq(Users)

\* The connections given out are those somebody holds, and the queue is made of
\* those who wait, each of them once: no path through a handler, a batch or a
\* probe, however it fails, loses a connection or gives one back that is not its
\* own.
NoConnectionLost ==
  /\ inUse = Cardinality(Holders)
  /\ IsInjective(queue)
  /\ ToSet(queue) = {u \in Users : pc[u] \in Waiting}

\* Every request is answered, even when the pool is used up and Kafka keeps the
\* publisher, and the connection it holds, for ever: the answer of the API does
\* not depend on Kafka.
RequestsDoNotNeedKafka ==
  \A h \in Handlers : pc[h] # "idle" ~> pc[h] = "idle"
=============================================================================
