-------------------------- MODULE OutboxPublisher --------------------------
(***************************************************************************)
(* The outbox publishers of share-trip: on every replica one goroutine     *)
(* (events.OutboxPublisher.Run) takes pending rows of outbox_events in a   *)
(* PostgreSQL transaction, sends them to Kafka and marks them, all inside  *)
(* that transaction.  A message is in Kafka at once, its mark is committed *)
(* later: what happens in between decides what is sent twice.              *)
(*                                                                         *)
(* A transaction belongs to a database session.  Its publisher can lose it *)
(* without noticing, and the server can keep it after its publisher has    *)
(* gone.                                                                   *)
(*                                                                         *)
(* Abstracted: payloads, error texts, timestamps other than the order of   *)
(* created_at, counters of Prometheus other than the gauge, the length of  *)
(* a tick.  Bounded: the events, the sessions, the faults (MaxFaults) and  *)
(* the value of attempts (MaxAttempts).                                    *)
(***************************************************************************)
EXTENDS Naturals, FiniteSets

CONSTANTS
  Events,       \* ids of outbox rows
  Legacy,       \* rows of the previous version, "failed" since migration 00005
  Poison,       \* rows that cannot be published: not the payload of a TripPublished
  CreatedAt,    \* created_at of each row: the start of its transaction
  Publishers,   \* replicas
  Sessions,     \* database sessions
  BatchLimit,   \* LIMIT of LockPending
  WriterAttempts, \* how often kafka.Writer tries to append one message
  MaxFaults,    \* bound on the number of faults
  MaxAttempts,  \* bound on the recorded value of attempts
  NoSession, NoEvent

ASSUME EventsAssumption ==
  /\ Legacy \subseteq Events
  /\ Poison \subseteq Events
  /\ CreatedAt \in [Events -> Nat]
  /\ IsFiniteSet(Events)
ASSUME BoundsAssumption ==
  /\ BatchLimit \in Nat \ {0}
  /\ WriterAttempts \in Nat \ {0}
  /\ MaxFaults \in Nat
  /\ MaxAttempts \in Nat
ASSUME NoneAssumption == NoSession \notin Sessions /\ NoEvent \notin Events

VARIABLES
  (* the database *)
  status,    \* committed status of each row; "none" before it is inserted
  attempts,  \* committed attempts of each row
  locked,    \* the session that has a row locked
  session,   \* "idle", "open", "committing" (COMMIT sent by a client that is
             \* gone), or "broken" (ended by the server, publisher unaware)
  marks,     \* the uncommitted marks of a session's transaction
  (* the publishers *)
  pc,        \* where the goroutine is; "down" when its process has ended
  conn,      \* the session of its transaction
  scan,      \* the rows its SELECT has not come to
  todo,      \* the events of the batch: locked so far, then those it has not come to
  current,   \* the event it has just sent or failed to send
  outcome,   \* the mark it is about to give to the current event
  gauge,     \* outbox_pending of this replica
  (* the world *)
  kafka,     \* how often each event has been appended to the topic
  faults     \* faults so far

dbVars == <<status, attempts, locked, session, marks>>
localVars == <<pc, conn, scan, todo, current, outcome, gauge>>
vars == <<status, attempts, locked, session, marks, pc, conn, scan, todo, current,
          outcome, gauge, kafka, faults>>

Statuses == {"none", "pending", "sent", "failed"}
Marks == {"none", "sent", "failed"}
NoMarks == [e \in Events |-> "none"]
Steps == {"waiting", "lock", "send", "mark", "commit", "rollback", "count", "down"}

Init ==
  /\ status = [e \in Events |-> IF e \in Legacy THEN "failed" ELSE "none"]
  /\ attempts = [e \in Events |-> 0]
  /\ locked = [e \in Events |-> NoSession]
  /\ session = [s \in Sessions |-> "idle"]
  /\ marks = [s \in Sessions |-> NoMarks]
  /\ pc = [p \in Publishers |-> "waiting"]
  /\ conn = [p \in Publishers |-> NoSession]
  /\ scan = [p \in Publishers |-> {}]
  /\ todo = [p \in Publishers |-> {}]
  /\ current = [p \in Publishers |-> NoEvent]
  /\ outcome = [p \in Publishers |-> "none"]
  /\ gauge = [p \in Publishers |-> 0]
  /\ kafka = [e \in Events |-> 0]
  /\ faults = 0

Goto(p, step) == pc' = [pc EXCEPT ![p] = step]

Fault == faults < MaxFaults /\ faults' = faults + 1
Faults(n) == faults + n <= MaxFaults /\ faults' = faults + n

----------------------------------------------------------------------------
(* Rows and locks *)

\* The transaction of PublishTrip commits: its event is pending.  Rows are
\* committed in any order, whatever their created_at.
Insert(e) ==
  /\ status[e] = "none"
  /\ status' = [status EXCEPT ![e] = "pending"]
  /\ UNCHANGED <<attempts, locked, session, marks, localVars, kafka, faults>>

\* Mutant: rows that failed are taken again, those of the migration with them.
TakesFailed(e) == status[e] \in {"pending", "failed"}

Selectable(e) == status[e] = "pending"

\* Mutant: a plain SELECT.
IgnoresLocks(e) == TRUE

\* SKIP LOCKED.
Unlocked(e) == locked[e] = NoSession

Oldest(E) == {e \in E : \A f \in E : CreatedAt[e] <= CreatedAt[f]}

Unlock(s) == locked' = [e \in Events |-> IF locked[e] = s THEN NoSession ELSE locked[e]]

----------------------------------------------------------------------------
(* publishBatch *)

AfterEvent(rest) == IF rest = {} THEN "commit" ELSE "send"

Alive(p) == session[conn[p]] = "open"

Forget(p) ==
  /\ scan' = [scan EXCEPT ![p] = {}]
  /\ todo' = [todo EXCEPT ![p] = {}]
  /\ current' = [current EXCEPT ![p] = NoEvent]
  /\ outcome' = [outcome EXCEPT ![p] = "none"]

\* A tick: a transaction begins, and the SELECT sees what is pending now.
OpenBatch(p) ==
  /\ pc[p] = "waiting"
  /\ \E s \in Sessions :
       /\ session[s] = "idle"
       /\ session' = [session EXCEPT ![s] = "open"]
       /\ conn' = [conn EXCEPT ![p] = s]
  /\ scan' = [scan EXCEPT ![p] = {e \in Events : Selectable(e)}]
  /\ Goto(p, "lock")
  /\ UNCHANGED <<status, attempts, locked, marks, todo, current, outcome, gauge,
                 kafka, faults>>

\* Begin fails: there is no transaction.
BeginFails(p) ==
  /\ pc[p] = "waiting"
  /\ Fault
  /\ Goto(p, "count")
  /\ UNCHANGED <<dbVars, conn, scan, todo, current, outcome, gauge, kafka>>

\* ORDER BY created_at FOR UPDATE SKIP LOCKED comes to one row after the other.
\* It leaves out a row another transaction has locked, or has marked since the
\* SELECT began.  Rows of equal age come in any order.
LockRow(p) ==
  /\ pc[p] = "lock" /\ Alive(p)
  /\ Cardinality(todo[p]) < BatchLimit
  /\ \E e \in Oldest(scan[p]) :
       /\ scan' = [scan EXCEPT ![p] = @ \ {e}]
       /\ IF Selectable(e) /\ Unlocked(e)
            THEN /\ todo' = [todo EXCEPT ![p] = @ \cup {e}]
                 /\ locked' = [locked EXCEPT ![e] = conn[p]]
            ELSE UNCHANGED <<todo, locked>>
  /\ UNCHANGED <<status, attempts, session, marks, pc, conn, current, outcome,
                 gauge, kafka, faults>>

\* No row is left, or LIMIT is reached: LockPending returns the locked rows.
LockPending(p) ==
  /\ pc[p] = "lock" /\ Alive(p)
  /\ scan[p] = {} \/ Cardinality(todo[p]) = BatchLimit
  /\ scan' = [scan EXCEPT ![p] = {}]
  /\ Goto(p, AfterEvent(todo[p]))
  /\ UNCHANGED <<dbVars, conn, todo, current, outcome, gauge, kafka, faults>>

\* LockPending reports an error, of its own or because the session is gone.
LockPendingFails(p) ==
  /\ pc[p] = "lock"
  /\ IF Alive(p) THEN Fault ELSE UNCHANGED faults
  /\ Forget(p)
  /\ Goto(p, "rollback")
  /\ UNCHANGED <<dbVars, conn, gauge, kafka>>

\* The connection fails under the SELECT: the server keeps what it has locked.
LockPendingLost(p) ==
  /\ pc[p] = "lock" /\ Alive(p)
  /\ Fault
  /\ Forget(p)
  /\ conn' = [conn EXCEPT ![p] = NoSession]
  /\ Goto(p, "count")
  /\ UNCHANGED <<dbVars, gauge, kafka>>

\* The loop comes to the next event and learns how publishing it went.
Handle(p, e, result) ==
  /\ pc[p] = "send"
  /\ e \in Oldest(todo[p])
  /\ todo' = [todo EXCEPT ![p] = @ \ {e}]
  /\ current' = [current EXCEPT ![p] = e]
  /\ outcome' = [outcome EXCEPT ![p] = result]
  /\ UNCHANGED <<conn, scan, gauge>>

\* Mutant: an error ends the loop, and with it the transaction.
ErrorEndsBatch == "rollback"

\* MarkFailed, then the next event.
AfterFailure == "mark"

\* Mutant: the error is counted and the event marked as sent.
ErrorIsSent == "sent"

ResultOfError == "failed"

\* WriteMessages is acknowledged by all replicas of the topic.
Send(p) ==
  /\ \E e \in Events \ Poison :
       Handle(p, e, "sent") /\ kafka' = [kafka EXCEPT ![e] = @ + 1]
  /\ Goto(p, "mark")
  /\ UNCHANGED <<dbVars, faults>>

\* The acknowledgements of n - 1 appends are lost, and kafka.Writer appends the
\* message again each time.
SendRepeated(p) ==
  /\ \E e \in Events \ Poison, n \in 2 .. WriterAttempts :
       /\ Faults(n - 1)
       /\ Handle(p, e, "sent") /\ kafka' = [kafka EXCEPT ![e] = @ + n]
  /\ Goto(p, "mark")
  /\ UNCHANGED dbVars

\* The payload is not a TripPublished: nothing is sent.
DecodeFails(p) ==
  /\ \E e \in Poison : Handle(p, e, ResultOfError)
  /\ Goto(p, AfterFailure)
  /\ UNCHANGED <<dbVars, kafka, faults>>

\* No attempt of WriteMessages succeeds.
SendFails(p) ==
  /\ Fault
  /\ \E e \in Events \ Poison : Handle(p, e, ResultOfError)
  /\ Goto(p, AfterFailure)
  /\ UNCHANGED <<dbVars, kafka>>

\* Nor is any acknowledged, and yet n of them have put the message in the topic.
SendUnacknowledged(p) ==
  /\ \E e \in Events \ Poison, n \in 1 .. WriterAttempts :
       /\ Faults(n)
       /\ Handle(p, e, ResultOfError) /\ kafka' = [kafka EXCEPT ![e] = @ + n]
  /\ Goto(p, AfterFailure)
  /\ UNCHANGED dbVars

\* MarkSent or MarkFailed, in the transaction.
Mark(p) ==
  /\ pc[p] = "mark"
  /\ Alive(p)
  /\ marks' = [marks EXCEPT ![conn[p]][current[p]] = outcome[p]]
  /\ current' = [current EXCEPT ![p] = NoEvent]
  /\ outcome' = [outcome EXCEPT ![p] = "none"]
  /\ Goto(p, AfterEvent(todo[p]))
  /\ UNCHANGED <<status, attempts, locked, session, conn, scan, todo, gauge, kafka,
                 faults>>

\* The mark fails, by itself or because the session is gone: the batch is given
\* up, with the events sent before this one.
MarkFails(p) ==
  /\ pc[p] = "mark"
  /\ IF Alive(p) THEN Fault ELSE UNCHANGED faults
  /\ Forget(p)
  /\ Goto(p, "rollback")
  /\ UNCHANGED <<dbVars, conn, gauge, kafka>>

----------------------------------------------------------------------------
(* The end of a transaction *)

\* Mutants of the statements: an unknown status; MarkSent has no effect;
\* MarkFailed is final.
SetsProcessed(mark, old) == IF mark = "sent" THEN "processed" ELSE old
ForgetsSent(mark, old) == old
FailureIsFinal(mark, old) == IF mark = "none" THEN old ELSE mark

StatusAfter(mark, old) == IF mark = "sent" THEN "sent" ELSE old

AttemptsAfter(mark, old) == IF mark = "failed" /\ old < MaxAttempts THEN old + 1 ELSE old

\* The marks of a transaction become visible.
Apply(s) ==
  /\ status' = [e \in Events |-> StatusAfter(marks[s][e], status[e])]
  /\ attempts' = [e \in Events |-> AttemptsAfter(marks[s][e], attempts[e])]

\* The server is done with a transaction; its session becomes "state".
End(s, state) ==
  /\ Unlock(s)
  /\ session' = [session EXCEPT ![s] = state]
  /\ marks' = [marks EXCEPT ![s] = NoMarks]

Leave(p) == conn' = [conn EXCEPT ![p] = NoSession] /\ Goto(p, "count")

Commit(p) ==
  /\ pc[p] = "commit" /\ Alive(p)
  /\ Apply(conn[p])
  /\ End(conn[p], "idle")
  /\ Leave(p)
  /\ UNCHANGED <<scan, todo, current, outcome, gauge, kafka, faults>>

\* The connection fails under COMMIT: the server has yet to commit or to abort.
CommitLost(p) ==
  /\ pc[p] = "commit" /\ Alive(p)
  /\ Fault
  /\ session' = [session EXCEPT ![conn[p]] = "committing"]
  /\ Leave(p)
  /\ UNCHANGED <<status, attempts, locked, marks, scan, todo, current, outcome, gauge,
                 kafka>>

\* BeginFunc rolls back after an error.
Rollback(p) ==
  /\ pc[p] = "rollback" /\ Alive(p)
  /\ End(conn[p], "idle")
  /\ Leave(p)
  /\ UNCHANGED <<status, attempts, scan, todo, current, outcome, gauge, kafka, faults>>

\* The connection fails under ROLLBACK: the server keeps the transaction.
RollbackLost(p) ==
  /\ pc[p] = "rollback" /\ Alive(p)
  /\ Fault
  /\ Leave(p)
  /\ UNCHANGED <<dbVars, scan, todo, current, outcome, gauge, kafka>>

\* COMMIT or ROLLBACK finds that the server has ended the session.
FindBroken(p) ==
  /\ pc[p] \in {"commit", "rollback"} /\ session[conn[p]] = "broken"
  /\ session' = [session EXCEPT ![conn[p]] = "idle"]
  /\ Leave(p)
  /\ UNCHANGED <<status, attempts, locked, marks, scan, todo, current, outcome, gauge,
                 kafka, faults>>

\* The server ends the session of a publisher that is still at work.
Break(s) ==
  /\ session[s] = "open"
  /\ \E p \in Publishers : conn[p] = s
  /\ Fault
  /\ End(s, "broken")
  /\ UNCHANGED <<status, attempts, localVars, kafka>>

Orphaned(s) == \A p \in Publishers : conn[p] # s

\* The server ends a session whose publisher is gone.
SessionAborts(s) ==
  /\ session[s] # "idle" /\ Orphaned(s)
  /\ End(s, "idle")
  /\ UNCHANGED <<status, attempts, localVars, kafka, faults>>

SessionCommits(s) ==
  /\ session[s] = "committing" /\ Orphaned(s)
  /\ Apply(s)
  /\ End(s, "idle")
  /\ UNCHANGED <<localVars, kafka, faults>>

----------------------------------------------------------------------------
(* After the transaction, and the process *)

\* Mutant: all rows that are not sent.
CountsUnsent(e) == status[e] \in {"pending", "failed"}

Counted(e) == status[e] = "pending"

CountPending(p) ==
  /\ pc[p] = "count"
  /\ gauge' = [gauge EXCEPT ![p] = Cardinality({e \in Events : Counted(e)})]
  /\ Goto(p, "waiting")
  /\ UNCHANGED <<dbVars, conn, scan, todo, current, outcome, kafka, faults>>

CountFails(p) ==
  /\ pc[p] = "count"
  /\ Fault
  /\ Goto(p, "waiting")
  /\ UNCHANGED <<dbVars, conn, scan, todo, current, outcome, gauge, kafka>>

\* The process ends at any point; a COMMIT may be on its way.
Crash(p) ==
  /\ pc[p] # "down"
  /\ Fault
  /\ Goto(p, "down")
  /\ Forget(p)
  /\ conn' = [conn EXCEPT ![p] = NoSession]
  /\ gauge' = [gauge EXCEPT ![p] = 0]
  /\ session' = [s \in Sessions |->
                   IF s = conn[p] /\ session[s] = "open" /\ pc[p] = "commit"
                   THEN "committing" ELSE session[s]]
  /\ UNCHANGED <<status, attempts, locked, marks, kafka>>

Restart(p) ==
  /\ pc[p] = "down"
  /\ Goto(p, "waiting")
  /\ UNCHANGED <<dbVars, conn, scan, todo, current, outcome, gauge, kafka, faults>>

----------------------------------------------------------------------------

\* What the goroutine does when nothing fails under it.
Proceed(p) ==
  \/ OpenBatch(p) \/ LockRow(p) \/ LockPending(p) \/ LockPendingFails(p)
  \/ Send(p) \/ DecodeFails(p)
  \/ Mark(p) \/ MarkFails(p)
  \/ Commit(p) \/ Rollback(p) \/ FindBroken(p)
  \/ CountPending(p) \/ Restart(p)

Fail(p) ==
  \/ BeginFails(p) \/ LockPendingLost(p)
  \/ SendRepeated(p) \/ SendFails(p) \/ SendUnacknowledged(p)
  \/ CommitLost(p) \/ RollbackLost(p) \/ CountFails(p) \/ Crash(p)

EndSession(s) == SessionAborts(s) \/ SessionCommits(s)

Next ==
  \/ \E e \in Events : Insert(e)
  \/ \E p \in Publishers : Proceed(p) \/ Fail(p)
  \/ \E s \in Sessions : Break(s) \/ EndSession(s)

\* The ticker ticks and the goroutine runs; Kubernetes restarts an ended
\* process; PostgreSQL notices a connection that is gone.  Events need not come.
Fairness ==
  /\ \A p \in Publishers : WF_vars(Proceed(p))
  /\ \A s \in Sessions : WF_vars(EndSession(s))

Spec == Init /\ [][Next]_vars /\ Fairness

----------------------------------------------------------------------------
(* Properties *)

TypeOK ==
  /\ status \in [Events -> Statuses]
  /\ attempts \in [Events -> Nat]
  /\ locked \in [Events -> Sessions \cup {NoSession}]
  /\ session \in [Sessions -> {"idle", "open", "committing", "broken"}]
  /\ marks \in [Sessions -> [Events -> Marks]]
  /\ pc \in [Publishers -> Steps]
  /\ conn \in [Publishers -> Sessions \cup {NoSession}]
  /\ scan \in [Publishers -> SUBSET Events]
  /\ todo \in [Publishers -> SUBSET Events]
  /\ current \in [Publishers -> Events \cup {NoEvent}]
  /\ outcome \in [Publishers -> Marks]
  /\ gauge \in [Publishers -> Nat]
  /\ kafka \in [Events -> Nat]
  /\ faults \in Nat

\* At least once: an event is "sent" only when Kafka has it, whichever
\* transaction set it so and however that transaction ended.
SentImpliesDelivered == \A e \in Events : status[e] = "sent" => kafka[e] > 0

\* Rows of the previous version stay as the migration left them and are never
\* published; nor is an event whose transaction has not committed.
OnlyPublishedIsDelivered ==
  /\ \A e \in Events : kafka[e] > 0 => status[e] \in {"pending", "sent"}
  /\ \A e \in Legacy : status[e] = "failed" /\ attempts[e] = 0

\* The batches of two live transactions never meet, and each row of a batch is
\* locked by its transaction until the marks are committed.
BatchesAreExclusive ==
  \A p \in Publishers : (conn[p] # NoSession /\ session[conn[p]] = "open") =>
    LET work == todo[p] \cup {e \in Events : e = current[p] \/ marks[conn[p]][e] # "none"}
    IN \A e \in work : locked[e] = conn[p] /\ status[e] = "pending"

\* A duplicate has a cause: an event is in Kafka at most once more than there
\* were faults, so exactly once when nothing fails.
DuplicatesNeedFaults == \A e \in Events : kafka[e] <= 1 + faults

\* Every published event that can be decoded is sent in the end, as long as the
\* events that cannot do not fill a batch.
PendingIsSent ==
  Cardinality(Poison) < BatchLimit =>
    \A e \in Events \ Poison : status[e] = "pending" ~> status[e] = "sent"

\* The gauge of every replica settles on the number of pending rows.
GaugeSettles ==
  \A p \in Publishers :
    <>[](gauge[p] = Cardinality({e \in Events : status[e] = "pending"}))

----------------------------------------------------------------------------
(* The promise this module keeps *)

Delivery == INSTANCE OutboxDelivery

\* The publishers, with their batches, sessions, crashes and lost answers,
\* implement the at-least-once delivery of OutboxDelivery: rows change only by
\* whole batches, to "sent" only once delivered, and a sent row never again.
ImplementsDelivery == Delivery!Spec
=============================================================================
