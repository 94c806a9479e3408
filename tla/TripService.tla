---------------------------- MODULE TripService ----------------------------
(***************************************************************************)
(* The trip service of share-trip: TripService (internal/service) running  *)
(* TripUsecase (internal/domain) inside PostgreSQL transactions            *)
(* (internal/repository) on several replicas that share one database.      *)
(*                                                                         *)
(* One step of the model is one point at which the code can be interrupted *)
(* by another request, by an error or by the end of its process: the call  *)
(* of the Contract Service, taking a pooled connection, each SQL statement,*)
(* COMMIT, ROLLBACK.  The checks the code makes between two statements use *)
(* local values only and belong to the step that read those values.        *)
(*                                                                         *)
(* Abstracted: points, times and seats of a trip, the text of errors,      *)
(* logging, tracing, metrics and the HTTP encoding of answers.  A trip row *)
(* is its status and its driver.  Bounded: the requests (Requests), the    *)
(* trip ids (Trips) and the crashes (MaxCrashes).                          *)
(***************************************************************************)
EXTENDS Naturals, Sequences, FiniteSets

CONSTANTS
  Trips,       \* trip ids
  Clients,     \* token subjects: drivers and other clients
  Requests,    \* handled HTTP requests, retries of a client included
  Replicas,    \* processes of the service
  Calls,       \* the calls clients make, a subset of Call
  PoolSize,    \* pgxpool MaxConns of one replica
  MaxCrashes,  \* bound on the number of process crashes
  NoClient, NoRequest, NoReplica

ASSUME PoolSizeAssumption == PoolSize \in Nat \ {0}
ASSUME MaxCrashesAssumption == MaxCrashes \in Nat

\* The trip id of a "create" call is the one gen_random_uuid() will return.
Call == [op : {"create", "publish", "start", "get"}, trip : Trips, client : Clients]

ASSUME CallsAssumption == Calls \subseteq Call
ASSUME NoneAssumption ==
  /\ NoClient \notin Clients
  /\ NoRequest \notin Requests
  /\ NoReplica \notin Replicas

NoCall == [op |-> "none", trip |-> "none", client |-> NoClient]

----------------------------------------------------------------------------
(* The rows of the database *)

\* No statement of this service or of its migrations writes another label of
\* the trip_status type: no row has one.
Statuses == {"absent", "draft", "published", "started"}

Row == [status : Statuses, driver : Clients \cup {NoClient}]
NoRow == [status |-> "absent", driver |-> NoClient]

\* A trip_history row; the NULL from_status of a new trip is "absent".
Step == [from : Statuses, to : Statuses]

\* The outbox row of a trip: its id, newEventID(trip, "TripPublished"), is a
\* function of the trip, so there is at most one per trip.  "cause" is the
\* request whose id the payload carries as causation_id.
Event == [driver : Clients, company : Clients, cause : Requests]
NoEvent == [driver |-> NoClient, company |-> NoClient, cause |-> NoRequest]

\* What a transaction has written and not yet committed.
NoWrite == [row |-> NoRow, steps |-> <<>>, event |-> NoEvent]

VARIABLES
  trip,     \* trips: the committed row of each id
  history,  \* trip_history: the committed rows of each trip, oldest first
  outbox,   \* outbox_events: the committed event of each trip
  lock,     \* the request whose transaction holds the lock of a trip's row
  session,  \* server side of a request's transaction: "none", "open", or
            \* "committing" once COMMIT was sent by a client that is gone
  write,    \* the uncommitted writes of each request's transaction
  pc,       \* where the handler of a request is
  home,     \* the replica that handles it
  call,     \* what was asked
  verdict,  \* what CheckService returned
  seen,     \* the trip as the handler read it
  reply,    \* the answer the handler has decided on; sent when pc = "done"
  applied,  \* history variable: the request's writes were committed
  crashes

dbVars == <<trip, history, outbox, lock, session, write, applied>>
vars == <<trip, history, outbox, lock, session, write, pc, home, call,
          verdict, seen, reply, applied, crashes>>

Verdicts == {"allowed", "denied", "unavailable", "invalid"}

Replies == {"none", "200", "201", "204", "400", "403", "404", "409",
            "500", "502", "503", "lost"}

\* The handler holds a pooled connection.
TxSteps == {"select", "update", "insertTrip", "insertHistory", "insertEvent",
            "commit", "rollback"}

Steps == TxSteps \cup {"idle", "validate", "check", "begin", "read", "done"}

Init ==
  /\ \E drivers \in [Trips -> Clients \cup {NoClient}] :
       /\ trip = [t \in Trips |->
                    IF drivers[t] = NoClient THEN NoRow
                    ELSE [status |-> "draft", driver |-> drivers[t]]]
       /\ history = [t \in Trips |->
                       IF drivers[t] = NoClient THEN <<>>
                       ELSE <<[from |-> "absent", to |-> "draft"]>>]
  /\ outbox = [t \in Trips |-> NoEvent]
  /\ lock = [t \in Trips |-> NoRequest]
  /\ session = [q \in Requests |-> "none"]
  /\ write = [q \in Requests |-> NoWrite]
  /\ pc = [q \in Requests |-> "idle"]
  /\ home = [q \in Requests |-> NoReplica]
  /\ call = [q \in Requests |-> NoCall]
  /\ verdict = [q \in Requests |-> "none"]
  /\ seen = [q \in Requests |-> NoRow]
  /\ reply = [q \in Requests |-> "none"]
  /\ applied = [q \in Requests |-> FALSE]
  /\ crashes = 0

----------------------------------------------------------------------------
(* Before the transaction *)

Goto(q, step) == pc' = [pc EXCEPT ![q] = step]
Decide(q, answer) == reply' = [reply EXCEPT ![q] = answer]

FirstStep(op) == CASE op = "create" -> "validate"
                   [] op = "get" -> "read"
                   [] OTHER -> "check"

\* gen_random_uuid() repeats no id.
FreshId(t) ==
  /\ trip[t] = NoRow
  /\ \A q \in Requests : ~(call[q].op = "create" /\ call[q].trip = t)

\* A handler starts on some replica.
Receive(q) ==
  /\ pc[q] = "idle"
  /\ \E c \in Calls, r \in Replicas :
       /\ c.op = "create" => FreshId(c.trip)
       /\ call' = [call EXCEPT ![q] = c]
       /\ home' = [home EXCEPT ![q] = r]
       /\ Goto(q, FirstStep(c.op))
  /\ UNCHANGED <<dbVars, verdict, seen, reply, crashes>>

\* validateCreateTripCommand accepts or rejects the command.
Validate(q) ==
  /\ pc[q] = "validate"
  /\ \/ Goto(q, "begin") /\ UNCHANGED reply
     \/ Goto(q, "done") /\ Decide(q, "400")
  /\ UNCHANGED <<dbVars, home, call, verdict, seen, crashes>>

\* How an answer of the Contract Service other than "allowed" is reported.
CheckReply(v) == CASE v = "denied" -> "403"
                   [] v = "unavailable" -> "503"
                   [] OTHER -> "502"

\* Mutant: only the error of CheckService is looked at, not Allowed.
ProceedUnlessError(v) == v \in {"allowed", "denied"}

MayProceed(v) == v = "allowed"

\* CheckService, before any transaction; its answer is the environment's.
CheckContract(q) ==
  /\ pc[q] = "check"
  /\ \E v \in Verdicts :
       /\ verdict' = [verdict EXCEPT ![q] = v]
       /\ \/ MayProceed(v) /\ Goto(q, "begin") /\ UNCHANGED reply
          \/ ~MayProceed(v) /\ Goto(q, "done") /\ Decide(q, CheckReply(v))
  /\ UNCHANGED <<dbVars, home, call, seen, crashes>>

InUse(r) == {q \in Requests : home[q] = r /\ pc[q] \in TxSteps}
ConnectionFree(r) == Cardinality(InUse(r)) < PoolSize

\* pool.Begin waits for a connection, then opens a transaction or fails.
Begin(q) ==
  /\ pc[q] = "begin"
  /\ ConnectionFree(home[q])
  /\ Goto(q, IF call[q].op = "create" THEN "insertTrip" ELSE "select")
  /\ session' = [session EXCEPT ![q] = "open"]
  /\ UNCHANGED <<trip, history, outbox, lock, write, applied, home, call,
                 verdict, seen, reply, crashes>>

\* No deadline bounds the wait itself: only a connection that was obtained fails.
BeginFails(q) ==
  /\ pc[q] = "begin"
  /\ ConnectionFree(home[q])
  /\ Goto(q, "done")
  /\ Decide(q, "500")
  /\ UNCHANGED <<dbVars, home, call, verdict, seen, crashes>>

\* GetTripByID: one statement on a pooled connection, no transaction.
ReadTrip(q) ==
  /\ pc[q] = "read"
  /\ ConnectionFree(home[q])
  /\ \/ /\ seen' = [seen EXCEPT ![q] = trip[call[q].trip]]
        /\ Decide(q, IF seen'[q] = NoRow THEN "404" ELSE "200")
     \/ Decide(q, "500") /\ UNCHANGED seen
  /\ Goto(q, "done")
  /\ UNCHANGED <<dbVars, home, call, verdict, crashes>>

----------------------------------------------------------------------------
(* Inside the transaction *)

\* Mutants of PublishTrip's checks: the status before the driver; no driver
\* check; only "published" is turned away.
StatusBeforeDriver(row, client) ==
  CASE row.status = "absent" -> "404"
    [] row.status = "published" -> "204"
    [] row.status \notin {"absent", "published"} /\ row.driver # client -> "403"
    [] row.driver = client /\ row.status = "draft" -> "none"
    [] OTHER -> "409"

AnyClientPublishes(row, client) ==
  CASE row.status = "absent" -> "404"
    [] row.status = "published" -> "204"
    [] row.status = "draft" -> "none"
    [] OTHER -> "409"

PublishesStarted(row, client) ==
  CASE row.status = "absent" -> "404"
    [] row.status # "absent" /\ row.driver # client -> "403"
    [] row.driver = client /\ row.status = "published" -> "204"
    [] OTHER -> "none"

\* PublishTrip's checks of the row it has locked; "none" lets it go on.
PublishRefusal(row, client) ==
  CASE row.status = "absent" -> "404"
    [] row.status # "absent" /\ row.driver # client -> "403"
    [] row.driver = client /\ row.status = "published" -> "204"
    [] row.driver = client /\ row.status = "draft" -> "none"
    [] OTHER -> "409"

\* Mutant: StartTrip without Trip.Start's check of the status.
StartsAnyStatus(row, client) ==
  CASE row.status = "absent" -> "404"
    [] row.status # "absent" /\ row.driver # client -> "403"
    [] OTHER -> "none"

\* StartTrip's: the driver check and Trip.Start.
StartRefusal(row, client) ==
  CASE row.status = "absent" -> "404"
    [] row.status # "absent" /\ row.driver # client -> "403"
    [] row.driver = client /\ row.status = "published" -> "none"
    [] OTHER -> "409"

Refusal(c, row) == IF c.op = "publish" THEN PublishRefusal(row, c.client)
                   ELSE StartRefusal(row, c.client)

\* Mutant: a label of the trip_status type that domain.TripStatus lacks.
StartCompletes(op) == CASE op = "create" -> "draft"
                        [] op = "publish" -> "published"
                        [] OTHER -> "completed"

NewStatus(op) == CASE op = "create" -> "draft"
                   [] op = "publish" -> "published"
                   [] OTHER -> "started"

\* Mutant: a plain SELECT.
NoRowLock(t) == TRUE

\* FOR UPDATE waits for the transaction that has the row.
RowFree(t) == lock[t] = NoRequest

\* GetForUpdateByID and the checks that follow it.
SelectForUpdate(q) ==
  LET t == call[q].trip
      refusal == Refusal(call[q], trip[t])
  IN /\ pc[q] = "select"
     /\ trip[t] # NoRow => RowFree(t)
     /\ seen' = [seen EXCEPT ![q] = trip[t]]
     /\ lock' = [lock EXCEPT ![t] = IF trip[t] = NoRow THEN @ ELSE q]
     /\ \/ refusal = "none" /\ Goto(q, "update") /\ UNCHANGED reply
        \/ refusal # "none" /\ Goto(q, "rollback") /\ Decide(q, refusal)
     /\ UNCHANGED <<trip, history, outbox, session, write, home, call, verdict,
                    applied, crashes>>

\* The row Update writes: what was read, with the new status.
Written(q) == [seen[q] EXCEPT !.status = NewStatus(call[q].op)]

\* Mutant: the statement compares and records the row it has just written.
HistoryOfWrittenRow(old, new) == <<[from |-> new, to |-> new]>>

\* The history row of Update: none when the status stays as it was.
HistoryStep(old, new) == IF old = new THEN <<>> ELSE <<[from |-> old, to |-> new]>>

\* Mutant: the event is left to be written after the transaction.
CommitAfterUpdate(op) == "commit"

StepAfterUpdate(op) == IF op = "publish" THEN "insertEvent" ELSE "commit"

\* Update: the row and its history in one statement; old_trip is the row the
\* statement finds, not the one the handler read.  It always finds one, for the
\* row is locked: the answer 404 to an update of no row is never given.
UpdateTrip(q) ==
  /\ pc[q] = "update"
  /\ write' = [write EXCEPT
       ![q].row = Written(q),
       ![q].steps = HistoryStep(trip[call[q].trip].status, NewStatus(call[q].op))]
  /\ Goto(q, StepAfterUpdate(call[q].op))
  /\ UNCHANGED <<trip, history, outbox, lock, session, home, call, verdict, seen,
                 reply, applied, crashes>>

NewEvent(q) == [driver |-> seen[q].driver, company |-> call[q].client, cause |-> q]

\* CreateOutboxEvent: ON CONFLICT (id) DO NOTHING.
InsertEvent(q) ==
  /\ pc[q] = "insertEvent"
  /\ write' = [write EXCEPT
       ![q].event = IF outbox[call[q].trip] = NoEvent THEN NewEvent(q) ELSE @]
  /\ Goto(q, "commit")
  /\ UNCHANGED <<trip, history, outbox, lock, session, home, call, verdict, seen,
                 reply, applied, crashes>>

\* Create: the row, then its first history row.
InsertTrip(q) ==
  /\ pc[q] = "insertTrip"
  /\ write' = [write EXCEPT ![q].row = [status |-> NewStatus("create"),
                                        driver |-> call[q].client]]
  /\ Goto(q, "insertHistory")
  /\ UNCHANGED <<trip, history, outbox, lock, session, home, call, verdict, seen,
                 reply, applied, crashes>>

InsertHistory(q) ==
  /\ pc[q] = "insertHistory"
  /\ write' = [write EXCEPT
       ![q].steps = HistoryStep("absent", write[q].row.status)]
  /\ Goto(q, "commit")
  /\ UNCHANGED <<trip, history, outbox, lock, session, home, call, verdict, seen,
                 reply, applied, crashes>>

\* A statement reports an error.
StatementFails(q) ==
  /\ pc[q] \in TxSteps \ {"commit", "rollback"}
  /\ Goto(q, "rollback")
  /\ Decide(q, "500")
  /\ UNCHANGED <<dbVars, home, call, verdict, seen, crashes>>

----------------------------------------------------------------------------
(* The end of the transaction *)

\* Mutant: the locks of a transaction outlive it.
KeepsLocks(q) == lock

Released(q) == [t \in Trips |-> IF lock[t] = q THEN NoRequest ELSE lock[t]]

\* The server makes the writes of q's transaction visible and drops its locks.
Apply(q) ==
  LET t == call[q].trip
  IN /\ trip' = [trip EXCEPT ![t] = write[q].row]
     /\ history' = [history EXCEPT ![t] = @ \o write[q].steps]
     /\ outbox' = [outbox EXCEPT
                     ![t] = IF write[q].event = NoEvent THEN @ ELSE write[q].event]
     /\ applied' = [applied EXCEPT ![q] = TRUE]
     /\ lock' = Released(q)

\* Mutant: the handler returns without ending its transaction.
NoRollback(q) == UNCHANGED <<lock, trip, history, outbox, applied>>

\* The server forgets q's transaction.
Abort(q) ==
  /\ lock' = Released(q)
  /\ UNCHANGED <<trip, history, outbox, applied>>

Close(q) ==
  /\ session' = [session EXCEPT ![q] = "none"]
  /\ write' = [write EXCEPT ![q] = NoWrite]

SuccessReply(op) == IF op = "create" THEN "201" ELSE "200"

\* Commit succeeds and the handler learns it.
Commit(q) ==
  /\ pc[q] = "commit"
  /\ Apply(q)
  /\ Close(q)
  /\ Goto(q, "done")
  /\ Decide(q, SuccessReply(call[q].op))
  /\ UNCHANGED <<home, call, verdict, seen, crashes>>

\* Mutant: the error of Commit is logged and not returned.
CommitErrorIgnored(op) == SuccessReply(op)

ReplyToLostCommit(op) == "500"

\* The connection fails under COMMIT: the handler sees an error, and the server
\* has yet to commit or to abort.
CommitLost(q) ==
  /\ pc[q] = "commit"
  /\ session' = [session EXCEPT ![q] = "committing"]
  /\ Goto(q, "done")
  /\ Decide(q, ReplyToLostCommit(call[q].op))
  /\ UNCHANGED <<trip, history, outbox, lock, write, applied, home, call,
                 verdict, seen, crashes>>

\* The deferred Rollback; the answer is sent after it.
Rollback(q) ==
  /\ pc[q] = "rollback"
  /\ Abort(q)
  /\ Close(q)
  /\ Goto(q, "done")
  /\ UNCHANGED <<home, call, verdict, seen, reply, crashes>>

\* The connection fails under ROLLBACK: the pool drops it, and the server keeps
\* the transaction until it notices.
RollbackLost(q) ==
  /\ pc[q] = "rollback"
  /\ Goto(q, "done")
  /\ UNCHANGED <<dbVars, home, call, verdict, seen, reply, crashes>>

\* The server ends a transaction whose client is gone.
SessionAborts(q) ==
  /\ pc[q] = "done"
  /\ session[q] # "none"
  /\ Abort(q)
  /\ Close(q)
  /\ UNCHANGED <<pc, home, call, verdict, seen, reply, crashes>>

SessionCommits(q) ==
  /\ pc[q] = "done"
  /\ session[q] = "committing"
  /\ Apply(q)
  /\ Close(q)
  /\ UNCHANGED <<pc, home, call, verdict, seen, reply, crashes>>

\* A process ends: no signal handling, no draining.  Its requests get no
\* answer; their transactions stay on the server until it notices.
InProgress(r) == {q \in Requests : home[q] = r /\ pc[q] \notin {"idle", "done"}}

Crash(r) ==
  /\ crashes < MaxCrashes
  /\ InProgress(r) # {}
  /\ crashes' = crashes + 1
  /\ pc' = [q \in Requests |-> IF q \in InProgress(r) THEN "done" ELSE pc[q]]
  /\ reply' = [q \in Requests |-> IF q \in InProgress(r) THEN "lost" ELSE reply[q]]
  /\ session' = [q \in Requests |-> IF q \in InProgress(r) /\ pc[q] = "commit"
                                    THEN "committing" ELSE session[q]]
  /\ UNCHANGED <<trip, history, outbox, lock, write, applied, home, call,
                 verdict, seen>>

----------------------------------------------------------------------------

\* The handler of q takes its next step, and nothing fails under it.
Proceed(q) ==
  \/ Validate(q) \/ CheckContract(q)
  \/ Begin(q) \/ ReadTrip(q)
  \/ SelectForUpdate(q) \/ UpdateTrip(q) \/ InsertEvent(q)
  \/ InsertTrip(q) \/ InsertHistory(q)
  \/ Commit(q) \/ Rollback(q)

\* A call of the handler to the database fails.
Fail(q) == BeginFails(q) \/ StatementFails(q) \/ CommitLost(q) \/ RollbackLost(q)

\* What the server does with a transaction its client has left.
EndSession(q) == SessionAborts(q) \/ SessionCommits(q)

\* All bounded requests have been answered and no transaction is left.
Quiet ==
  /\ \A q \in Requests : pc[q] \in {"idle", "done"} /\ session[q] = "none"
  /\ UNCHANGED vars

Next ==
  \/ \E q \in Requests : Receive(q) \/ Proceed(q) \/ Fail(q) \/ EndSession(q)
  \/ \E r \in Replicas : Crash(r)
  \/ Quiet

\* A goroutine that can run does run; a waiting pool.Begin or SELECT FOR UPDATE
\* is served when the connection or the row is free; PostgreSQL notices a
\* connection that is gone.  Requests may never come, calls may never fail and
\* processes may never end.
Fairness == \A q \in Requests : WF_vars(Proceed(q)) /\ WF_vars(EndSession(q))

Spec == Init /\ [][Next]_vars /\ Fairness

----------------------------------------------------------------------------
(* Properties *)

TypeOK ==
  /\ trip \in [Trips -> Row]
  /\ history \in [Trips -> Seq(Step)]
  /\ outbox \in [Trips -> Event \cup {NoEvent}]
  /\ lock \in [Trips -> Requests \cup {NoRequest}]
  /\ session \in [Requests -> {"none", "open", "committing"}]
  /\ write \in [Requests -> [row : Row, steps : Seq(Step),
                             event : Event \cup {NoEvent}]]
  /\ pc \in [Requests -> Steps]
  /\ home \in [Requests -> Replicas \cup {NoReplica}]
  /\ call \in [Requests -> Call \cup {NoCall}]
  /\ verdict \in [Requests -> Verdicts \cup {"none"}]
  /\ seen \in [Requests -> Row]
  /\ reply \in [Requests -> Replies]
  /\ applied \in [Requests -> BOOLEAN]
  /\ crashes \in Nat

\* Transactional outbox: whatever fails, a trip that was ever published has its
\* TripPublished event in the outbox, and no other trip has one.
PublishedIffEvent ==
  \A t \in Trips :
    trip[t].status \in {"published", "started"} <=> outbox[t] # NoEvent

\* The rows trip_history must hold for a trip in a given status.
Path(status) ==
  LET draft == [from |-> "absent", to |-> "draft"]
      published == [from |-> "draft", to |-> "published"]
      started == [from |-> "published", to |-> "started"]
  IN CASE status = "absent" -> <<>>
       [] status = "draft" -> <<draft>>
       [] status = "published" -> <<draft, published>>
       [] OTHER -> <<draft, published, started>>

\* trip_history records every transition of a trip exactly once and in order.
HistoryMatchesStatus ==
  \A t \in Trips : history[t] = Path(trip[t].status)

\* Of all requests to publish one trip, or to start it, at most one takes
\* effect, however they interleave and however often a client retries.
OneEffectPerOperation ==
  \A p, q \in Requests :
    /\ applied[p] /\ applied[q]
    /\ call[p].trip = call[q].trip
    /\ call[p].op = call[q].op
    => p = q

\* A client is told "done" only of committed writes, and told "refused" only
\* when nothing of the request is or will be committed.
AnswersMatchEffects ==
  \A q \in Requests :
    /\ reply[q] = "200" /\ call[q].op # "get" => applied[q]
    /\ reply[q] = "201" => applied[q]
    /\ reply[q] \in {"204", "400", "403", "404", "409", "502", "503"}
         => ~applied[q] /\ session[q] # "committing"

\* 204 is given only to the driver, and only of a trip some other request has
\* published: the event the client waits for exists and is not its own.
AlreadyPublishedIsTrue ==
  \A q \in Requests : reply[q] = "204" =>
    LET t == call[q].trip IN
      /\ trip[t].status \in {"published", "started"}
      /\ trip[t].driver = call[q].client
      /\ outbox[t] # NoEvent /\ outbox[t].cause # q

\* The event names the driver of the trip, and its cause is a publish request
\* of that driver that the Contract Service allowed before the transaction.
EventIsAttributed ==
  \A t \in Trips : outbox[t] # NoEvent =>
    LET e == outbox[t] IN
      /\ e.driver = trip[t].driver /\ e.company = e.driver
      /\ call[e.cause] = [op |-> "publish", trip |-> t, client |-> e.driver]
      /\ verdict[e.cause] = "allowed"
      /\ applied[e.cause]

\* "A rejected check must not access the database": a publish or start request
\* has a transaction, or effects, only after an allowed check.
CheckedBeforeDatabase ==
  \A q \in Requests :
    /\ call[q].op \in {"publish", "start"}
    /\ session[q] # "none" \/ applied[q] \/ pc[q] \in TxSteps
    => verdict[q] = "allowed"

\* The transaction that is going to write a row has it locked and has read its
\* current committed version: no update is lost.
NoLostUpdate ==
  \A q \in Requests :
    (session[q] # "none" /\ write[q].row # NoRow /\ call[q].op # "create") =>
      LET t == call[q].trip IN
        /\ lock[t] = q
        /\ seen[q] = trip[t]

\* A committed trip only moves draft -> published -> started, one move at a
\* time; its driver never changes and its event is never rewritten.
NextStatuses == {<<"absent", "draft">>, <<"draft", "published">>,
                 <<"published", "started">>}

MovesForward ==
  [][\A t \in Trips :
       /\ trip'[t] # trip[t] =>
            /\ <<trip[t].status, trip'[t].status>> \in NextStatuses
            /\ trip[t] # NoRow => trip'[t].driver = trip[t].driver
       /\ outbox[t] # NoEvent => outbox'[t] = outbox[t]]_vars

\* Every request a replica has taken is answered, unless its process ends:
\* waiting for a connection or for a row never lasts for ever.
EveryRequestEnds == \A q \in Requests : pc[q] # "idle" ~> pc[q] = "done"

\* The lock of a row is given back, also by a client that is gone.
LocksAreReleased == \A t \in Trips : lock[t] # NoRequest ~> lock[t] = NoRequest

----------------------------------------------------------------------------
(* The promise this module keeps *)

\* TripService implements the atomic API of TripLifecycle: every interleaving
\* of transactions, failures and crashes looks to the clients like calls that
\* act at one instant (the SELECT that refuses them, the COMMIT that applies
\* them).
Lifecycle == INSTANCE TripLifecycle WITH sent <- [q \in Requests |-> pc[q] = "done"]

ImplementsLifecycle == Lifecycle!Spec
=============================================================================
