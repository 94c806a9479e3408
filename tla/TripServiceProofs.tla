------------------------- MODULE TripServiceProofs -------------------------
(***************************************************************************)
(* Proofs about TripService, for any sets of trips, clients, requests and  *)
(* replicas, any pool size and any number of crashes.                      *)
(*                                                                         *)
(* The inductive invariant says, request by request, what its transaction  *)
(* has read, locked and written at each step (RequestInv), and, trip by    *)
(* trip, what the committed rows say of each other (TripInv).              *)
(***************************************************************************)
EXTENDS TripService, SequenceTheorems, FiniteSetTheorems, TLAPS

(* Facts about sequences of one to three elements. *)

\* Concatenation of an empty sequence and a single element.
LEMMA SeqOne == ASSUME NEW S, NEW a \in S PROVE <<>> \o <<a>> = <<a>>
  BY ConcatEmptySeq

\* Concatenation of two single elements.
LEMMA SeqTwo ==
  ASSUME NEW S, NEW a \in S, NEW b \in S
  PROVE  <<a>> \o <<b>> = <<a, b>>
<1> DEFINE s == <<a>> \o <<b>>
<1>1. <<a>> \in Seq(S) /\ <<b>> \in Seq(S) /\ <<a, b>> \in Seq(S)
  OBVIOUS
<1>2. s \in Seq(S) /\ Len(s) = 2 /\ s[1] = a /\ s[2] = b
  BY <1>1, ConcatProperties
<1> HIDE DEF s
<1>3. s = <<a, b>>
  BY <1>1, <1>2, SeqEqual
<1> QED
  BY <1>3 DEF s

\* Concatenation of two elements and a third.
LEMMA SeqThree ==
  ASSUME NEW S, NEW a \in S, NEW b \in S, NEW c \in S
  PROVE  <<a, b>> \o <<c>> = <<a, b, c>>
<1> DEFINE s == <<a, b>> \o <<c>>
<1>1. <<a, b>> \in Seq(S) /\ <<c>> \in Seq(S) /\ <<a, b, c>> \in Seq(S)
  OBVIOUS
<1>2. s \in Seq(S) /\ Len(s) = 3 /\ s[1] = a /\ s[2] = b /\ s[3] = c
  BY <1>1, ConcatProperties
<1> HIDE DEF s
<1>3. s = <<a, b, c>>
  BY <1>1, <1>2, SeqEqual
<1> QED
  BY <1>3 DEF s

----------------------------------------------------------------------------
(* Type correctness *)

Writes(op) == op \in {"publish", "start"}

Write == [row : Row, steps : Seq(Step), event : Event \cup {NoEvent}]

\* The values the steps write have their types.
LEMMA Values ==
  /\ NoRow \in Row
  /\ NoEvent \in Event \cup {NoEvent}
  /\ NoWrite \in Write
  /\ \A v : CheckReply(v) \in Replies
  /\ \A op : SuccessReply(op) \in Replies /\ ReplyToLostCommit(op) \in Replies
  /\ \A op : NewStatus(op) \in Statuses \ {"absent"}
  /\ \A op : FirstStep(op) \in Steps
  /\ \A op : StepAfterUpdate(op) \in Steps
<1>1. NoRow \in Row
  BY DEF NoRow, Row, Statuses
<1>2. NoWrite \in Write
  BY <1>1 DEF NoWrite, Write
<1>3. /\ \A v : CheckReply(v) \in Replies
      /\ \A op : SuccessReply(op) \in Replies /\ ReplyToLostCommit(op) \in Replies
  BY DEF CheckReply, SuccessReply, ReplyToLostCommit, Replies
<1>4. \A op : NewStatus(op) \in Statuses \ {"absent"}
  BY DEF NewStatus, Statuses
<1>5. /\ \A op : FirstStep(op) \in Steps
      /\ \A op : StepAfterUpdate(op) \in Steps
  BY DEF FirstStep, StepAfterUpdate, Steps, TxSteps
<1> QED
  BY <1>1, <1>2, <1>3, <1>4, <1>5

\* So do the answers that come from a row.
LEMMA RefusalType ==
  ASSUME NEW c, NEW row
  PROVE  Refusal(c, row) \in Replies
  BY DEF Refusal, PublishRefusal, StartRefusal, Replies

\* And a history row.
LEMMA HistoryStepType ==
  ASSUME NEW old \in Statuses, NEW new \in Statuses
  PROVE  HistoryStep(old, new) \in Seq(Step)
<1>1. [from |-> old, to |-> new] \in Step
  BY DEF Step
<1> QED
  BY <1>1 DEF HistoryStep

\* The initial state is well typed.
LEMMA TypeInit == Init => TypeOK
<1> SUFFICES ASSUME Init PROVE TypeOK
  OBVIOUS
<1>1. PICK drivers \in [Trips -> Clients \cup {NoClient}] :
        /\ trip = [t \in Trips |-> IF drivers[t] = NoClient THEN NoRow
                                   ELSE [status |-> "draft", driver |-> drivers[t]]]
        /\ history = [t \in Trips |-> IF drivers[t] = NoClient THEN <<>>
                                      ELSE <<[from |-> "absent", to |-> "draft"]>>]
  BY DEF Init
<1>2. trip \in [Trips -> Row]
  BY <1>1 DEF NoRow, Row, Statuses
<1>3. history \in [Trips -> Seq(Step)]
  <2>1. [from |-> "absent", to |-> "draft"] \in Step
    BY DEF Step, Statuses
  <2>2. <<>> \in Seq(Step) /\ <<[from |-> "absent", to |-> "draft"]>> \in Seq(Step)
    BY <2>1
  <2> QED
    BY <1>1, <2>2
<1>4. /\ outbox \in [Trips -> Event \cup {NoEvent}]
      /\ lock \in [Trips -> Requests \cup {NoRequest}]
      /\ session \in [Requests -> {"none", "open", "committing"}]
      /\ write \in [Requests -> Write]
  BY Values DEF Init
<1>5. /\ pc \in [Requests -> Steps]
      /\ home \in [Requests -> Replicas \cup {NoReplica}]
      /\ call \in [Requests -> Call \cup {NoCall}]
      /\ verdict \in [Requests -> Verdicts \cup {"none"}]
      /\ seen \in [Requests -> Row]
      /\ reply \in [Requests -> Replies]
  BY Values DEF Init, Steps, Replies
<1>6. applied \in [Requests -> BOOLEAN] /\ crashes \in Nat
  BY DEF Init
<1> QED
  BY <1>2, <1>3, <1>4, <1>5, <1>6 DEF TypeOK, Write

\* Goto and Decide keep the types of pc and reply.
LEMMA GotoType ==
  ASSUME TypeOK, NEW q, NEW step \in Steps, Goto(q, step)
  PROVE  pc' \in [Requests -> Steps]
  BY DEF TypeOK, Goto

\* Decide keeps the type of reply.
LEMMA DecideType ==
  ASSUME TypeOK, NEW q, NEW answer \in Replies, Decide(q, answer)
  PROVE  reply' \in [Requests -> Replies]
  BY DEF TypeOK, Decide

\* The steps that change neither the database nor a transaction.
LEMMA TypeOutside ==
  ASSUME TypeOK, NEW q \in Requests, pc[q] # "idle" => call[q] \in Call,
         Receive(q) \/ Validate(q) \/ CheckContract(q) \/ BeginFails(q) \/ ReadTrip(q)
           \/ StatementFails(q) \/ RollbackLost(q)
  PROVE  TypeOK'
<1> USE GotoType, DecideType, Values
<1>1. {"begin", "done", "rollback"} \subseteq Steps /\ {"400", "500", "200", "404"} \subseteq Replies
  BY DEF Steps, TxSteps, Replies
<1>2. CASE Receive(q)
  <2>1. PICK c \in Calls, r \in Replicas :
          /\ call' = [call EXCEPT ![q] = c]
          /\ home' = [home EXCEPT ![q] = r]
          /\ Goto(q, FirstStep(c.op))
    BY <1>2 DEF Receive
  <2>2. pc' \in [Requests -> Steps]
    BY <2>1
  <2> QED
    BY <1>2, <2>1, <2>2, CallsAssumption DEF Receive, TypeOK, dbVars
<1>3. CASE Validate(q)
  <2>1. pc' \in [Requests -> Steps] /\ reply' \in [Requests -> Replies]
    BY <1>1, <1>3 DEF Validate, TypeOK
  <2> QED
    BY <1>3, <2>1 DEF Validate, TypeOK, dbVars
<1>4. CASE CheckContract(q)
  <2>1. PICK v \in Verdicts :
          /\ verdict' = [verdict EXCEPT ![q] = v]
          /\ \/ Goto(q, "begin") /\ UNCHANGED reply
             \/ Goto(q, "done") /\ Decide(q, CheckReply(v))
    BY <1>4 DEF CheckContract
  <2>2. pc' \in [Requests -> Steps] /\ reply' \in [Requests -> Replies]
    BY <1>1, <2>1 DEF TypeOK
  <2> QED
    BY <1>4, <2>1, <2>2 DEF CheckContract, TypeOK, dbVars
<1>5. CASE BeginFails(q)
  <2>1. pc' \in [Requests -> Steps] /\ reply' \in [Requests -> Replies]
    BY <1>1, <1>5 DEF BeginFails
  <2> QED
    BY <1>5, <2>1 DEF BeginFails, TypeOK, dbVars
<1>6. CASE ReadTrip(q)
  <2>1. pc' \in [Requests -> Steps] /\ reply' \in [Requests -> Replies]
    BY <1>1, <1>6 DEF ReadTrip
  <2>2. seen' \in [Requests -> Row]
    BY <1>6 DEF ReadTrip, TypeOK, Call
  <2> QED
    BY <1>6, <2>1, <2>2 DEF ReadTrip, TypeOK, dbVars
<1>7. CASE StatementFails(q)
  <2>1. pc' \in [Requests -> Steps] /\ reply' \in [Requests -> Replies]
    BY <1>1, <1>7 DEF StatementFails
  <2> QED
    BY <1>7, <2>1 DEF StatementFails, TypeOK, dbVars
<1>8. CASE RollbackLost(q)
  <2>1. pc' \in [Requests -> Steps]
    BY <1>1, <1>8 DEF RollbackLost
  <2> QED
    BY <1>8, <2>1 DEF RollbackLost, TypeOK, dbVars
<1> QED
  BY <1>2, <1>3, <1>4, <1>5, <1>6, <1>7, <1>8

\* The steps that write in a transaction.
LEMMA TypeWriting ==
  ASSUME TypeOK, NEW q \in Requests, pc[q] # "idle" => call[q] \in Call,
         pc[q] = "insertEvent" => seen[q].driver \in Clients,
         \/ Begin(q) \/ SelectForUpdate(q) \/ UpdateTrip(q) \/ InsertEvent(q)
         \/ InsertTrip(q) \/ InsertHistory(q)
  PROVE  TypeOK'
<1> USE GotoType, DecideType, Values
<1>1. TxSteps \subseteq Steps
  BY DEF Steps
<1>2. write \in [Requests -> Write]
  BY DEF TypeOK, Write
<1>3. CASE Begin(q)
  <2>1. pc' \in [Requests -> Steps]
    BY <1>1, <1>3 DEF Begin, TxSteps
  <2> QED
    BY <1>3, <2>1 DEF Begin, TypeOK
<1>4. CASE SelectForUpdate(q)
  <2> DEFINE t == call[q].trip
  <2>1. t \in Trips
    BY <1>4 DEF SelectForUpdate, Call
  <2>2. pc' \in [Requests -> Steps] /\ reply' \in [Requests -> Replies]
    BY <1>1, <1>4, RefusalType DEF SelectForUpdate, TxSteps, TypeOK
  <2>3. seen' \in [Requests -> Row]
    BY <1>4, <2>1 DEF SelectForUpdate, TypeOK
  <2>4. lock' \in [Trips -> Requests \cup {NoRequest}]
    BY <1>4, <2>1 DEF SelectForUpdate, TypeOK
  <2> QED
    BY <1>4, <2>2, <2>3, <2>4 DEF SelectForUpdate, TypeOK
<1>5. CASE UpdateTrip(q)
  <2>1. pc' \in [Requests -> Steps]
    BY <1>5 DEF UpdateTrip
  <2>2. Written(q) \in Row
    BY DEF Written, TypeOK, Row
  <2>3. trip[call[q].trip].status \in Statuses
    BY <1>5 DEF UpdateTrip, TypeOK, Call, Row
  <2>4. write' \in [Requests -> Write]
    BY <1>2, <1>5, <2>2, <2>3, HistoryStepType DEF UpdateTrip, Write
  <2> QED
    BY <1>5, <2>1, <2>4 DEF UpdateTrip, TypeOK, Write
<1>6. CASE InsertEvent(q)
  <2>1. pc' \in [Requests -> Steps]
    BY <1>1, <1>6 DEF InsertEvent, TxSteps
  <2>2. NewEvent(q) \in Event
    BY <1>6 DEF InsertEvent, NewEvent, Event, Call
  <2>3. write' \in [Requests -> Write]
    BY <1>2, <1>6, <2>2 DEF InsertEvent, Write
  <2> QED
    BY <1>6, <2>1, <2>3 DEF InsertEvent, TypeOK, Write
<1>7. CASE InsertTrip(q)
  <2>1. pc' \in [Requests -> Steps]
    BY <1>1, <1>7 DEF InsertTrip, TxSteps
  <2>2. [status |-> NewStatus("create"), driver |-> call[q].client] \in Row
    BY <1>7 DEF InsertTrip, Call, Row
  <2>3. write' \in [Requests -> Write]
    BY <1>2, <1>7, <2>2 DEF InsertTrip, Write
  <2> QED
    BY <1>7, <2>1, <2>3 DEF InsertTrip, TypeOK, Write
<1>8. CASE InsertHistory(q)
  <2>1. pc' \in [Requests -> Steps]
    BY <1>1, <1>8 DEF InsertHistory, TxSteps
  <2>2. "absent" \in Statuses /\ write[q].row.status \in Statuses
    BY <1>2 DEF Write, Row, Statuses
  <2>3. write' \in [Requests -> Write]
    BY <1>2, <1>8, <2>2, HistoryStepType DEF InsertHistory, Write
  <2> QED
    BY <1>8, <2>1, <2>3 DEF InsertHistory, TypeOK, Write
<1> QED
  BY <1>3, <1>4, <1>5, <1>6, <1>7, <1>8

\* Apply, Abort and Close keep the types of what they change.
LEMMA TypeApply ==
  ASSUME TypeOK, NEW q \in Requests, call[q].trip \in Trips, Apply(q)
  PROVE  /\ trip' \in [Trips -> Row]
         /\ history' \in [Trips -> Seq(Step)]
         /\ outbox' \in [Trips -> Event \cup {NoEvent}]
         /\ applied' \in [Requests -> BOOLEAN]
         /\ lock' \in [Trips -> Requests \cup {NoRequest}]
<1>1. write[q] \in Write
  BY DEF TypeOK, Write
<1>2. trip' \in [Trips -> Row]
  BY <1>1 DEF Apply, TypeOK, Write
<1>3. history' \in [Trips -> Seq(Step)]
  <2>1. history[call[q].trip] \o write[q].steps \in Seq(Step)
    BY <1>1, ConcatProperties DEF TypeOK, Write
  <2> QED
    BY <2>1 DEF Apply, TypeOK
<1>4. outbox' \in [Trips -> Event \cup {NoEvent}]
  BY <1>1 DEF Apply, TypeOK, Write
<1>5. applied' \in [Requests -> BOOLEAN]
  BY DEF Apply, TypeOK
<1>6. lock' \in [Trips -> Requests \cup {NoRequest}]
  BY DEF Apply, Released, TypeOK
<1> QED
  BY <1>2, <1>3, <1>4, <1>5, <1>6

\* Close keeps the types of session and write.
LEMMA TypeClose ==
  ASSUME TypeOK, NEW q \in Requests, Close(q)
  PROVE  /\ session' \in [Requests -> {"none", "open", "committing"}]
         /\ write' \in [Requests -> Write]
  BY Values DEF Close, TypeOK, Write

\* The steps that end a transaction, and the end of a process.
LEMMA TypeEnding ==
  ASSUME TypeOK, NEW q \in Requests, pc[q] # "idle" => call[q] \in Call,
         Commit(q) \/ CommitLost(q) \/ Rollback(q) \/ SessionAborts(q) \/ SessionCommits(q)
  PROVE  TypeOK'
<1> USE GotoType, DecideType, TypeApply, TypeClose, Values
<1>1. "done" \in Steps
  BY DEF Steps
<1>2. pc[q] # "idle" => call[q].trip \in Trips
  BY DEF Call
<1>3. CASE Commit(q)
  <2>1. pc' \in [Requests -> Steps] /\ reply' \in [Requests -> Replies]
    BY <1>1, <1>3 DEF Commit
  <2> QED
    BY <1>2, <1>3, <2>1 DEF Commit, TypeOK, Write
<1>4. CASE CommitLost(q)
  <2>1. pc' \in [Requests -> Steps] /\ reply' \in [Requests -> Replies]
    BY <1>1, <1>4 DEF CommitLost
  <2>2. session' \in [Requests -> {"none", "open", "committing"}]
    BY <1>4 DEF CommitLost, TypeOK
  <2> QED
    BY <1>4, <2>1, <2>2 DEF CommitLost, TypeOK
<1>5. lock' \in [Trips -> Requests \cup {NoRequest}] \/ ~Abort(q)
  BY DEF Abort, Released, TypeOK
<1>6. CASE Rollback(q)
  <2>1. pc' \in [Requests -> Steps]
    BY <1>1, <1>6 DEF Rollback
  <2>2. UNCHANGED <<trip, history, outbox, applied>>
    BY <1>6 DEF Rollback, Abort
  <2> QED
    BY <1>5, <1>6, <2>1, <2>2 DEF Rollback, TypeOK, Write
<1>7. CASE SessionAborts(q)
  <2>1. UNCHANGED <<trip, history, outbox, applied>>
    BY <1>7 DEF SessionAborts, Abort
  <2> QED
    BY <1>5, <1>7, <2>1 DEF SessionAborts, TypeOK, Write
<1>8. CASE SessionCommits(q)
  BY <1>2, <1>8 DEF SessionCommits, TypeOK, Write
<1> QED
  BY <1>3, <1>4, <1>6, <1>7, <1>8

\* The end of a process leaves every variable well typed.
LEMMA TypeCrash ==
  ASSUME TypeOK, NEW r \in Replicas, Crash(r)
  PROVE  TypeOK'
<1>1. pc' \in [Requests -> Steps]
  BY DEF Crash, TypeOK, Steps
<1>2. reply' \in [Requests -> Replies]
  BY DEF Crash, TypeOK, Replies
<1>3. session' \in [Requests -> {"none", "open", "committing"}]
  BY DEF Crash, TypeOK
<1> QED
  BY <1>1, <1>2, <1>3 DEF Crash, TypeOK

----------------------------------------------------------------------------
(* The inductive invariant *)

\* All the writes of a request's transaction are made: it is about to commit,
\* or the server may still commit it.
AllWritten(q) == pc[q] = "commit" \/ session[q] = "committing"

\* How far a handler has come, by operation.
ControlInv(q) ==
  /\ pc[q] = "idle" =>
       call[q] = NoCall /\ reply[q] = "none" /\ verdict[q] = "none"
  /\ pc[q] # "idle" => call[q] \in Call
  /\ pc[q] \in {"validate", "insertTrip", "insertHistory"} => call[q].op = "create"
  /\ pc[q] \in {"check", "select", "update"} => Writes(call[q].op)
  /\ pc[q] = "insertEvent" => call[q].op = "publish"
  /\ pc[q] = "read" => call[q].op = "get"
  /\ pc[q] \in {"begin", "rollback", "commit"} => call[q].op # "get"
  /\ pc[q] \in TxSteps => session[q] = "open"
  /\ pc[q] \in {"idle", "validate", "check", "begin", "read"} => session[q] = "none"
  /\ session[q] = "committing" => pc[q] = "done"
  /\ pc[q] \in {"rollback", "done"} <=> reply[q] # "none"
  /\ applied[q] => pc[q] = "done" /\ session[q] = "none"
  /\ call[q].op = "get" => session[q] = "none" /\ ~applied[q]
  /\ Writes(call[q].op) /\ (pc[q] \in {"begin"} \cup TxSteps \/ session[q] # "none" \/ applied[q])
       => verdict[q] = "allowed"

\* What a transaction has locked, read and written.
TxInv(q) ==
  LET c == call[q]
      t == call[q].trip
  IN
  /\ session[q] = "none" => write[q] = NoWrite
  /\ pc[q] \in {"select", "update", "insertTrip"} => write[q] = NoWrite
  /\ Writes(c.op) /\ session[q] # "none"
       /\ (pc[q] \in {"update", "insertEvent", "commit"} \/ write[q].row # NoRow)
       => /\ lock[t] = q
          /\ seen[q] = [status |-> IF c.op = "publish" THEN "draft" ELSE "published",
                        driver |-> c.client]
  /\ Writes(c.op) /\ (pc[q] \in {"insertEvent", "commit"} \/ session[q] = "committing")
       => /\ write[q].row = Written(q)
          /\ write[q].steps = <<[from |-> seen[q].status, to |-> NewStatus(c.op)]>>
  /\ c.op = "publish" /\ AllWritten(q)
       => write[q].event = [driver |-> c.client, company |-> c.client, cause |-> q]
  /\ c.op # "publish" \/ pc[q] = "insertEvent" => write[q].event = NoEvent
  /\ c.op = "create" /\ (pc[q] = "insertHistory" \/ AllWritten(q))
       => write[q].row = [status |-> "draft", driver |-> c.client]
  /\ c.op = "create" /\ AllWritten(q)
       => write[q].steps = <<[from |-> "absent", to |-> "draft"]>>
  /\ c.op = "create" /\ ~applied[q] => trip[t] = NoRow

\* What a request that has taken effect has left behind.
EffectInv(q) ==
  LET t == call[q].trip IN
  applied[q] =>
    /\ call[q].op = "create" => trip[t] # NoRow
    /\ call[q].op = "publish" => outbox[t] # NoEvent /\ outbox[t].cause = q
    /\ call[q].op = "start" => trip[t].status = "started"

\* What an answer says of the request.
AnswerInv(q) ==
  /\ reply[q] = "200" /\ call[q].op # "get" => applied[q]
  /\ reply[q] = "201" => applied[q]
  /\ reply[q] \in {"204", "400", "403", "404", "409", "502", "503"}
       => ~applied[q] /\ session[q] # "committing"
  /\ reply[q] = "204" =>
       LET t == call[q].trip IN
         /\ trip[t].status \in {"published", "started"}
         /\ trip[t].driver = call[q].client

\* The lock of a row is held by an open transaction that has read the row.
LockInv(t) ==
  lock[t] # NoRequest =>
    LET q == lock[t] IN
      /\ session[q] # "none"
      /\ call[q] \in Call /\ call[q].trip = t /\ Writes(call[q].op)
      /\ seen[q] = trip[t] /\ trip[t] # NoRow

\* The committed rows of a trip.
TripInv(t) ==
  /\ trip[t] = NoRow \/ (trip[t].status # "absent" /\ trip[t].driver \in Clients)
  /\ trip[t].status \in {"published", "started"} <=> outbox[t] # NoEvent
  /\ history[t] = Path(trip[t].status)
  /\ outbox[t] # NoEvent =>
       LET e == outbox[t] IN
         /\ e.driver = trip[t].driver /\ e.company = e.driver
         /\ call[e.cause] = [op |-> "publish", trip |-> t, client |-> e.driver]
         /\ applied[e.cause]

\* No two "create" requests get the same id.
FreshIds ==
  \A p, q \in Requests :
    call[p].op = "create" /\ call[q].op = "create" /\ call[p].trip = call[q].trip
      => p = q

RequestInv(q) == ControlInv(q) /\ TxInv(q) /\ EffectInv(q) /\ AnswerInv(q)

IInv ==
  /\ TypeOK
  /\ \A q \in Requests : RequestInv(q)
  /\ \A t \in Trips : LockInv(t) /\ TripInv(t)
  /\ FreshIds

----------------------------------------------------------------------------
(* Frames: what is not touched keeps its invariant *)

Untouched(p) == UNCHANGED <<pc[p], session[p], write[p], call[p], verdict[p],
                            seen[p], reply[p], applied[p]>>

\* A request whose own state and whose trip stay as they are, and which loses
\* no lock.
LEMMA RequestFrame ==
  ASSUME NEW p \in Requests, RequestInv(p), Untouched(p),
         UNCHANGED <<trip[call[p].trip], outbox[call[p].trip]>>,
         lock[call[p].trip] = p => lock'[call[p].trip] = p
  PROVE  RequestInv(p)'
<1>1. UNCHANGED <<pc[p], session[p], write[p], call[p], verdict[p], seen[p],
                  reply[p], applied[p]>>
  BY DEF Untouched
<1>2. ControlInv(p)'
  BY <1>1 DEF RequestInv, ControlInv
<1>3. TxInv(p)'
  BY <1>1 DEF RequestInv, TxInv, AllWritten, Written
<1>4. EffectInv(p)' /\ AnswerInv(p)'
  BY <1>1 DEF RequestInv, EffectInv, AnswerInv
<1> QED
  BY <1>2, <1>3, <1>4 DEF RequestInv

\* A trip whose rows stay as they are.
LEMMA TripFrame ==
  ASSUME NEW t \in Trips, TripInv(t), UNCHANGED <<trip[t], history[t], outbox[t]>>,
         outbox[t] # NoEvent =>
           /\ call'[outbox[t].cause] = call[outbox[t].cause]
           /\ applied[outbox[t].cause] => applied'[outbox[t].cause]
  PROVE  TripInv(t)'
  BY DEF TripInv

\* A lock whose holder keeps its transaction and whose row stays as it is.
LEMMA LockFrame ==
  ASSUME NEW t \in Trips, LockInv(t), UNCHANGED <<trip[t], lock[t]>>,
         lock[t] # NoRequest =>
           /\ session'[lock[t]] # "none"
           /\ call'[lock[t]] = call[lock[t]]
           /\ seen'[lock[t]] = seen[lock[t]]
  PROVE  LockInv(t)'
  BY DEF LockInv

\* The steps that change nothing but the handler's own state.
LEMMA LocalStep ==
  ASSUME IInv, NEW q \in Requests, TypeOK', RequestInv(q)',
         \A p \in Requests \ {q} : Untouched(p),
         UNCHANGED <<trip, history, outbox, lock, applied, call>>,
         seen'[q] = seen[q] \/ session[q] = "none",
         session'[q] # "none" \/ session'[q] = session[q]
  PROVE  IInv'
<1>1. \A p \in Requests : RequestInv(p)'
  BY RequestFrame DEF IInv
<1>2. ASSUME NEW t \in Trips PROVE LockInv(t)'
  <2>1. LockInv(t) /\ TypeOK
    BY DEF IInv
  <2>2. CASE lock[t] = q
    BY <2>1, <2>2, LockFrame DEF LockInv
  <2>3. CASE lock[t] # q
    BY <2>1, <2>3, LockFrame DEF LockInv, Untouched, TypeOK
  <2> QED
    BY <2>2, <2>3
<1>3. ASSUME NEW t \in Trips PROVE TripInv(t)'
  BY TripFrame DEF IInv
<1>4. FreshIds'
  BY DEF IInv, FreshIds
<1> QED
  BY <1>1, <1>2, <1>3, <1>4 DEF IInv

----------------------------------------------------------------------------
(* The invariant and the steps outside a transaction *)

\* The verdict of validateCreateTripCommand touches one request only.
LEMMA InvValidate ==
  ASSUME IInv, NEW q \in Requests, Validate(q)
  PROVE  IInv'
<1>1. TypeOK'
  BY TypeOutside DEF IInv, RequestInv, ControlInv
<1>2. \A p \in Requests \ {q} : Untouched(p)
  BY DEF IInv, TypeOK, Validate, dbVars, Goto, Decide, Untouched
<1>3. ControlInv(q)'
  BY DEF IInv, TypeOK, Validate, dbVars, Goto, Decide, RequestInv, ControlInv, TxSteps, Writes
<1>4. TxInv(q)'
  BY DEF IInv, TypeOK, Validate, dbVars, Goto, RequestInv, ControlInv, TxInv, AllWritten, Written, Writes
<1>5. EffectInv(q)' /\ AnswerInv(q)'
  BY DEF IInv, TypeOK, Validate, dbVars, Goto, Decide, RequestInv, ControlInv, EffectInv, AnswerInv
<1> QED
  BY <1>1, <1>2, <1>3, <1>4, <1>5, LocalStep DEF RequestInv, Validate, dbVars

\* A request leaves the contract check allowed, or is refused for good.
LEMMA InvCheckContract ==
  ASSUME IInv, NEW q \in Requests, CheckContract(q)
  PROVE  IInv'
<1>1. TypeOK'
  BY TypeOutside DEF IInv, RequestInv, ControlInv
<1>2. PICK v \in Verdicts :
        /\ verdict' = [verdict EXCEPT ![q] = v]
        /\ \/ v = "allowed" /\ Goto(q, "begin") /\ UNCHANGED reply
           \/ Goto(q, "done") /\ Decide(q, CheckReply(v))
  BY DEF CheckContract, MayProceed
<1>3. CheckReply(v) \in {"403", "502", "503"}
  BY DEF CheckReply
<1>4. \A p \in Requests \ {q} : Untouched(p)
  BY <1>2 DEF IInv, TypeOK, CheckContract, dbVars, Goto, Decide, Untouched
<1>5. ControlInv(q)'
  BY <1>2, <1>3 DEF IInv, TypeOK, CheckContract, dbVars, Goto, Decide, RequestInv, ControlInv, TxSteps, Writes
<1>6. TxInv(q)'
  BY <1>2 DEF IInv, TypeOK, CheckContract, dbVars, Goto, RequestInv, ControlInv, TxInv, AllWritten, Written, Writes
<1>7. EffectInv(q)' /\ AnswerInv(q)'
  BY <1>2, <1>3 DEF IInv, TypeOK, CheckContract, dbVars, Goto, Decide, RequestInv, ControlInv, EffectInv, AnswerInv
<1> QED
  BY <1>1, <1>4, <1>5, <1>6, <1>7, LocalStep DEF RequestInv, CheckContract, dbVars

\* A transaction opens only for a checked request and holds no lock yet.
LEMMA InvBegin ==
  ASSUME IInv, NEW q \in Requests, Begin(q)
  PROVE  IInv'
<1>1. TypeOK'
  BY TypeWriting DEF IInv, RequestInv, ControlInv, Begin
<1>2. \A p \in Requests \ {q} : Untouched(p)
  BY DEF IInv, TypeOK, Begin, Goto, Untouched
<1>3. /\ pc[q] = "begin" /\ session[q] = "none" /\ session'[q] = "open"
      /\ pc'[q] = IF call[q].op = "create" THEN "insertTrip" ELSE "select"
      /\ UNCHANGED <<call, reply, verdict, applied, write, trip, outbox>>
      /\ reply[q] = "none" /\ ~applied[q] /\ write[q] = NoWrite
      /\ call[q] \in Call /\ call[q].op \in {"create", "publish", "start"}
      /\ Writes(call[q].op) => verdict[q] = "allowed"
  <2>1. ControlInv(q) /\ TxInv(q) /\ TypeOK
    BY DEF IInv, RequestInv
  <2>2. /\ pc[q] = "begin"
        /\ pc'[q] = IF call[q].op = "create" THEN "insertTrip" ELSE "select"
        /\ session'[q] = "open"
        /\ UNCHANGED <<call, reply, verdict, applied, write, trip, outbox>>
    BY <2>1 DEF TypeOK, Begin, Goto
  <2>3. /\ session[q] = "none" /\ reply[q] = "none" /\ ~applied[q] /\ write[q] = NoWrite
        /\ call[q] \in Call /\ call[q].op # "get"
        /\ Writes(call[q].op) => verdict[q] = "allowed"
    BY <2>1, <2>2 DEF ControlInv, TxInv
  <2> QED
    BY <2>2, <2>3 DEF Call
<1>4. ControlInv(q)'
  <2>1. CASE call[q].op = "create"
    BY <1>3, <2>1 DEF ControlInv, TxSteps, Writes
  <2>2. CASE call[q].op # "create"
    BY <1>3, <2>2 DEF ControlInv, TxSteps, Writes
  <2> QED
    BY <2>1, <2>2
<1>5. TxInv(q)'
  <2>1. TxInv(q)
    BY DEF IInv, RequestInv
  <2>2. pc'[q] \in {"insertTrip", "select"}
    BY <1>3
  <2> QED
    BY <1>3, <2>1, <2>2 DEF TxInv, AllWritten, NoWrite
<1>6. EffectInv(q)' /\ AnswerInv(q)'
  BY <1>3 DEF EffectInv, AnswerInv
<1> QED
  BY <1>1, <1>2, <1>3, <1>4, <1>5, <1>6, LocalStep DEF RequestInv, Begin

\* A request that gets no transaction has no effect to account for.
LEMMA InvBeginFails ==
  ASSUME IInv, NEW q \in Requests, BeginFails(q)
  PROVE  IInv'
<1>1. TypeOK'
  BY TypeOutside DEF IInv, RequestInv, ControlInv
<1>2. \A p \in Requests \ {q} : Untouched(p)
  BY DEF IInv, TypeOK, BeginFails, dbVars, Goto, Decide, Untouched
<1>3. ControlInv(q)'
  BY DEF IInv, TypeOK, BeginFails, dbVars, Goto, Decide, RequestInv, ControlInv, TxSteps, Writes
<1>4. TxInv(q)'
  BY DEF IInv, TypeOK, BeginFails, dbVars, Goto, RequestInv, ControlInv, TxInv, AllWritten, Written, Writes
<1>5. EffectInv(q)' /\ AnswerInv(q)'
  BY DEF IInv, TypeOK, BeginFails, dbVars, Goto, Decide, RequestInv, ControlInv, EffectInv, AnswerInv
<1> QED
  BY <1>1, <1>2, <1>3, <1>4, <1>5, LocalStep DEF RequestInv, BeginFails, dbVars

\* GET leaves the database alone.
LEMMA InvReadTrip ==
  ASSUME IInv, NEW q \in Requests, ReadTrip(q)
  PROVE  IInv'
<1>1. TypeOK'
  BY TypeOutside DEF IInv, RequestInv, ControlInv
<1>2. /\ call[q].op = "get" /\ session[q] = "none" /\ ~applied[q] /\ reply[q] = "none"
      /\ reply'[q] \in {"200", "404", "500"}
  BY DEF IInv, TypeOK, ReadTrip, Decide, RequestInv, ControlInv
<1>3. \A p \in Requests \ {q} : Untouched(p)
  BY DEF IInv, TypeOK, ReadTrip, dbVars, Goto, Decide, Untouched
<1>4. ControlInv(q)'
  BY <1>2 DEF IInv, TypeOK, ReadTrip, dbVars, Goto, RequestInv, ControlInv, TxSteps, Writes
<1>5. TxInv(q)'
  BY <1>2 DEF IInv, TypeOK, ReadTrip, dbVars, Goto, RequestInv, ControlInv, TxInv, AllWritten, Written, Writes
<1>6. EffectInv(q)' /\ AnswerInv(q)'
  BY <1>2 DEF IInv, TypeOK, ReadTrip, dbVars, Goto, RequestInv, ControlInv, EffectInv, AnswerInv
<1> QED
  BY <1>1, <1>2, <1>3, <1>4, <1>5, <1>6, LocalStep DEF RequestInv, ReadTrip, dbVars

\* A new request names a fresh trip, or one that is known already.
LEMMA InvReceive ==
  ASSUME IInv, NEW q \in Requests, Receive(q)
  PROVE  IInv'
<1>1. TypeOK'
  BY TypeOutside DEF IInv, RequestInv, ControlInv
<1>2. PICK c \in Calls :
        /\ c.op = "create" => FreshId(c.trip)
        /\ call' = [call EXCEPT ![q] = c]
        /\ Goto(q, FirstStep(c.op))
  BY DEF Receive
<1>3. c \in Call /\ call'[q] = c /\ \A p \in Requests \ {q} : Untouched(p)
  BY <1>2, CallsAssumption DEF IInv, TypeOK, Receive, dbVars, Goto, Untouched
<1>4. /\ pc[q] = "idle" /\ call[q] = NoCall /\ session[q] = "none" /\ ~applied[q]
      /\ reply[q] = "none" /\ verdict[q] = "none" /\ write[q] = NoWrite
  BY DEF IInv, Receive, RequestInv, ControlInv, TxInv
<1>5. \A p \in Requests \ {q} : RequestInv(p)'
  BY <1>3, RequestFrame DEF IInv, Receive, dbVars
<1>6. RequestInv(q)'
  <2>1. UNCHANGED <<session[q], write[q], verdict[q], reply[q], applied[q], trip, outbox, lock>>
    BY DEF Receive, dbVars
  <2>2. pc'[q] = FirstStep(c.op) /\ c.op \in {"create", "publish", "start", "get"}
    BY <1>2, <1>3 DEF IInv, TypeOK, Goto, Call
  <2>3. ControlInv(q)'
    BY <1>3, <1>4, <2>1, <2>2 DEF ControlInv, FirstStep, TxSteps, Writes
  <2>4. TxInv(q)'
    BY <1>2, <1>3, <1>4, <2>1, <2>2 DEF TxInv, FirstStep, AllWritten, Written, NoWrite, FreshId
  <2>5. EffectInv(q)' /\ AnswerInv(q)'
    BY <1>4, <2>1 DEF EffectInv, AnswerInv
  <2> QED
    BY <2>3, <2>4, <2>5 DEF RequestInv
<1>7. ASSUME NEW t \in Trips PROVE LockInv(t)'
  <2>1. lock[t] # NoRequest => lock[t] # q /\ lock[t] \in Requests
    BY <1>4 DEF IInv, LockInv, TypeOK
  <2> QED
    BY <1>3, <2>1, LockFrame DEF IInv, LockInv, Untouched, Receive, dbVars
<1>8. ASSUME NEW t \in Trips PROVE TripInv(t)'
  <2>1. outbox[t] # NoEvent => outbox[t].cause # q /\ call'[outbox[t].cause] = call[outbox[t].cause]
    <3> SUFFICES ASSUME outbox[t] # NoEvent
                 PROVE  outbox[t].cause # q /\ call'[outbox[t].cause] = call[outbox[t].cause]
      OBVIOUS
    <3>1. outbox[t].cause \in Requests
      BY DEF IInv, TypeOK, Event
    <3>2. call[outbox[t].cause].op = "publish"
      <4>1. TripInv(t)
        BY DEF IInv
      <4> QED
        BY <4>1 DEF TripInv
    <3>3. outbox[t].cause # q
      BY <1>4, <3>2 DEF NoCall
    <3> QED
      BY <1>2, <3>1, <3>3 DEF IInv, TypeOK
  <2> QED
    BY <2>1, TripFrame DEF IInv, Receive, dbVars
<1>9. FreshIds'
  BY <1>2, <1>3 DEF IInv, FreshIds, FreshId, Untouched
<1> QED
  BY <1>1, <1>5, <1>6, <1>7, <1>8, <1>9 DEF IInv

----------------------------------------------------------------------------
(* The invariant and the statements of a transaction *)

\* A failed statement leaves the writes to be rolled back.
LEMMA InvStatementFails ==
  ASSUME IInv, NEW q \in Requests, StatementFails(q)
  PROVE  IInv'
<1>1. TypeOK'
  BY TypeOutside DEF IInv, RequestInv, ControlInv
<1>2. \A p \in Requests \ {q} : Untouched(p)
  BY DEF IInv, TypeOK, StatementFails, dbVars, Goto, Decide, Untouched
<1>3. ControlInv(q)'
  BY DEF IInv, TypeOK, StatementFails, dbVars, Goto, Decide, RequestInv, ControlInv, TxSteps, Writes
<1>4. TxInv(q)'
  BY DEF IInv, TypeOK, StatementFails, dbVars, Goto, RequestInv, ControlInv, TxInv, AllWritten, Written, Writes, TxSteps
<1>5. EffectInv(q)' /\ AnswerInv(q)'
  BY DEF IInv, TypeOK, StatementFails, dbVars, Goto, Decide, RequestInv, ControlInv, EffectInv, AnswerInv, TxSteps
<1> QED
  BY <1>1, <1>2, <1>3, <1>4, <1>5, LocalStep DEF RequestInv, StatementFails, dbVars

\* A lost ROLLBACK leaves the transaction to the server.
LEMMA InvRollbackLost ==
  ASSUME IInv, NEW q \in Requests, RollbackLost(q)
  PROVE  IInv'
<1>1. TypeOK'
  BY TypeOutside DEF IInv, RequestInv, ControlInv
<1>2. \A p \in Requests \ {q} : Untouched(p)
  BY DEF IInv, TypeOK, RollbackLost, dbVars, Goto, Untouched
<1>3. ControlInv(q)'
  BY DEF IInv, TypeOK, RollbackLost, dbVars, Goto, RequestInv, ControlInv, TxSteps, Writes
<1>4. TxInv(q)'
  BY DEF IInv, TypeOK, RollbackLost, dbVars, Goto, RequestInv, ControlInv, TxInv, AllWritten, Written, Writes
<1>5. EffectInv(q)' /\ AnswerInv(q)'
  BY DEF IInv, TypeOK, RollbackLost, dbVars, Goto, RequestInv, ControlInv, EffectInv, AnswerInv
<1> QED
  BY <1>1, <1>2, <1>3, <1>4, <1>5, LocalStep DEF RequestInv, RollbackLost, dbVars

\* The row read under the lock is a draft of the caller (publish) or a
\* published trip of the caller (start) exactly when nothing is refused.
LEMMA RefusalMeaning ==
  ASSUME NEW c \in Call, Writes(c.op), NEW row \in Row,
         row = NoRow \/ (row.status # "absent" /\ row.driver \in Clients)
  PROVE  /\ Refusal(c, row) = "none" =>
              row = [status |-> IF c.op = "publish" THEN "draft" ELSE "published",
                     driver |-> c.client]
         /\ Refusal(c, row) # "none" => Refusal(c, row) \in {"204", "403", "404", "409"}
         /\ Refusal(c, row) = "204" => row.status = "published" /\ row.driver = c.client
<1>1. CASE c.op = "publish"
  BY <1>1 DEF Refusal, PublishRefusal, Row, NoRow, Statuses
<1>2. CASE c.op = "start"
  BY <1>2 DEF Refusal, StartRefusal, Row, NoRow, Statuses
<1> QED
  BY <1>1, <1>2 DEF Writes

\* The SELECT locks the row and reads the committed version under the lock.
LEMMA InvSelectForUpdate ==
  ASSUME IInv, NEW q \in Requests, SelectForUpdate(q)
  PROVE  IInv'
<1> DEFINE t == call[q].trip
           refusal == Refusal(call[q], trip[t])
<1>1. TypeOK'
  BY TypeWriting DEF IInv, RequestInv, ControlInv, SelectForUpdate
<1>2. /\ pc[q] = "select" /\ session[q] = "open" /\ reply[q] = "none" /\ ~applied[q]
      /\ call[q] \in Call /\ Writes(call[q].op) /\ write[q] = NoWrite
      /\ t \in Trips /\ verdict[q] = "allowed"
  BY DEF IInv, SelectForUpdate, RequestInv, ControlInv, TxInv, TxSteps, Call
<1>3. /\ trip[t] # NoRow => lock[t] = NoRequest
      /\ seen'[q] = trip[t]
      /\ lock' = [lock EXCEPT ![t] = IF trip[t] = NoRow THEN @ ELSE q]
      /\ \/ refusal = "none" /\ pc'[q] = "update" /\ reply'[q] = "none"
         \/ refusal # "none" /\ pc'[q] = "rollback" /\ reply'[q] = refusal
      /\ UNCHANGED <<trip, history, outbox, session, write, call, verdict, applied>>
  BY <1>2 DEF IInv, TypeOK, SelectForUpdate, RowFree, Goto, Decide
<1>4. \A p \in Requests \ {q} : Untouched(p)
  BY DEF IInv, TypeOK, SelectForUpdate, Goto, Decide, Untouched
<1>5. trip[t] = NoRow => lock[t] = NoRequest
  BY <1>2 DEF IInv, LockInv
<1>6. lock[t] = NoRequest
  BY <1>3, <1>5
<1>7. \A p \in Requests \ {q} : RequestInv(p)'
  <2>1. \A p \in Requests : lock[call[p].trip] = p => lock'[call[p].trip] = p
    BY <1>3, <1>6, NoneAssumption DEF IInv, TypeOK
  <2> QED
    BY <1>3, <1>4, <2>1, RequestFrame DEF IInv
<1>8. /\ refusal = "none" =>
           trip[t] = [status |-> IF call[q].op = "publish" THEN "draft" ELSE "published",
                      driver |-> call[q].client]
      /\ refusal # "none" => refusal \in {"204", "403", "404", "409"}
      /\ refusal = "204" => trip[t].status = "published" /\ trip[t].driver = call[q].client
  BY <1>2, RefusalMeaning DEF IInv, TypeOK, TripInv
<1>9. refusal = "none" => trip[t] # NoRow
  BY <1>8 DEF NoRow
<1> HIDE DEF refusal
<1>10. RequestInv(q)'
  <2>1. ControlInv(q)'
    BY <1>2, <1>3 DEF ControlInv, TxSteps, Writes
  <2>2. TxInv(q)'
    <3>1. refusal = "none" => lock'[t] = q
      BY <1>2, <1>3, <1>9 DEF IInv, TypeOK
    <3> QED
      BY <1>2, <1>3, <1>8, <3>1 DEF TxInv, AllWritten, NoWrite, Writes
  <2>3. EffectInv(q)' /\ AnswerInv(q)'
    BY <1>2, <1>3, <1>8 DEF EffectInv, AnswerInv
  <2> QED
    BY <2>1, <2>2, <2>3 DEF RequestInv
<1>11. ASSUME NEW u \in Trips PROVE LockInv(u)'
  <2>1. CASE u = t /\ trip[t] # NoRow
    <3>1. lock'[u] = q
      BY <1>2, <1>3, <2>1 DEF IInv, TypeOK
    <3> QED
      BY <1>2, <1>3, <2>1, <3>1 DEF LockInv
  <2>2. CASE ~(u = t /\ trip[t] # NoRow)
    <3>1. lock'[u] = lock[u] /\ lock[u] # q
      BY <1>2, <1>3, <1>6, <2>2, NoneAssumption DEF IInv, TypeOK, LockInv
    <3> QED
      BY <1>3, <1>4, <3>1, LockFrame DEF IInv, TypeOK, LockInv, Untouched
  <2> QED
    BY <2>1, <2>2
<1>12. ASSUME NEW u \in Trips PROVE TripInv(u)'
  BY <1>3, TripFrame DEF IInv
<1>13. FreshIds'
  BY <1>3 DEF IInv, FreshIds
<1> QED
  BY <1>1, <1>7, <1>10, <1>11, <1>12, <1>13 DEF IInv

\* The UPDATE writes the row that was read, one status further.
LEMMA InvUpdateTrip ==
  ASSUME IInv, NEW q \in Requests, UpdateTrip(q)
  PROVE  IInv'
<1> DEFINE c == call[q]
           t == call[q].trip
<1>1. TypeOK'
  BY TypeWriting DEF IInv, RequestInv, ControlInv, UpdateTrip
<1>2. \A p \in Requests \ {q} : Untouched(p)
  BY DEF IInv, TypeOK, UpdateTrip, Goto, Untouched
<1>3. /\ pc[q] = "update" /\ session[q] = "open" /\ reply[q] = "none" /\ ~applied[q]
      /\ c \in Call /\ Writes(c.op) /\ t \in Trips /\ verdict[q] = "allowed"
      /\ write[q] = NoWrite /\ lock[t] = q
      /\ seen[q] = [status |-> IF c.op = "publish" THEN "draft" ELSE "published",
                    driver |-> c.client]
      /\ pc'[q] = StepAfterUpdate(c.op)
      /\ UNCHANGED <<trip, outbox, lock, session, call, reply, verdict, seen, applied>>
  <2>1. ControlInv(q) /\ TxInv(q) /\ TypeOK
    BY DEF IInv, RequestInv
  <2>2. /\ pc[q] = "update" /\ pc'[q] = StepAfterUpdate(c.op)
        /\ UNCHANGED <<trip, outbox, lock, session, call, reply, verdict, seen, applied>>
    BY <2>1 DEF TypeOK, UpdateTrip, Goto
  <2>3. /\ session[q] = "open" /\ reply[q] = "none" /\ ~applied[q]
        /\ c \in Call /\ Writes(c.op) /\ verdict[q] = "allowed"
    BY <2>1, <2>2 DEF ControlInv, TxSteps
  <2>4. /\ write[q] = NoWrite /\ lock[t] = q
        /\ seen[q] = [status |-> IF c.op = "publish" THEN "draft" ELSE "published",
                      driver |-> c.client]
    BY <2>1, <2>2, <2>3 DEF TxInv
  <2> QED
    BY <2>2, <2>3, <2>4 DEF Call
<1>4. seen[q] = trip[t]
  BY <1>3, NoneAssumption DEF IInv, LockInv
<1>5. /\ write'[q].row = Written(q)
      /\ write'[q].steps = <<[from |-> seen[q].status, to |-> NewStatus(c.op)]>>
      /\ write'[q].event = NoEvent
  <2>1. seen[q].status # NewStatus(c.op)
    BY <1>3 DEF NewStatus, Writes
  <2>2. /\ write'[q].row = Written(q)
        /\ write'[q].steps = HistoryStep(trip[t].status, NewStatus(c.op))
        /\ write'[q].event = write[q].event
    BY DEF IInv, TypeOK, UpdateTrip
  <2> QED
    BY <1>3, <1>4, <2>1, <2>2 DEF HistoryStep, NoWrite
<1>6. pc'[q] = IF c.op = "publish" THEN "insertEvent" ELSE "commit"
  BY <1>3 DEF StepAfterUpdate
<1>7. ControlInv(q)'
  BY <1>3, <1>6 DEF ControlInv, TxSteps, Writes
<1>8. TxInv(q)'
  <2>1. Written(q)' = Written(q)
    BY <1>3 DEF Written
  <2> QED
    BY <1>3, <1>5, <1>6, <2>1 DEF TxInv, AllWritten, Writes
<1>9. EffectInv(q)' /\ AnswerInv(q)'
  BY <1>3 DEF EffectInv, AnswerInv
<1> QED
  BY <1>1, <1>2, <1>3, <1>7, <1>8, <1>9, LocalStep DEF RequestInv, UpdateTrip

\* The event is written in the transaction that publishes the trip.
LEMMA InvInsertEvent ==
  ASSUME IInv, NEW q \in Requests, InsertEvent(q)
  PROVE  IInv'
<1> DEFINE c == call[q]
           t == call[q].trip
<1>1. \A p \in Requests \ {q} : Untouched(p)
  BY DEF IInv, TypeOK, InsertEvent, Goto, Untouched
<1>2. /\ pc[q] = "insertEvent" /\ session[q] = "open" /\ reply[q] = "none" /\ ~applied[q]
      /\ c \in Call /\ c.op = "publish" /\ t \in Trips /\ verdict[q] = "allowed"
      /\ lock[t] = q
      /\ seen[q] = [status |-> "draft", driver |-> c.client]
      /\ write[q].row = Written(q)
      /\ write[q].steps = <<[from |-> seen[q].status, to |-> NewStatus(c.op)]>>
      /\ write[q].event = NoEvent
      /\ pc'[q] = "commit"
      /\ UNCHANGED <<trip, outbox, lock, session, call, reply, verdict, seen, applied>>
  <2>1. ControlInv(q) /\ TxInv(q) /\ TypeOK
    BY DEF IInv, RequestInv
  <2>2. /\ pc[q] = "insertEvent" /\ pc'[q] = "commit"
        /\ UNCHANGED <<trip, outbox, lock, session, call, reply, verdict, seen, applied>>
    BY <2>1 DEF TypeOK, InsertEvent, Goto
  <2>3. /\ session[q] = "open" /\ reply[q] = "none" /\ ~applied[q]
        /\ c \in Call /\ c.op = "publish" /\ Writes(c.op) /\ verdict[q] = "allowed"
    BY <2>1, <2>2 DEF ControlInv, TxSteps, Writes
  <2>4. /\ lock[t] = q
        /\ seen[q] = [status |-> "draft", driver |-> c.client]
        /\ write[q].row = Written(q)
        /\ write[q].steps = <<[from |-> seen[q].status, to |-> NewStatus(c.op)]>>
        /\ write[q].event = NoEvent
    BY <2>1, <2>2, <2>3 DEF TxInv
  <2> QED
    BY <2>2, <2>3, <2>4 DEF Call
<1>3. TypeOK'
  <2>1. seen[q].driver \in Clients
    BY <1>2 DEF Call
  <2> QED
    BY <1>2, <2>1, TypeWriting DEF IInv
<1>4. outbox[t] = NoEvent
  <2>1. trip[t] = seen[q]
    BY <1>2, NoneAssumption DEF IInv, LockInv
  <2> QED
    <3>1. TripInv(t)
      BY <1>2 DEF IInv
    <3> QED
      BY <1>2, <2>1, <3>1 DEF TripInv
<1>5. /\ UNCHANGED <<write[q].row, write[q].steps>>
      /\ write'[q].event = [driver |-> c.client, company |-> c.client, cause |-> q]
  BY <1>2, <1>4 DEF IInv, TypeOK, InsertEvent, NewEvent
<1>6. ControlInv(q)'
  BY <1>2 DEF ControlInv, TxSteps, Writes
<1>7. TxInv(q)'
  <2>1. Written(q)' = Written(q)
    BY <1>2 DEF Written
  <2> QED
    BY <1>2, <1>5, <2>1 DEF TxInv, AllWritten, Writes
<1>8. EffectInv(q)' /\ AnswerInv(q)'
  BY <1>2 DEF EffectInv, AnswerInv
<1> QED
  BY <1>3, <1>1, <1>2, <1>6, <1>7, <1>8, LocalStep DEF RequestInv, InsertEvent

\* A created trip is a draft of the caller.
LEMMA InvInsertTrip ==
  ASSUME IInv, NEW q \in Requests, InsertTrip(q)
  PROVE  IInv'
<1>1. TypeOK'
  BY TypeWriting DEF IInv, RequestInv, ControlInv, InsertTrip
<1>2. \A p \in Requests \ {q} : Untouched(p)
  BY DEF IInv, TypeOK, InsertTrip, Goto, Untouched
<1>3. /\ pc[q] = "insertTrip" /\ session[q] = "open" /\ reply[q] = "none" /\ ~applied[q]
      /\ call[q] \in Call /\ call[q].op = "create" /\ write[q] = NoWrite
      /\ trip[call[q].trip] = NoRow
      /\ write'[q].row = [status |-> "draft", driver |-> call[q].client]
      /\ write'[q].event = NoEvent
      /\ pc'[q] = "insertHistory"
      /\ UNCHANGED <<trip, outbox, lock, session, call, reply, verdict, seen, applied>>
  <2>1. ControlInv(q) /\ TxInv(q) /\ TypeOK
    BY DEF IInv, RequestInv
  <2>2. /\ pc[q] = "insertTrip" /\ pc'[q] = "insertHistory"
        /\ write'[q].row = [status |-> "draft", driver |-> call[q].client]
        /\ write'[q].event = write[q].event
        /\ UNCHANGED <<trip, outbox, lock, session, call, reply, verdict, seen, applied>>
    BY <2>1 DEF TypeOK, InsertTrip, Goto, NewStatus
  <2>3. /\ session[q] = "open" /\ reply[q] = "none" /\ ~applied[q]
        /\ call[q] \in Call /\ call[q].op = "create"
    BY <2>1, <2>2 DEF ControlInv, TxSteps
  <2>4. write[q] = NoWrite /\ trip[call[q].trip] = NoRow
    BY <2>1, <2>2, <2>3 DEF TxInv
  <2> QED
    BY <2>2, <2>3, <2>4 DEF NoWrite
<1>4. ControlInv(q)'
  BY <1>3 DEF ControlInv, TxSteps, Writes
<1>5. TxInv(q)'
  BY <1>3 DEF TxInv, AllWritten, Writes
<1>6. EffectInv(q)' /\ AnswerInv(q)'
  BY <1>3 DEF EffectInv, AnswerInv
<1> QED
  BY <1>1, <1>2, <1>3, <1>4, <1>5, <1>6, LocalStep DEF RequestInv, InsertTrip

\* Its first history row leads to that draft.
LEMMA InvInsertHistory ==
  ASSUME IInv, NEW q \in Requests, InsertHistory(q)
  PROVE  IInv'
<1>1. TypeOK'
  BY TypeWriting DEF IInv, RequestInv, ControlInv, InsertHistory
<1>2. \A p \in Requests \ {q} : Untouched(p)
  BY DEF IInv, TypeOK, InsertHistory, Goto, Untouched
<1>3. /\ pc[q] = "insertHistory" /\ session[q] = "open" /\ reply[q] = "none" /\ ~applied[q]
      /\ call[q] \in Call /\ call[q].op = "create"
      /\ trip[call[q].trip] = NoRow
      /\ write[q].row = [status |-> "draft", driver |-> call[q].client]
      /\ write[q].event = NoEvent
      /\ pc'[q] = "commit"
      /\ UNCHANGED <<trip, outbox, lock, session, call, reply, verdict, seen, applied>>
  <2>1. ControlInv(q) /\ TxInv(q) /\ TypeOK
    BY DEF IInv, RequestInv
  <2>2. /\ pc[q] = "insertHistory" /\ pc'[q] = "commit"
        /\ UNCHANGED <<trip, outbox, lock, session, call, reply, verdict, seen, applied>>
    BY <2>1 DEF TypeOK, InsertHistory, Goto
  <2>3. /\ session[q] = "open" /\ reply[q] = "none" /\ ~applied[q]
        /\ call[q] \in Call /\ call[q].op = "create"
    BY <2>1, <2>2 DEF ControlInv, TxSteps
  <2>4. /\ trip[call[q].trip] = NoRow
        /\ write[q].row = [status |-> "draft", driver |-> call[q].client]
        /\ write[q].event = NoEvent
    BY <2>1, <2>2, <2>3 DEF TxInv
  <2> QED
    BY <2>2, <2>3, <2>4
<1>4. /\ UNCHANGED <<write[q].row, write[q].event>>
      /\ write'[q].steps = <<[from |-> "absent", to |-> "draft"]>>
  BY <1>3 DEF IInv, TypeOK, InsertHistory, HistoryStep
<1>5. ControlInv(q)'
  BY <1>3 DEF ControlInv, TxSteps, Writes
<1>6. TxInv(q)'
  BY <1>3, <1>4 DEF TxInv, AllWritten, Writes
<1>7. EffectInv(q)' /\ AnswerInv(q)'
  BY <1>3 DEF EffectInv, AnswerInv
<1> QED
  BY <1>1, <1>2, <1>3, <1>5, <1>6, <1>7, LocalStep DEF RequestInv, InsertHistory

\* A lost COMMIT leaves complete writes behind, and their locks.
LEMMA InvCommitLost ==
  ASSUME IInv, NEW q \in Requests, CommitLost(q)
  PROVE  IInv'
<1>1. TypeOK'
  BY TypeEnding DEF IInv, RequestInv, ControlInv
<1>2. \A p \in Requests \ {q} : Untouched(p)
  BY DEF IInv, TypeOK, CommitLost, Goto, Decide, Untouched
<1>3. /\ pc[q] = "commit" /\ pc'[q] = "done" /\ session[q] = "open"
      /\ session'[q] = "committing" /\ reply'[q] = "500" /\ ~applied[q]
      /\ call[q] \in Call /\ call[q].op # "get"
      /\ UNCHANGED <<trip, outbox, lock, write, call, verdict, seen, applied>>
  BY DEF IInv, TypeOK, CommitLost, Goto, Decide, ReplyToLostCommit, RequestInv,
         ControlInv, TxSteps
<1>4. ControlInv(q)'
  BY <1>3 DEF IInv, RequestInv, ControlInv, TxSteps, Writes
<1>5. TxInv(q)'
  BY <1>3 DEF IInv, RequestInv, TxInv, AllWritten, Written, Writes
<1>6. EffectInv(q)' /\ AnswerInv(q)'
  BY <1>3 DEF EffectInv, AnswerInv
<1> QED
  BY <1>1, <1>2, <1>3, <1>4, <1>5, <1>6, LocalStep DEF RequestInv, CommitLost

----------------------------------------------------------------------------
(* The invariant and the end of a transaction *)

\* A transaction ends without a trace.
LEMMA InvAbort ==
  ASSUME IInv, NEW q \in Requests, TypeOK',
         pc[q] \in {"rollback", "done"}, session[q] # "none",
         Abort(q), Close(q),
         pc' = [pc EXCEPT ![q] = "done"],
         UNCHANGED <<call, verdict, seen, reply>>
  PROVE  IInv'
<1>1. TypeOK /\ ControlInv(q) /\ TxInv(q) /\ EffectInv(q) /\ AnswerInv(q)
  BY DEF IInv, RequestInv
<1>2. /\ pc'[q] = "done" /\ session'[q] = "none" /\ write'[q] = NoWrite
      /\ UNCHANGED <<trip, history, outbox, applied, call, verdict, seen, reply>>
      /\ lock' = Released(q)
  BY <1>1 DEF Abort, Close, TypeOK
<1>3. ~applied[q]
  BY <1>1 DEF ControlInv
<1>4. \A p \in Requests \ {q} : Untouched(p)
  BY <1>1 DEF Abort, Close, TypeOK, Untouched
<1>5. ASSUME NEW t \in Trips
      PROVE  lock'[t] = IF lock[t] = q THEN NoRequest ELSE lock[t]
  BY <1>2 DEF Released
<1>6. \A p \in Requests \ {q} : RequestInv(p)'
  <2> SUFFICES ASSUME NEW p \in Requests \ {q} PROVE RequestInv(p)'
    OBVIOUS
  <2>1. CASE call[p] \in Call
    <3>1. lock[call[p].trip] = p => lock'[call[p].trip] = p
      BY <1>5, <2>1 DEF Call
    <3> QED
      BY <1>2, <1>4, <3>1, RequestFrame DEF IInv
  <2>2. CASE call[p] = NoCall
    <3>1. RequestInv(p)
      BY DEF IInv
    <3> QED
      BY <1>2, <1>4, <2>2, <3>1 DEF NoCall, Untouched, RequestInv, ControlInv, TxInv,
         EffectInv, AnswerInv, AllWritten, Written, Writes
  <2> QED
    BY <1>1, <2>1, <2>2 DEF TypeOK
<1>7. RequestInv(q)'
  <2>1. ControlInv(q)'
    BY <1>1, <1>2, <1>3 DEF ControlInv, TxSteps, Writes
  <2>2. TxInv(q)'
    BY <1>1, <1>2, <1>3 DEF TxInv, AllWritten, NoWrite
  <2>3. EffectInv(q)' /\ AnswerInv(q)'
    BY <1>1, <1>2, <1>3 DEF EffectInv, AnswerInv
  <2> QED
    BY <2>1, <2>2, <2>3 DEF RequestInv
<1>8. ASSUME NEW t \in Trips PROVE LockInv(t)'
  <2>1. CASE lock[t] = q
    BY <1>5, <2>1 DEF LockInv
  <2>2. CASE lock[t] # q
    <3>1. lock'[t] = lock[t]
      BY <1>5, <2>2
    <3> QED
      BY <1>1, <1>2, <1>4, <2>2, <3>1, LockFrame DEF IInv, LockInv, TypeOK, Untouched
  <2> QED
    BY <2>1, <2>2
<1>9. ASSUME NEW t \in Trips PROVE TripInv(t)'
  BY <1>2, TripFrame DEF IInv
<1>10. FreshIds'
  BY <1>2 DEF IInv, FreshIds
<1> QED
  BY <1>6, <1>7, <1>8, <1>9, <1>10 DEF IInv

\* What a commit does to the trip of its request, by operation.
LEMMA ApplyStep ==
  ASSUME IInv, NEW q \in Requests, AllWritten(q), Apply(q)
  PROVE  LET c == call[q]
             t == call[q].trip
         IN /\ c \in Call /\ t \in Trips
            /\ \A u \in Trips \ {t} : UNCHANGED <<trip[u], history[u], outbox[u]>>
            /\ \/ /\ c.op = "create"
                  /\ trip[t] = NoRow /\ lock[t] = NoRequest
                  /\ trip'[t] = [status |-> "draft", driver |-> c.client]
                  /\ outbox[t] = NoEvent /\ outbox'[t] = NoEvent
                  /\ history'[t] = Path("draft")
               \/ /\ c.op = "publish"
                  /\ trip[t] = [status |-> "draft", driver |-> c.client] /\ lock[t] = q
                  /\ trip'[t] = [status |-> "published", driver |-> c.client]
                  /\ outbox[t] = NoEvent
                  /\ outbox'[t] = [driver |-> c.client, company |-> c.client, cause |-> q]
                  /\ history'[t] = Path("published")
               \/ /\ c.op = "start"
                  /\ trip[t] = [status |-> "published", driver |-> c.client] /\ lock[t] = q
                  /\ trip'[t] = [status |-> "started", driver |-> c.client]
                  /\ outbox[t] # NoEvent /\ outbox'[t] = outbox[t]
                  /\ history'[t] = Path("started")
<1> DEFINE c == call[q]
           t == call[q].trip
           draft == [from |-> "absent", to |-> "draft"]
           published == [from |-> "draft", to |-> "published"]
           started == [from |-> "published", to |-> "started"]
<1>1. TypeOK /\ ControlInv(q) /\ TxInv(q)
  BY DEF IInv, RequestInv
<1>2. c \in Call /\ t \in Trips /\ c.op \in {"create", "publish", "start"} /\ ~applied[q]
      /\ session[q] # "none"
  <2>1. session[q] # "none" /\ pc[q] # "idle"
    BY <1>1 DEF ControlInv, AllWritten, TxSteps
  <2> QED
    BY <1>1, <2>1 DEF ControlInv, Call
<1>3. LockInv(t) /\ TripInv(t)
  BY <1>2 DEF IInv
<1>4. \A u \in Trips \ {t} : UNCHANGED <<trip[u], history[u], outbox[u]>>
  BY <1>1 DEF Apply, TypeOK
<1>5. /\ trip'[t] = write[q].row
      /\ history'[t] = history[t] \o write[q].steps
      /\ outbox'[t] = IF write[q].event = NoEvent THEN outbox[t] ELSE write[q].event
  BY <1>1, <1>2 DEF Apply, TypeOK
<1>6. draft \in Step /\ published \in Step /\ started \in Step
  BY DEF Step, Statuses
<1>7. /\ Path("absent") = <<>>
      /\ Path("draft") = <<draft>>
      /\ Path("published") = <<draft, published>>
      /\ Path("started") = <<draft, published, started>>
  BY DEF Path
<1>8. CASE c.op = "create"
  <2>1. /\ trip[t] = NoRow
        /\ write[q].row = [status |-> "draft", driver |-> c.client]
        /\ write[q].steps = <<draft>>
        /\ write[q].event = NoEvent
    BY <1>1, <1>2, <1>8 DEF TxInv, AllWritten
  <2>2. lock[t] = NoRequest /\ outbox[t] = NoEvent /\ history[t] = <<>>
    BY <1>3, <1>7, <2>1 DEF LockInv, TripInv, NoRow
  <2>3. <<>> \o <<draft>> = <<draft>>
    BY <1>6, SeqOne
  <2> QED
    BY <1>2, <1>4, <1>5, <1>7, <1>8, <2>1, <2>2, <2>3
<1>9. CASE Writes(c.op)
  <2>1. /\ lock[t] = q
        /\ seen[q] = [status |-> IF c.op = "publish" THEN "draft" ELSE "published",
                      driver |-> c.client]
        /\ write[q].row = Written(q)
        /\ write[q].steps = <<[from |-> seen[q].status, to |-> NewStatus(c.op)]>>
    <3>1. pc[q] \in {"insertEvent", "commit"} \/ session[q] = "committing"
      BY DEF AllWritten
    <3>2. /\ write[q].row = Written(q)
          /\ write[q].steps = <<[from |-> seen[q].status, to |-> NewStatus(c.op)]>>
      BY <1>1, <1>9, <3>1 DEF TxInv
    <3>3. write[q].row # NoRow
      <4>1. seen[q] \in [status : Statuses, driver : Clients \cup {NoClient}]
        BY <1>1 DEF TypeOK, Row
      <4>2. Written(q).status = NewStatus(c.op)
        BY <4>1 DEF Written
      <4>3. Written(q).status # "absent"
        BY <4>2, Values
      <4> QED
        BY <3>2, <4>3 DEF NoRow
    <3> QED
      BY <1>1, <1>2, <1>9, <3>2, <3>3 DEF TxInv
  <2>2. seen[q] = trip[t]
    BY <1>3, <2>1, NoneAssumption DEF LockInv
  <2>3. CASE c.op = "publish"
    <3>1. write[q].event = [driver |-> c.client, company |-> c.client, cause |-> q]
      BY <1>1, <2>3 DEF TxInv
    <3>2. write[q].event # NoEvent
      BY <1>2, <3>1, NoneAssumption DEF NoEvent
    <3>3. /\ write[q].row = [status |-> "published", driver |-> c.client]
          /\ write[q].steps = <<published>>
      BY <2>1, <2>3 DEF Written, NewStatus
    <3>4. outbox[t] = NoEvent /\ history[t] = <<draft>>
      <4>1. trip[t].status = "draft"
        BY <2>1, <2>2, <2>3
      <4> QED
        BY <1>3, <1>7, <4>1 DEF TripInv
    <3>5. <<draft>> \o <<published>> = <<draft, published>>
      BY <1>6, SeqTwo
    <3>6. trip[t] = [status |-> "draft", driver |-> c.client]
      BY <2>1, <2>2, <2>3
    <3> QED
      BY <1>2, <1>4, <1>5, <1>7, <2>1, <2>3, <3>1, <3>2, <3>3, <3>4, <3>5, <3>6
  <2>4. CASE c.op = "start"
    <3>1. write[q].event = NoEvent
      BY <1>1, <2>4 DEF TxInv
    <3>2. /\ write[q].row = [status |-> "started", driver |-> c.client]
          /\ write[q].steps = <<started>>
      BY <2>1, <2>4 DEF Written, NewStatus
    <3>3. trip[t] = [status |-> "published", driver |-> c.client]
      BY <2>1, <2>2, <2>4
    <3>4. outbox[t] # NoEvent /\ history[t] = <<draft, published>>
      BY <1>3, <1>7, <3>3 DEF TripInv
    <3>5. <<draft, published>> \o <<started>> = <<draft, published, started>>
      BY <1>6, SeqThree
    <3> QED
      BY <1>2, <1>4, <1>5, <1>7, <2>1, <2>4, <3>1, <3>2, <3>3, <3>4, <3>5
  <2> QED
    BY <1>9, <2>3, <2>4 DEF Writes
<1> QED
  BY <1>2, <1>8, <1>9 DEF Writes

\* A transaction takes effect.
LEMMA InvApply ==
  ASSUME IInv, NEW q \in Requests, TypeOK', AllWritten(q),
         Apply(q), Close(q),
         pc' = [pc EXCEPT ![q] = "done"],
         \/ reply' = [reply EXCEPT ![q] = SuccessReply(call[q].op)]
         \/ UNCHANGED reply /\ session[q] = "committing",
         UNCHANGED <<call, verdict, seen>>
  PROVE  IInv'
<1> DEFINE c == call[q]
           t == call[q].trip
<1>1. TypeOK /\ RequestInv(q) /\ ControlInv(q) /\ TxInv(q) /\ EffectInv(q) /\ AnswerInv(q)
  BY DEF IInv, RequestInv
<1>2. /\ c \in Call /\ t \in Trips
      /\ \A u \in Trips \ {t} : UNCHANGED <<trip[u], history[u], outbox[u]>>
  BY ApplyStep
<1>3. \/ /\ c.op = "create"
         /\ trip[t] = NoRow /\ lock[t] = NoRequest
         /\ trip'[t] = [status |-> "draft", driver |-> c.client]
         /\ outbox[t] = NoEvent /\ outbox'[t] = NoEvent
         /\ history'[t] = Path("draft")
      \/ /\ c.op = "publish"
         /\ trip[t] = [status |-> "draft", driver |-> c.client] /\ lock[t] = q
         /\ trip'[t] = [status |-> "published", driver |-> c.client]
         /\ outbox[t] = NoEvent
         /\ outbox'[t] = [driver |-> c.client, company |-> c.client, cause |-> q]
         /\ history'[t] = Path("published")
      \/ /\ c.op = "start"
         /\ trip[t] = [status |-> "published", driver |-> c.client] /\ lock[t] = q
         /\ trip'[t] = [status |-> "started", driver |-> c.client]
         /\ outbox[t] # NoEvent /\ outbox'[t] = outbox[t]
         /\ history'[t] = Path("started")
  BY ApplyStep
<1>4. /\ pc'[q] = "done" /\ session'[q] = "none" /\ write'[q] = NoWrite
      /\ UNCHANGED <<call, verdict, seen>>
      /\ applied'[q] /\ lock' = Released(q)
  BY <1>1 DEF Apply, Close, TypeOK
<1>5. \A p \in Requests \ {q} : Untouched(p)
  BY <1>1 DEF Apply, Close, TypeOK, Untouched
<1>6. ASSUME NEW u \in Trips
      PROVE  lock'[u] = IF lock[u] = q THEN NoRequest ELSE lock[u]
  BY <1>4 DEF Released
<1>7. c.client \in Clients /\ c.client # NoClient
  BY <1>2, NoneAssumption DEF Call
<1>8. ASSUME NEW p \in Requests \ {q} PROVE RequestInv(p)'
  <2>1. RequestInv(p) /\ Untouched(p) /\ p # q
    BY <1>5 DEF IInv
  <2>2. CASE call[p].trip \in Trips \ {t}
    <3>1. lock[call[p].trip] = p => lock'[call[p].trip] = p
      BY <1>6, <2>1, <2>2
    <3> QED
      BY <1>2, <2>1, <2>2, <3>1, RequestFrame
  <2>3. CASE call[p] = NoCall
    <3>1. pc[p] = "idle" /\ reply[p] = "none" /\ session[p] = "none" /\ ~applied[p]
          /\ write[p] = NoWrite
      BY <2>1, <2>3 DEF NoCall, Call, RequestInv, ControlInv, TxInv
    <3>2. UNCHANGED <<pc[p], reply[p], session[p], applied[p], write[p], call[p], verdict[p]>>
      BY <2>1 DEF Untouched
    <3>3. ControlInv(p)'
      BY <2>1, <3>2 DEF RequestInv, ControlInv
    <3>4. TxInv(p)' /\ EffectInv(p)' /\ AnswerInv(p)'
      BY <2>3, <3>1, <3>2 DEF TxInv, EffectInv, AnswerInv, AllWritten, Writes, NoCall, NoWrite
    <3> QED
      BY <3>3, <3>4 DEF RequestInv
  <2>4. CASE call[p].trip = t
    <3>1. /\ UNCHANGED <<pc[p], session[p], write[p], call[p], verdict[p], seen[p],
                         reply[p], applied[p]>>
          /\ ControlInv(p) /\ TxInv(p) /\ EffectInv(p) /\ AnswerInv(p)
      BY <2>1 DEF Untouched, RequestInv
    <3>2. lock[t] = p => lock'[t] = p
      BY <1>2, <1>6, <2>1
    <3>3. ControlInv(p)'
      BY <3>1 DEF ControlInv
    <3>4. ~(call[p].op = "create" /\ ~applied[p])
      <4> SUFFICES ASSUME call[p].op = "create", ~applied[p] PROVE FALSE
        OBVIOUS
      <4>1. trip[t] = NoRow
        BY <2>4, <3>1 DEF TxInv
      <4>2. c.op = "create"
        BY <1>3, <4>1 DEF NoRow
      <4> QED
        BY <2>1, <2>4, <4>2 DEF IInv, FreshIds
    <3>5. TxInv(p)'
      BY <2>4, <3>1, <3>2, <3>4 DEF TxInv, AllWritten, Written
    <3>6. EffectInv(p)'
      <4> SUFFICES ASSUME applied[p]
                   PROVE  /\ call[p].op = "create" => trip'[t] # NoRow
                          /\ call[p].op = "publish" => outbox'[t] # NoEvent /\ outbox'[t].cause = p
                          /\ call[p].op = "start" => trip'[t].status = "started"
        BY <2>4, <3>1 DEF EffectInv
      <4>1. /\ call[p].op = "create" => trip[t] # NoRow
            /\ call[p].op = "publish" => outbox[t] # NoEvent /\ outbox[t].cause = p
            /\ call[p].op = "start" => trip[t].status = "started"
        BY <2>4, <3>1 DEF EffectInv
      <4> QED
        BY <1>3, <1>7, <4>1 DEF NoRow
    <3>7. AnswerInv(p)'
      <4>1. reply[p] = "204" => /\ trip'[t].status \in {"published", "started"}
                                /\ trip'[t].driver = call[p].client
        <5>1. reply[p] = "204" => /\ trip[t].status \in {"published", "started"}
                                  /\ trip[t].driver = call[p].client
          BY <2>4, <3>1 DEF AnswerInv
        <5> QED
          BY <1>3, <5>1 DEF NoRow
      <4> QED
        BY <2>4, <3>1, <4>1 DEF AnswerInv
    <3> QED
      BY <3>3, <3>5, <3>6, <3>7 DEF RequestInv
  <2> QED
    BY <1>1, <2>2, <2>3, <2>4 DEF TypeOK, Call
<1>9. RequestInv(q)'
  <2>1. pc[q] # "idle" /\ (Writes(c.op) => verdict[q] = "allowed") /\ c.op # "get"
    BY <1>1, <1>3 DEF ControlInv, AllWritten, TxSteps
  <2>2. ControlInv(q)'
    <3>1. reply'[q] # "none"
      <4>1. SuccessReply(call[q].op) # "none"
        BY DEF SuccessReply
      <4>2. session[q] = "committing" => reply[q] # "none"
        BY <1>1 DEF ControlInv
      <4> QED
        BY <1>1, <4>1, <4>2 DEF TypeOK
    <3> QED
      BY <1>2, <1>4, <2>1, <3>1 DEF ControlInv, TxSteps, Writes
  <2>3. TxInv(q)'
    BY <1>4 DEF TxInv, AllWritten, NoWrite
  <2>4. EffectInv(q)'
    <3>1. [status |-> "draft", driver |-> c.client] # NoRow
      BY <1>7 DEF NoRow
    <3>2. [driver |-> c.client, company |-> c.client, cause |-> q] # NoEvent
      BY <1>7 DEF NoEvent
    <3> QED
      BY <1>3, <1>4, <3>1, <3>2 DEF EffectInv
  <2>5. AnswerInv(q)'
    <3>1. reply'[q] \in {"200", "201"} \/ (reply'[q] = reply[q] /\ session[q] = "committing")
      BY <1>1 DEF TypeOK, SuccessReply
    <3>2. reply'[q] \notin {"204", "400", "403", "404", "409", "502", "503"}
      BY <1>1, <3>1 DEF AnswerInv
    <3> QED
      BY <1>4, <3>2 DEF AnswerInv
  <2> QED
    BY <2>2, <2>3, <2>4, <2>5 DEF RequestInv
<1>10. ASSUME NEW u \in Trips PROVE LockInv(u)'
  <2>1. CASE lock[u] = q
    BY <1>6, <2>1 DEF LockInv
  <2>2. CASE lock[u] # q /\ u # t
    <3>1. lock'[u] = lock[u]
      BY <1>6, <2>2
    <3> QED
      BY <1>1, <1>2, <1>4, <1>5, <2>2, <3>1, LockFrame DEF IInv, LockInv, TypeOK, Untouched
  <2>3. CASE lock[u] # q /\ u = t
    <3>1. lock[u] = NoRequest
      BY <1>3, <2>3
    <3> QED
      BY <1>6, <2>3, <3>1 DEF LockInv
  <2> QED
    BY <2>1, <2>2, <2>3
<1>11. ASSUME NEW u \in Trips PROVE TripInv(u)'
  <2>1. TripInv(u)
    BY DEF IInv
  <2>2. CASE u # t
    <3>1. \A p \in Requests : applied[p] => applied'[p]
      BY <1>1 DEF Apply, TypeOK
    <3>2. outbox[u] # NoEvent => outbox[u].cause \in Requests
      BY <1>1 DEF TypeOK, Event
    <3> QED
      BY <1>2, <1>4, <2>1, <2>2, <3>1, <3>2, TripFrame
  <2>3. CASE u = t /\ c.op = "create"
    BY <1>3, <1>7, <2>3 DEF TripInv
  <2>4. CASE u = t /\ c.op = "publish"
    <3>1. outbox'[t] # NoEvent
      BY <1>3, <1>7, <2>4 DEF NoEvent
    <3>2. call[q] = [op |-> "publish", trip |-> t, client |-> c.client]
      BY <1>2, <2>4 DEF Call
    <3> QED
      BY <1>3, <1>4, <1>7, <2>4, <3>1, <3>2 DEF TripInv
  <2>5. CASE u = t /\ c.op = "start"
    <3>1. \A p \in Requests : applied[p] => applied'[p]
      BY <1>1 DEF Apply, TypeOK
    <3>2. outbox[t] # NoEvent /\ outbox[t].cause \in Requests
      BY <1>1, <1>2, <1>3, <2>5 DEF TypeOK, Event
    <3> QED
      BY <1>3, <1>4, <1>7, <2>1, <2>5, <3>1, <3>2 DEF TripInv
  <2> QED
    BY <1>3, <2>2, <2>3, <2>4, <2>5
<1>12. FreshIds'
  BY <1>4 DEF IInv, FreshIds
<1> QED
  BY <1>8, <1>9, <1>10, <1>11, <1>12 DEF IInv

\* The four ways a transaction ends keep the invariant.
LEMMA InvEnding ==
  ASSUME IInv, NEW q \in Requests,
         Commit(q) \/ Rollback(q) \/ SessionAborts(q) \/ SessionCommits(q)
  PROVE  IInv'
<1>1. TypeOK' /\ TypeOK /\ ControlInv(q)
  BY TypeEnding DEF IInv, RequestInv, ControlInv
<1>2. CASE Commit(q)
  BY <1>1, <1>2, InvApply DEF Commit, AllWritten, Goto, Decide
<1>3. CASE Rollback(q)
  BY <1>1, <1>3, InvAbort DEF Rollback, Goto, ControlInv, TxSteps
<1>4. CASE SessionAborts(q)
  <2>1. pc' = [pc EXCEPT ![q] = "done"]
    BY <1>1, <1>4 DEF SessionAborts, TypeOK
  <2> QED
    BY <1>1, <1>4, <2>1, InvAbort DEF SessionAborts
<1>5. CASE SessionCommits(q)
  <2>1. pc' = [pc EXCEPT ![q] = "done"]
    BY <1>1, <1>5 DEF SessionCommits, TypeOK
  <2> QED
    BY <1>1, <1>5, <2>1, InvApply DEF SessionCommits, AllWritten
<1> QED
  BY <1>2, <1>3, <1>4, <1>5

\* The end of a process freezes its requests where they are.
LEMMA InvCrash ==
  ASSUME IInv, NEW r \in Replicas, Crash(r)
  PROVE  IInv'
<1>1. TypeOK /\ TypeOK'
  BY TypeCrash DEF IInv
<1>2. UNCHANGED <<trip, history, outbox, lock, write, applied, call, verdict, seen>>
  BY DEF Crash
<1>3. ASSUME NEW p \in Requests PROVE RequestInv(p)'
  <2>1. RequestInv(p) /\ ControlInv(p) /\ TxInv(p) /\ EffectInv(p) /\ AnswerInv(p)
    BY DEF IInv, RequestInv
  <2>2. CASE p \notin InProgress(r)
    <3>1. Untouched(p)
      BY <1>1, <2>2 DEF Crash, Untouched, TypeOK
    <3> QED
      BY <1>2, <2>1, <3>1, RequestFrame
  <2>3. CASE p \in InProgress(r)
    <3>1. /\ pc[p] \notin {"idle", "done"} /\ pc'[p] = "done" /\ reply'[p] = "lost"
          /\ session'[p] = IF pc[p] = "commit" THEN "committing" ELSE session[p]
      BY <2>3 DEF Crash, InProgress
    <3>2. session[p] # "committing" /\ ~applied[p]
      BY <2>1, <3>1 DEF ControlInv
    <3>3. ControlInv(p)'
      <4>1. session'[p] # "none" => session[p] # "none" /\ (pc[p] = "commit" => call[p].op # "get")
        BY <2>1, <3>1 DEF ControlInv, TxSteps
      <4> QED
        BY <1>2, <2>1, <3>1, <3>2, <4>1 DEF ControlInv, TxSteps, Writes
    <3>4. TxInv(p)'
      <4>1. pc[p] = "commit" => session[p] = "open"
        BY <2>1 DEF ControlInv, TxSteps
      <4>2. session'[p] = "committing" <=> pc[p] = "commit"
        BY <3>1, <3>2
      <4> QED
        BY <1>2, <2>1, <3>1, <3>2, <4>1, <4>2 DEF TxInv, AllWritten, Written
    <3>5. EffectInv(p)' /\ AnswerInv(p)'
      BY <1>2, <2>1, <3>1 DEF EffectInv, AnswerInv
    <3> QED
      BY <3>3, <3>4, <3>5 DEF RequestInv
  <2> QED
    BY <2>2, <2>3
<1>4. ASSUME NEW t \in Trips PROVE LockInv(t)'
  <2>1. lock[t] # NoRequest => lock[t] \in Requests /\ session[lock[t]] # "none"
    BY <1>1 DEF IInv, TypeOK, LockInv
  <2>2. lock[t] # NoRequest => session'[lock[t]] # "none"
    BY <2>1 DEF Crash
  <2> QED
    BY <1>2, <2>2, LockFrame DEF IInv
<1>5. ASSUME NEW t \in Trips PROVE TripInv(t)'
  BY <1>2, TripFrame DEF IInv
<1>6. FreshIds'
  BY <1>2 DEF IInv, FreshIds
<1> QED
  BY <1>1, <1>3, <1>4, <1>5, <1>6 DEF IInv

----------------------------------------------------------------------------
(* The inductive invariant, and what follows from it *)

\* The invariant holds initially.
LEMMA InvInit == Init => IInv
<1> SUFFICES ASSUME Init PROVE IInv
  OBVIOUS
<1>1. TypeOK
  BY TypeInit
<1>2. \A q \in Requests :
        /\ pc[q] = "idle" /\ call[q] = NoCall /\ reply[q] = "none" /\ verdict[q] = "none"
        /\ session[q] = "none" /\ ~applied[q] /\ write[q] = NoWrite
  BY DEF Init
<1>3. \A q \in Requests : RequestInv(q)
  BY <1>2 DEF RequestInv, ControlInv, TxInv, EffectInv, AnswerInv, AllWritten, NoCall,
     NoWrite, TxSteps, Writes
<1>4. ASSUME NEW t \in Trips PROVE LockInv(t) /\ TripInv(t)
  <2>1. lock[t] = NoRequest /\ outbox[t] = NoEvent
    BY DEF Init
  <2>2. PICK drivers \in [Trips -> Clients \cup {NoClient}] :
          /\ trip[t] = IF drivers[t] = NoClient THEN NoRow
                       ELSE [status |-> "draft", driver |-> drivers[t]]
          /\ history[t] = IF drivers[t] = NoClient THEN <<>>
                          ELSE <<[from |-> "absent", to |-> "draft"]>>
    BY DEF Init
  <2>3. TripInv(t)
    <3>1. CASE drivers[t] = NoClient
      BY <2>1, <2>2, <3>1 DEF TripInv, NoRow, Path
    <3>2. CASE drivers[t] # NoClient
      BY <2>1, <2>2, <3>2 DEF TripInv, NoRow, Path
    <3> QED
      BY <3>1, <3>2
  <2> QED
    BY <2>1, <2>3 DEF LockInv
<1>5. FreshIds
  BY <1>2 DEF FreshIds, NoCall
<1> QED
  BY <1>1, <1>3, <1>4, <1>5 DEF IInv

\* It does not depend on anything but the variables.
LEMMA InvStutter == IInv /\ UNCHANGED vars => IInv'
<1> SUFFICES ASSUME IInv, UNCHANGED vars PROVE IInv'
  OBVIOUS
<1>1. TypeOK'
  BY DEF IInv, TypeOK, vars
<1>2. \A q \in Requests : RequestInv(q)'
  BY RequestFrame DEF IInv, vars, Untouched
<1>3. \A t \in Trips : LockInv(t)' /\ TripInv(t)'
  BY DEF IInv, vars, LockInv, TripInv
<1>4. FreshIds'
  BY DEF IInv, vars, FreshIds
<1> QED
  BY <1>1, <1>2, <1>3, <1>4 DEF IInv

\* Every step keeps the inductive invariant.
THEOREM InvNext == IInv /\ [Next]_vars => IInv'
<1> SUFFICES ASSUME IInv, [Next]_vars PROVE IInv'
  OBVIOUS
<1>1. ASSUME NEW q \in Requests, Receive(q) PROVE IInv'
  BY <1>1, InvReceive
<1>2. ASSUME NEW q \in Requests, Proceed(q) PROVE IInv'
  BY <1>2, InvValidate, InvCheckContract, InvBegin, InvReadTrip, InvSelectForUpdate,
     InvUpdateTrip, InvInsertEvent, InvInsertTrip, InvInsertHistory, InvEnding DEF Proceed
<1>3. ASSUME NEW q \in Requests, Fail(q) PROVE IInv'
  BY <1>3, InvBeginFails, InvStatementFails, InvCommitLost, InvRollbackLost DEF Fail
<1>4. ASSUME NEW q \in Requests, EndSession(q) PROVE IInv'
  BY <1>4, InvEnding DEF EndSession
<1>5. ASSUME NEW r \in Replicas, Crash(r) PROVE IInv'
  BY <1>5, InvCrash
<1>6. CASE Quiet \/ UNCHANGED vars
  BY <1>6, InvStutter DEF Quiet
<1> QED
  BY <1>1, <1>2, <1>3, <1>4, <1>5, <1>6 DEF Next

\* IInv is an invariant of the trip service.
THEOREM Invariance == Spec => []IInv
  BY InvInit, InvNext, PTL DEF Spec

\* Every variable of the trip service keeps its type.
THEOREM TypeCorrect == Spec => []TypeOK
<1>1. IInv => TypeOK
  BY DEF IInv
<1> QED
  BY <1>1, Invariance, PTL

\* The status of a trip and its event are never apart, whatever fails.
THEOREM PublishedIffEventHolds == Spec => []PublishedIffEvent
<1>1. IInv => PublishedIffEvent
  BY DEF IInv, TripInv, PublishedIffEvent
<1> QED
  BY <1>1, Invariance, PTL

\* trip_history is the path the trip has taken.
THEOREM HistoryHolds == Spec => []HistoryMatchesStatus
<1>1. IInv => HistoryMatchesStatus
  BY DEF IInv, TripInv, HistoryMatchesStatus
<1> QED
  BY <1>1, Invariance, PTL

\* The event of a trip is caused by an allowed request of the trip's driver.
THEOREM EventIsAttributedHolds == Spec => []EventIsAttributed
<1>1. ASSUME IInv PROVE EventIsAttributed
  <2> SUFFICES ASSUME NEW t \in Trips, outbox[t] # NoEvent
               PROVE  LET e == outbox[t] IN
                        /\ e.driver = trip[t].driver /\ e.company = e.driver
                        /\ call[e.cause] = [op |-> "publish", trip |-> t, client |-> e.driver]
                        /\ verdict[e.cause] = "allowed"
                        /\ applied[e.cause]
    BY DEF EventIsAttributed
  <2>1. TripInv(t) /\ outbox[t].cause \in Requests
    BY <1>1 DEF IInv, TypeOK, Event
  <2>2. call[outbox[t].cause].op = "publish" /\ applied[outbox[t].cause]
    BY <2>1 DEF TripInv
  <2>3. verdict[outbox[t].cause] = "allowed"
    BY <1>1, <2>1, <2>2 DEF IInv, RequestInv, ControlInv, Writes
  <2> QED
    BY <2>1, <2>3 DEF TripInv
<1> QED
  BY <1>1, Invariance, PTL

\* 204 is only said to the driver of a trip somebody else's request published.
THEOREM AlreadyPublishedHolds == Spec => []AlreadyPublishedIsTrue
<1>1. ASSUME IInv PROVE AlreadyPublishedIsTrue
  <2> SUFFICES ASSUME NEW q \in Requests, reply[q] = "204"
               PROVE  LET t == call[q].trip IN
                        /\ trip[t].status \in {"published", "started"}
                        /\ trip[t].driver = call[q].client
                        /\ outbox[t] # NoEvent /\ outbox[t].cause # q
    BY DEF AlreadyPublishedIsTrue
  <2>1. RequestInv(q) /\ ControlInv(q) /\ AnswerInv(q)
    BY <1>1 DEF IInv, RequestInv
  <2>2. /\ trip[call[q].trip].status \in {"published", "started"}
        /\ trip[call[q].trip].driver = call[q].client /\ ~applied[q]
    BY <2>1 DEF AnswerInv
  <2>3. call[q].trip \in Trips
    BY <2>1 DEF ControlInv, Call
  <2>4. TripInv(call[q].trip)
    BY <1>1, <2>3 DEF IInv
  <2> QED
    BY <2>2, <2>4 DEF TripInv
<1> QED
  BY <1>1, Invariance, PTL

\* Answers tell what has been committed.
THEOREM AnswersMatchEffectsHolds == Spec => []AnswersMatchEffects
<1>1. IInv => AnswersMatchEffects
  BY DEF IInv, RequestInv, AnswerInv, AnswersMatchEffects
<1> QED
  BY <1>1, Invariance, PTL

\* A request the Contract Service has not allowed never reaches the database.
THEOREM CheckedBeforeDatabaseHolds == Spec => []CheckedBeforeDatabase
<1>1. IInv => CheckedBeforeDatabase
  BY DEF IInv, RequestInv, ControlInv, CheckedBeforeDatabase, Writes
<1> QED
  BY <1>1, Invariance, PTL

\* Update always finds the row it is about to write: the branch of the code for
\* an update of no row cannot be taken.
THEOREM UpdateFindsItsRow ==
  Spec => [](\A q \in Requests : pc[q] = "update" => trip[call[q].trip] # NoRow)
<1>1. ASSUME IInv, NEW q \in Requests, pc[q] = "update"
      PROVE  trip[call[q].trip] # NoRow
  <2>1. ControlInv(q) /\ TxInv(q)
    BY <1>1 DEF IInv, RequestInv
  <2>2. call[q] \in Call /\ Writes(call[q].op) /\ session[q] = "open"
    BY <1>1, <2>1 DEF ControlInv, TxSteps
  <2>3. lock[call[q].trip] = q
    BY <1>1, <2>1, <2>2 DEF TxInv
  <2>4. LockInv(call[q].trip)
    BY <1>1, <2>2 DEF IInv, Call
  <2> QED
    BY <2>3, <2>4, NoneAssumption DEF LockInv
<1>2. IInv => \A q \in Requests : pc[q] = "update" => trip[call[q].trip] # NoRow
  BY <1>1
<1> QED
  BY <1>2, Invariance, PTL

\* A transaction that will write a row has it locked and has read it as it is.
THEOREM NoLostUpdateHolds == Spec => []NoLostUpdate
<1>1. ASSUME IInv PROVE NoLostUpdate
  <2> SUFFICES ASSUME NEW q \in Requests, session[q] # "none", write[q].row # NoRow,
                      call[q].op # "create"
               PROVE  lock[call[q].trip] = q /\ seen[q] = trip[call[q].trip]
    BY DEF NoLostUpdate
  <2>1. ControlInv(q) /\ TxInv(q)
    BY <1>1 DEF IInv, RequestInv
  <2>2. call[q] \in Call /\ Writes(call[q].op)
    BY <2>1 DEF ControlInv, Call, Writes
  <2>3. lock[call[q].trip] = q
    BY <2>1, <2>2 DEF TxInv
  <2>4. LockInv(call[q].trip)
    BY <1>1, <2>2 DEF IInv, Call
  <2> QED
    BY <2>3, <2>4, NoneAssumption DEF LockInv
<1> QED
  BY <1>1, Invariance, PTL

\* The move of the committed trip in such a step.
LEMMA ApplyMoves ==
  ASSUME IInv, NEW q \in Requests, AllWritten(q), Apply(q), NEW t, t = call[q].trip
  PROVE  /\ call[q].op = "start" => trip[t].status = "published"
         /\ <<trip[t].status, trip'[t].status>> \in NextStatuses
         /\ trip[t] # NoRow => trip'[t].driver = trip[t].driver
         /\ outbox[t] # NoEvent => outbox'[t] = outbox[t]
<1> DEFINE c == call[q]
<1>1. \/ /\ c.op = "create"
         /\ trip[t] = NoRow
         /\ trip'[t] = [status |-> "draft", driver |-> c.client]
         /\ outbox[t] = NoEvent
      \/ /\ c.op = "publish"
         /\ trip[t] = [status |-> "draft", driver |-> c.client]
         /\ trip'[t] = [status |-> "published", driver |-> c.client]
         /\ outbox[t] = NoEvent
      \/ /\ c.op = "start"
         /\ trip[t] = [status |-> "published", driver |-> c.client]
         /\ trip'[t] = [status |-> "started", driver |-> c.client]
         /\ outbox'[t] = outbox[t]
  BY ApplyStep
<1> HIDE DEF c
<1>2. CASE c.op = "create"
  BY <1>1, <1>2 DEF NextStatuses, NoRow, c
<1>3. CASE c.op = "publish"
  BY <1>1, <1>3 DEF NextStatuses, c
<1>4. CASE c.op = "start"
  BY <1>1, <1>4 DEF NextStatuses, c
<1> QED
  BY <1>1, <1>2, <1>3, <1>4

\* Publishing or starting a trip, and creating it, takes effect once at most.
\* A second start would need a published trip, but the first has left it
\* started; the event names the only publish request that took effect.
StartedOnce ==
  \A p, q \in Requests :
    applied[p] /\ applied[q] /\ call[p].op = "start" /\ call[q].op = "start"
      /\ call[p].trip = call[q].trip => p = q

\* The request that takes effect in a step, if any.
LEMMA EffectStep ==
  ASSUME IInv, [Next]_vars
  PROVE  \/ UNCHANGED <<trip, outbox, history, applied>>
         \/ \E q \in Requests :
              Apply(q) /\ AllWritten(q) /\ UNCHANGED call
<1>1. ASSUME NEW q \in Requests, Receive(q) \/ Proceed(q) \/ Fail(q) \/ EndSession(q)
      PROVE  \/ UNCHANGED <<trip, outbox, history, applied>>
             \/ Apply(q) /\ AllWritten(q) /\ UNCHANGED call
  <2>1. CASE Commit(q)
    BY <2>1 DEF Commit, AllWritten
  <2>2. CASE SessionCommits(q)
    BY <2>2 DEF SessionCommits, AllWritten
  <2>3. CASE Receive(q) \/ Validate(q) \/ CheckContract(q) \/ BeginFails(q) \/ ReadTrip(q)
             \/ StatementFails(q) \/ RollbackLost(q)
    BY <2>3 DEF Receive, Validate, CheckContract, BeginFails, ReadTrip, StatementFails,
       RollbackLost, dbVars
  <2>4. CASE Begin(q) \/ SelectForUpdate(q) \/ UpdateTrip(q) \/ InsertEvent(q)
             \/ InsertTrip(q) \/ InsertHistory(q) \/ CommitLost(q)
    BY <2>4 DEF Begin, SelectForUpdate, UpdateTrip, InsertEvent, InsertTrip,
       InsertHistory, CommitLost
  <2>5. CASE Rollback(q) \/ SessionAborts(q)
    BY <2>5 DEF Rollback, SessionAborts, Abort
  <2> QED
    BY <1>1, <2>1, <2>2, <2>3, <2>4, <2>5 DEF Proceed, Fail, EndSession
<1>2. ASSUME NEW r \in Replicas, Crash(r)
      PROVE  UNCHANGED <<trip, outbox, history, applied>>
  BY <1>2 DEF Crash
<1>3. CASE Quiet \/ UNCHANGED vars
  BY <1>3 DEF Quiet, vars
<1> QED
  BY <1>1, <1>2, <1>3 DEF Next

\* The request that started a trip stays the only one.
LEMMA StartedOnceNext == IInv /\ IInv' /\ StartedOnce /\ [Next]_vars => StartedOnce'
<1> SUFFICES ASSUME IInv, IInv', StartedOnce, [Next]_vars,
                    NEW p \in Requests, NEW q \in Requests,
                    applied'[p], applied'[q],
                    call'[p].op = "start", call'[q].op = "start",
                    call'[p].trip = call'[q].trip, p # q
             PROVE  FALSE
  BY DEF StartedOnce
<1>1. CASE UNCHANGED <<trip, outbox, history, applied>>
  <2>1. \A s \in Requests : applied[s] => call'[s] = call[s]
    <3>1. \A s \in Requests : applied[s] => pc[s] # "idle"
      BY DEF IInv, RequestInv, ControlInv
    <3>2. call' = call \/ \E s \in Requests : Receive(s)
      BY DEF Next, Proceed, Fail, EndSession, Validate, CheckContract, Begin, BeginFails,
         ReadTrip, SelectForUpdate, UpdateTrip, InsertEvent, InsertTrip, InsertHistory,
         StatementFails, Commit, CommitLost, Rollback, RollbackLost, SessionAborts,
         SessionCommits, Crash, Quiet, vars
    <3> QED
      BY <3>1, <3>2 DEF Receive, IInv, TypeOK
  <2> QED
    BY <1>1, <2>1 DEF StartedOnce
<1>2. ASSUME NEW s \in Requests, Apply(s), AllWritten(s), UNCHANGED call
      PROVE  FALSE
  <2>1. applied'[p] = (applied[p] \/ p = s) /\ applied'[q] = (applied[q] \/ q = s)
    BY <1>2 DEF Apply, IInv, TypeOK
  <2>2. \A o \in Requests : applied[o] /\ call[o].op = "start" => trip[call[o].trip].status = "started"
    BY DEF IInv, RequestInv, EffectInv
  <2>3. call[s].op = "start" => trip[call[s].trip].status = "published"
    BY <1>2, ApplyMoves
  <2>4. CASE s = p
    BY <1>2, <2>1, <2>2, <2>3, <2>4
  <2>5. CASE s = q
    BY <1>2, <2>1, <2>2, <2>3, <2>5
  <2>6. CASE s # p /\ s # q
    BY <1>2, <2>1, <2>6 DEF StartedOnce
  <2> QED
    BY <2>4, <2>5, <2>6
<1> QED
  BY <1>1, <1>2, EffectStep

\* Of all requests to publish (start, create) one trip at most one takes effect.
THEOREM OneEffectHolds == Spec => []OneEffectPerOperation
<1>1. Init => StartedOnce
  BY DEF Init, StartedOnce
<1>2. IInv /\ StartedOnce => OneEffectPerOperation
  <2> SUFFICES ASSUME IInv, StartedOnce, NEW p \in Requests, NEW q \in Requests,
                      applied[p], applied[q], call[p].trip = call[q].trip,
                      call[p].op = call[q].op
               PROVE  p = q
    BY DEF OneEffectPerOperation
  <2>1. RequestInv(p) /\ RequestInv(q)
    BY DEF IInv
  <2>2. call[p].op \in {"create", "publish", "start"}
    BY <2>1 DEF RequestInv, ControlInv, Call
  <2>3. CASE call[p].op = "create"
    BY <2>3 DEF IInv, FreshIds
  <2>4. CASE call[p].op = "publish"
    BY <2>1, <2>4 DEF RequestInv, EffectInv
  <2>5. CASE call[p].op = "start"
    BY <2>5 DEF StartedOnce
  <2> QED
    BY <2>2, <2>3, <2>4, <2>5
<1>3. Spec => []StartedOnce
  BY <1>1, Invariance, StartedOnceNext, PTL DEF Spec
<1> QED
  BY <1>2, <1>3, Invariance, PTL

\* A committed trip moves forward one status at a time, keeps its driver and
\* never loses or changes its event.
THEOREM MovesForwardHolds == Spec => MovesForward
<1> DEFINE Forward(t) ==
      /\ trip'[t] # trip[t] =>
           /\ <<trip[t].status, trip'[t].status>> \in NextStatuses
           /\ trip[t] # NoRow => trip'[t].driver = trip[t].driver
      /\ outbox[t] # NoEvent => outbox'[t] = outbox[t]
<1>1. ASSUME IInv, [Next]_vars, NEW t \in Trips PROVE Forward(t)
  <2>1. CASE UNCHANGED <<trip, outbox, history, applied>>
    BY <2>1
  <2>2. ASSUME NEW q \in Requests, Apply(q), AllWritten(q)
        PROVE  Forward(t)
    <3>1. CASE t # call[q].trip
      BY <1>1, <2>2, <3>1, ApplyStep
    <3>2. CASE t = call[q].trip
      BY <1>1, <2>2, <3>2, ApplyMoves
    <3> QED
      BY <3>1, <3>2
  <2> QED
    BY <1>1, <2>1, <2>2, EffectStep
<1>2. IInv /\ [Next]_vars => [\A t \in Trips : Forward(t)]_vars
  BY <1>1
<1> QED
  BY <1>2, Invariance, PTL DEF Spec, MovesForward

----------------------------------------------------------------------------
(* Nobody waits for ever for somebody who waits: the invariant behind        *)
(* EveryRequestEnds and LocksAreReleased                                     *)

\* A request that waits for a pooled connection, or for a row.
WaitsForConnection(q) == pc[q] \in {"begin", "read"} /\ ~ConnectionFree(home[q])
WaitsForRow(q) == pc[q] = "select" /\ lock[call[q].trip] # NoRequest
Waits(q) == WaitsForConnection(q) \/ WaitsForRow(q)

\* p has what q waits for.
Blocks(p, q) == \/ WaitsForConnection(q) /\ p \in InUse(home[q])
                \/ WaitsForRow(q) /\ lock[call[q].trip] = p

\* p has a transaction, and waits for nothing to end it.
Runs(p) == session[p] # "none" /\ ~Waits(p)

\* A chain of requests that wait for each other has at most two links, a
\* connection and then a row, and ends with a transaction that waits for
\* nothing: no pool is too small and no order of requests is a deadlock.
NoCircularWait ==
  \A q \in Requests : Waits(q) =>
    \E p \in Requests :
      Blocks(p, q) /\ (Runs(p) \/ \E r \in Requests : Blocks(r, p) /\ Runs(r))

\* Where a request is that has locked a row: past all its waiting.
PastWaiting == {"update", "insertEvent", "commit", "rollback", "done"}

HolderInv == \A t \in Trips : lock[t] # NoRequest => pc[lock[t]] \in PastWaiting

\* A request past its waiting stays there.
LEMMA PastWaitingStays ==
  ASSUME IInv, [Next]_vars, NEW q \in Requests, pc[q] \in PastWaiting
  PROVE  pc'[q] \in PastWaiting
<1>1. TypeOK
  BY DEF IInv
<1>2. ASSUME NEW p \in Requests, NEW step \in PastWaiting, Goto(p, step)
      PROVE  pc'[q] \in PastWaiting
  BY <1>1, <1>2 DEF TypeOK, Goto
<1>3. ASSUME NEW p \in Requests, NEW step, Goto(p, step), p # q
      PROVE  pc'[q] \in PastWaiting
  BY <1>1, <1>3 DEF TypeOK, Goto
<1>4. ASSUME NEW p \in Requests, Receive(p) PROVE pc'[q] \in PastWaiting
  <2>1. p # q /\ \E step : Goto(p, step)
    BY <1>4 DEF Receive, PastWaiting
  <2> QED
    BY <1>3, <2>1
<1>5. ASSUME NEW p \in Requests,
             \/ Validate(p) \/ CheckContract(p) \/ Begin(p) \/ ReadTrip(p)
             \/ SelectForUpdate(p) \/ InsertTrip(p) \/ InsertHistory(p) \/ BeginFails(p)
      PROVE  pc'[q] \in PastWaiting
  <2>1. p # q /\ \E step : Goto(p, step)
    BY <1>5 DEF Validate, CheckContract, Begin, ReadTrip, SelectForUpdate, InsertTrip,
       InsertHistory, BeginFails, PastWaiting
  <2> QED
    BY <1>3, <2>1
<1>6. ASSUME NEW p \in Requests,
             \/ UpdateTrip(p) \/ InsertEvent(p) \/ Commit(p) \/ Rollback(p)
             \/ StatementFails(p) \/ CommitLost(p) \/ RollbackLost(p)
      PROVE  pc'[q] \in PastWaiting
  <2>1. \E step \in PastWaiting : Goto(p, step)
    BY <1>6 DEF UpdateTrip, InsertEvent, Commit, Rollback, StatementFails, CommitLost,
       RollbackLost, StepAfterUpdate, PastWaiting
  <2> QED
    BY <1>2, <2>1
<1>7. ASSUME NEW p \in Requests, EndSession(p) PROVE pc'[q] \in PastWaiting
  BY <1>7 DEF EndSession, SessionAborts, SessionCommits
<1>8. ASSUME NEW r \in Replicas, Crash(r) PROVE pc'[q] \in PastWaiting
  BY <1>8 DEF Crash, PastWaiting
<1>9. CASE Quiet \/ UNCHANGED vars
  BY <1>9 DEF Quiet, vars
<1> QED
  BY <1>4, <1>5, <1>6, <1>7, <1>8, <1>9 DEF Next, Proceed, Fail

\* A row is locked by a SELECT whose request is past its waiting then.
LEMMA HolderNext == IInv /\ HolderInv /\ [Next]_vars => HolderInv'
<1> SUFFICES ASSUME IInv, HolderInv, [Next]_vars, NEW t \in Trips, lock'[t] # NoRequest
             PROVE  pc'[lock'[t]] \in PastWaiting
  BY DEF HolderInv
<1>1. TypeOK
  BY DEF IInv
<1>2. CASE lock'[t] = lock[t]
  <2>1. lock[t] \in Requests /\ pc[lock[t]] \in PastWaiting
    BY <1>1, <1>2 DEF TypeOK, HolderInv
  <2> QED
    BY <1>2, <2>1, PastWaitingStays
<1>3. ASSUME NEW q \in Requests, SelectForUpdate(q), lock'[t] # lock[t]
      PROVE  pc'[lock'[t]] \in PastWaiting
  <2>1. lock'[t] = q
    BY <1>1, <1>3 DEF SelectForUpdate, TypeOK
  <2>2. pc'[q] \in PastWaiting
    BY <1>1, <1>3 DEF SelectForUpdate, Goto, TypeOK, PastWaiting
  <2> QED
    BY <2>1, <2>2
<1>4. ASSUME NEW q \in Requests, lock' = Released(q) PROVE lock'[t] = lock[t]
  BY <1>4 DEF Released
<1>5. \/ UNCHANGED lock
      \/ \E q \in Requests : lock' = Released(q) \/ SelectForUpdate(q)
  <2>1. ASSUME NEW q \in Requests, Proceed(q) \/ EndSession(q)
        PROVE  UNCHANGED lock \/ lock' = Released(q) \/ SelectForUpdate(q)
    BY <2>1 DEF Proceed, EndSession, Validate, CheckContract, Begin, ReadTrip, UpdateTrip,
       InsertEvent, InsertTrip, InsertHistory, Commit, Rollback, SessionAborts,
       SessionCommits, Apply, Abort, dbVars
  <2>2. ASSUME NEW q \in Requests, Receive(q) \/ Fail(q)
        PROVE  UNCHANGED lock
    BY <2>2 DEF Receive, Fail, BeginFails, StatementFails, CommitLost, RollbackLost, dbVars
  <2>3. ASSUME NEW r \in Replicas, Crash(r) PROVE UNCHANGED lock
    BY <2>3 DEF Crash
  <2>4. CASE Quiet \/ UNCHANGED vars
    BY <2>4 DEF Quiet, vars
  <2> QED
    BY <2>1, <2>2, <2>3, <2>4 DEF Next
<1> QED
  BY <1>2, <1>3, <1>4, <1>5

\* Waiting never goes round in a circle, for any number of requests and any
\* size of the pool.
THEOREM NoCircularWaitHolds == Spec => []NoCircularWait
<1>1. Init => HolderInv
  BY DEF Init, HolderInv
<1>2. ASSUME IInv, HolderInv PROVE NoCircularWait
  <2>1. TypeOK /\ \A q \in Requests : ControlInv(q)
    BY <1>2 DEF IInv, RequestInv
  <2>2. ASSUME NEW q \in Requests, WaitsForRow(q)
        PROVE  \E p \in Requests : Blocks(p, q) /\ Runs(p)
    <3> DEFINE t == call[q].trip
               p == lock[t]
    <3>1. t \in Trips /\ p # NoRequest
      BY <2>1, <2>2 DEF WaitsForRow, ControlInv, Call
    <3>2. p \in Requests /\ session[p] # "none" /\ pc[p] \in PastWaiting
      BY <1>2, <2>1, <3>1 DEF TypeOK, IInv, LockInv, HolderInv
    <3>3. ~Waits(p)
      BY <3>2 DEF Waits, WaitsForConnection, WaitsForRow, PastWaiting
    <3>4. Blocks(p, q)
      BY <2>2 DEF Blocks
    <3> QED
      BY <3>2, <3>3, <3>4 DEF Runs
  <2>3. ASSUME NEW q \in Requests, WaitsForConnection(q)
        PROVE  \E p \in Requests :
                 Blocks(p, q) /\ (Runs(p) \/ \E r \in Requests : Blocks(r, p) /\ Runs(r))
    <3>1. InUse(home[q]) # {}
      BY <2>3, PoolSizeAssumption, FS_EmptySet DEF WaitsForConnection, ConnectionFree
    <3>2. PICK p \in Requests : p \in InUse(home[q])
      BY <3>1 DEF InUse
    <3>3. Blocks(p, q) /\ pc[p] \in TxSteps /\ session[p] # "none"
      BY <2>1, <2>3, <3>2 DEF Blocks, InUse, ControlInv
    <3>4. CASE WaitsForRow(p)
      BY <2>2, <3>3, <3>4
    <3>5. CASE ~WaitsForRow(p)
      <4>1. ~Waits(p)
        BY <3>3, <3>5 DEF Waits, WaitsForConnection, TxSteps
      <4> QED
        BY <3>3, <4>1 DEF Runs
    <3> QED
      BY <3>4, <3>5
  <2> QED
    BY <2>2, <2>3 DEF NoCircularWait, Waits
<1> QED
  BY <1>1, <1>2, HolderNext, Invariance, PTL DEF Spec

----------------------------------------------------------------------------
(* The trip service implements TripLifecycle *)

\* The image of "sent" under the refinement mapping.
Sent == [q \in Requests |-> pc[q] = "done"]

\* A request goes to some step: what the client sees of it.
LEMMA SentGoto ==
  ASSUME TypeOK, NEW q \in Requests, NEW step, Goto(q, step)
  PROVE  Sent' = [Sent EXCEPT ![q] = (step = "done")]
<1>1. /\ pc'[q] = step
      /\ \A p \in Requests \ {q} : pc'[p] = pc[p]
  BY DEF TypeOK, Goto
<1>2. Sent' = [p \in Requests |-> pc'[p] = "done"]
  BY DEF Sent
<1>3. [Sent EXCEPT ![q] = (step = "done")]
        = [p \in Requests |-> IF p = q THEN step = "done" ELSE pc[p] = "done"]
  BY Zenon DEF Sent
<1>4. \A p \in Requests :
        (pc'[p] = "done") = (IF p = q THEN step = "done" ELSE pc[p] = "done")
  BY <1>1
<1> QED
  BY <1>2, <1>3, <1>4, Zenon

\* A client is told nothing by a step between two unfinished ones.
LEMMA SentSame ==
  ASSUME \A q \in Requests : (pc'[q] = "done") = (pc[q] = "done")
  PROVE  Sent' = Sent
  BY Zenon DEF Sent

\* A step that changes no answer, no effect and no finished request.
LEMMA Stutters ==
  ASSUME UNCHANGED <<trip, outbox, call, reply, applied>>, Sent' = Sent
  PROVE  UNCHANGED Lifecycle!vars
  BY DEF Lifecycle!vars, Sent

\* The initial states are those of the API.
LEMMA LifecycleInit == Init => Lifecycle!Init
<1> SUFFICES ASSUME Init PROVE Lifecycle!Init
  OBVIOUS
<1>1. [q \in Requests |-> pc[q] = "done"] = [q \in Requests |-> FALSE]
  <2>1. \A q \in Requests : (pc[q] = "done") = FALSE
    BY DEF Init
  <2> QED
    BY <2>1, Zenon
<1>2. \E drivers \in [Trips -> Clients \cup {NoClient}] :
        trip = [t \in Trips |-> IF drivers[t] = NoClient THEN NoRow
                                ELSE [status |-> "draft", driver |-> drivers[t]]]
  BY DEF Init
<1>3. /\ outbox = [t \in Trips |-> NoEvent]
      /\ call = [q \in Requests |-> NoCall]
      /\ reply = [q \in Requests |-> "none"]
      /\ applied = [q \in Requests |-> FALSE]
  BY DEF Init
<1> QED
  BY <1>1, <1>2, <1>3, Zenon
     DEF Lifecycle!Init, Lifecycle!NoRow, Lifecycle!NoEvent, Lifecycle!NoCall,
         NoRow, NoEvent, NoCall

\* A request comes in.
LEMMA AskRefines ==
  ASSUME IInv, NEW q \in Requests, Receive(q)
  PROVE  Lifecycle!Ask(q)
<1>1. TypeOK /\ call[q] = NoCall /\ pc[q] = "idle"
  BY DEF IInv, RequestInv, ControlInv, Receive
<1>2. PICK c \in Calls : call' = [call EXCEPT ![q] = c] /\ Goto(q, FirstStep(c.op))
  BY DEF Receive
<1>3. FirstStep(c.op) # "done"
  BY DEF FirstStep
<1>4. Sent' = Sent
  <2>1. \A p \in Requests : (pc'[p] = "done") = (pc[p] = "done")
    BY <1>1, <1>2, <1>3 DEF TypeOK, Goto
  <2> QED
    BY <2>1, SentSame
<1>5. UNCHANGED <<trip, outbox, reply, applied>>
  BY DEF Receive, dbVars
<1> QED
  BY <1>1, <1>2, <1>4, <1>5 DEF Lifecycle!Ask, Lifecycle!NoCall, NoCall, Sent

\* A request in progress has asked something, and is unanswered before its
\* handler turns to the ROLLBACK.
LEMMA InProgressCall ==
  ASSUME IInv, NEW q \in Requests, pc[q] \notin {"idle", "done"}
  PROVE  /\ call[q] \in Call /\ call[q] # Lifecycle!NoCall
         /\ pc[q] # "rollback" => reply[q] = "none"
         /\ pc[q] = "rollback" => reply[q] # "none"
         /\ Sent[q] = FALSE
<1>1. ControlInv(q)
  BY DEF IInv, RequestInv
<1>2. call[q] \in Call
  BY <1>1 DEF ControlInv
<1>3. call[q] # Lifecycle!NoCall
  BY <1>2 DEF Call, Lifecycle!NoCall
<1>4. pc[q] = "rollback" <=> reply[q] # "none"
  BY <1>1 DEF ControlInv
<1>5. Sent[q] = FALSE
  BY Zenon DEF Sent
<1> QED
  BY <1>2, <1>3, <1>4, <1>5

\* A call that fails, at once or after a ROLLBACK, leaves nothing behind.
LEMMA FailRefines ==
  ASSUME IInv, NEW q \in Requests, pc[q] \notin {"idle", "done", "rollback"},
         NEW answer \in Lifecycle!Failures(q), Decide(q, answer),
         NEW step, Goto(q, step),
         UNCHANGED <<trip, outbox, call, applied>>
  PROVE  Lifecycle!Fail(q)
<1>1. reply[q] = "none" /\ call[q] # Lifecycle!NoCall
  BY InProgressCall
<1>2. Sent' = [Sent EXCEPT ![q] = (step = "done")]
  BY SentGoto DEF IInv
<1>3. \E on \in BOOLEAN : Sent' = [Sent EXCEPT ![q] = on]
  BY <1>2, Zenon
<1>4. \E a \in Lifecycle!Failures(q) : reply' = [reply EXCEPT ![q] = a]
  BY DEF Decide
<1> QED
  BY <1>1, <1>3, <1>4, Zenon DEF Lifecycle!Fail, Sent

\* Which of the handler's own errors these are.
LEMMA FailuresOf ==
  ASSUME NEW q \in Requests, call[q] \in Call
  PROVE  /\ call[q].op = "create" => "400" \in Lifecycle!Failures(q)
         /\ "500" \in Lifecycle!Failures(q)
         /\ Writes(call[q].op) =>
              \A v : CheckReply(v) \in Lifecycle!Failures(q)
  BY DEF Lifecycle!Failures, CheckReply, Writes, Call

\* A call is refused for what the trip is under the lock, or when it is read.
LEMMA RefuseRefines ==
  ASSUME IInv, NEW q \in Requests, pc[q] \notin {"idle", "done", "rollback"},
         NEW answer \in {"404", "403", "204", "409"}, Lifecycle!Refused(q, answer),
         Decide(q, answer), NEW step, Goto(q, step),
         UNCHANGED <<trip, outbox, call, applied>>
  PROVE  Lifecycle!Refuse(q)
<1>1. reply[q] = "none" /\ call[q] # Lifecycle!NoCall
  BY InProgressCall
<1>2. Sent' = [Sent EXCEPT ![q] = (step = "done")]
  BY SentGoto DEF IInv
<1>3. \E on \in BOOLEAN : Sent' = [Sent EXCEPT ![q] = on]
  BY <1>2, Zenon
<1>4. \E a \in {"404", "403", "204", "409"} :
        Lifecycle!Refused(q, a) /\ reply' = [reply EXCEPT ![q] = a]
  BY DEF Decide
<1> QED
  BY <1>1, <1>3, <1>4, Zenon DEF Lifecycle!Refuse, Sent

\* What turns a publish or start request away is what the API refuses it for.
LEMMA RefusalIsRefused ==
  ASSUME IInv, NEW q \in Requests, call[q] \in Call, Writes(call[q].op),
         Refusal(call[q], trip[call[q].trip]) # "none"
  PROVE  LET answer == Refusal(call[q], trip[call[q].trip])
         IN  answer \in {"404", "403", "204", "409"} /\ Lifecycle!Refused(q, answer)
<1> DEFINE c == call[q]
           row == trip[c.trip]
           answer == Refusal(c, row)
<1>1. c \in Call /\ Writes(c.op) /\ c.client \in Clients /\ c.op # "create" /\ answer # "none"
  BY DEF Call, Writes
<1>2. row \in Row /\ (row = NoRow \/ (row.status # "absent" /\ row.driver \in Clients))
  BY DEF IInv, TypeOK, TripInv, Call
<1>3. Lifecycle!Row(q) = row /\ Lifecycle!NoRow = NoRow
  BY DEF Lifecycle!Row, Lifecycle!NoRow, NoRow
<1>4. answer \in {"404", "403", "204", "409"}
  BY <1>1, <1>2, RefusalMeaning
<1>5. ASSUME answer = "404" PROVE Lifecycle!Refused(q, "404")
  <2>1. row.status = "absent"
    BY <1>1, <1>5 DEF Refusal, PublishRefusal, StartRefusal
  <2> QED
    BY <1>1, <1>2, <1>3, <2>1 DEF Lifecycle!Refused
<1>6. ASSUME answer = "403" PROVE Lifecycle!Refused(q, "403")
  <2>1. row.status # "absent" /\ row.driver # c.client
    BY <1>1, <1>6 DEF Refusal, PublishRefusal, StartRefusal
  <2>2. row.driver \notin {NoClient, c.client}
    BY <1>2, <2>1, NoneAssumption DEF NoRow
  <2> QED
    BY <1>1, <1>3, <2>2 DEF Lifecycle!Refused, Writes
<1>7. ASSUME answer = "204" PROVE Lifecycle!Refused(q, "204")
  <2>1. c.op = "publish" /\ row.status = "published" /\ row.driver = c.client
    BY <1>1, <1>7 DEF Refusal, PublishRefusal, StartRefusal
  <2>2. row = [status |-> "published", driver |-> c.client]
    BY <1>2, <2>1 DEF Row
  <2> QED
    BY <1>3, <2>1, <2>2 DEF Lifecycle!Refused
<1>8. ASSUME answer = "409" PROVE Lifecycle!Refused(q, "409")
  <2>1. /\ row.driver = c.client
        /\ \/ c.op = "publish" /\ row.status = "started"
           \/ c.op # "publish" /\ row.status # "published"
    BY <1>1, <1>2, <1>8 DEF Refusal, PublishRefusal, StartRefusal, Row, Statuses, NoRow
  <2>2. c.op = "publish" \/ c.op = "start"
    BY <1>1 DEF Writes
  <2> QED
    BY <1>3, <2>1, <2>2 DEF Lifecycle!Refused
<1> QED
  BY <1>4, <1>5, <1>6, <1>7, <1>8

\* The SELECT refuses a request, or lets it go on unseen.
LEMMA SelectRefines ==
  ASSUME IInv, NEW q \in Requests, SelectForUpdate(q)
  PROVE  Lifecycle!Refuse(q) \/ UNCHANGED Lifecycle!vars
<1> DEFINE refusal == Refusal(call[q], trip[call[q].trip])
<1>1. /\ TypeOK /\ pc[q] = "select" /\ call[q] \in Call /\ Writes(call[q].op)
      /\ UNCHANGED <<trip, outbox, call, applied>>
  BY DEF SelectForUpdate, IInv, RequestInv, ControlInv
<1>2. CASE refusal = "none" /\ Goto(q, "update") /\ UNCHANGED reply
  <2>1. \A p \in Requests : (pc'[p] = "done") = (pc[p] = "done")
    BY <1>1, <1>2 DEF TypeOK, Goto
  <2> QED
    BY <1>1, <1>2, <2>1, SentSame, Stutters
<1>3. CASE refusal # "none" /\ Goto(q, "rollback") /\ Decide(q, refusal)
  <2>1. refusal \in {"404", "403", "204", "409"} /\ Lifecycle!Refused(q, refusal)
    BY <1>1, <1>3, RefusalIsRefused
  <2> HIDE DEF refusal
  <2> QED
    BY <1>1, <1>3, <2>1, RefuseRefines
<1> QED
  BY <1>2, <1>3 DEF SelectForUpdate

\* A GET shows the trip, misses it, or fails.
LEMMA ReadRefines ==
  ASSUME IInv, NEW q \in Requests, ReadTrip(q)
  PROVE  Lifecycle!Show(q) \/ Lifecycle!Refuse(q) \/ Lifecycle!Fail(q)
<1> DEFINE row == trip[call[q].trip]
<1>1. /\ TypeOK /\ pc[q] = "read" /\ call[q] \in Call /\ call[q].op = "get"
      /\ Goto(q, "done") /\ UNCHANGED <<trip, outbox, call, applied>>
  BY DEF ReadTrip, dbVars, IInv, RequestInv, ControlInv
<1>2. Lifecycle!Row(q) = row /\ Lifecycle!NoRow = NoRow
  BY DEF Lifecycle!Row, Lifecycle!NoRow, NoRow
<1>3. \/ row = NoRow /\ Decide(q, "404")
      \/ row # NoRow /\ Decide(q, "200")
      \/ Decide(q, "500")
  <2>1. ASSUME seen' = [seen EXCEPT ![q] = row],
               Decide(q, IF seen'[q] = NoRow THEN "404" ELSE "200")
        PROVE  \/ row = NoRow /\ Decide(q, "404")
               \/ row # NoRow /\ Decide(q, "200")
    <3>1. seen'[q] = row
      BY <1>1, <2>1 DEF TypeOK
    <3> QED
      BY <2>1, <3>1 DEF Decide
  <2> QED
    BY <2>1 DEF ReadTrip
<1>4. ASSUME row = NoRow, Decide(q, "404") PROVE Lifecycle!Refuse(q)
  <2>1. Lifecycle!Refused(q, "404")
    BY <1>1, <1>2, <1>4 DEF Lifecycle!Refused
  <2> QED
    BY <1>1, <1>4, <2>1, RefuseRefines
<1>5. ASSUME row # NoRow, Decide(q, "200") PROVE Lifecycle!Show(q)
  <2>1. reply[q] = "none"
    BY <1>1, InProgressCall
  <2>2. Sent' = [Sent EXCEPT ![q] = ("done" = "done")]
    BY <1>1, SentGoto
  <2>3. Sent' = [Sent EXCEPT ![q] = TRUE]
    BY <2>2, Zenon
  <2>4. reply' = [reply EXCEPT ![q] = "200"]
    BY <1>5 DEF Decide
  <2> QED
    BY <1>1, <1>2, <1>5, <2>1, <2>3, <2>4, Zenon DEF Lifecycle!Show, Sent
<1>6. ASSUME Decide(q, "500") PROVE Lifecycle!Fail(q)
  BY <1>1, <1>6, FailuresOf, FailRefines
<1> QED
  BY <1>3, <1>4, <1>5, <1>6

\* A transaction that is applied is the effect of its call.
LEMMA EffectRefines ==
  ASSUME IInv, NEW q \in Requests, AllWritten(q), Apply(q), UNCHANGED call
  PROVE  Lifecycle!TakeEffect(q)
<1> DEFINE c == call[q]
           t == call[q].trip
<1>1. TypeOK /\ c \in Call /\ t \in Trips
  BY ApplyStep DEF IInv
<1>2. ~applied[q] /\ applied' = [applied EXCEPT ![q] = TRUE]
  BY DEF Apply, AllWritten, IInv, RequestInv, ControlInv, TxSteps
<1>3. Lifecycle!Row(q) = trip[t] /\ Lifecycle!NoRow = NoRow
  BY DEF Lifecycle!Row, Lifecycle!NoRow, NoRow
<1>4. trip' = [trip EXCEPT ![t] = trip'[t]] /\ outbox' = [outbox EXCEPT ![t] = outbox'[t]]
  BY <1>1 DEF Apply, TypeOK
<1>5. CASE /\ c.op = "create" /\ trip[t] = NoRow
           /\ trip'[t] = [status |-> "draft", driver |-> c.client]
           /\ outbox'[t] = outbox[t]
  <2>1. Lifecycle!SetTrip(q, "draft", c.client)
    BY <1>4, <1>5 DEF Lifecycle!SetTrip
  <2>2. UNCHANGED outbox
    BY <1>1, <1>4, <1>5 DEF TypeOK
  <2> QED
    BY <1>2, <1>3, <1>5, <2>1, <2>2 DEF Lifecycle!TakeEffect, Lifecycle!Create
<1>6. CASE /\ c.op = "publish" /\ trip[t] = [status |-> "draft", driver |-> c.client]
           /\ trip'[t] = [status |-> "published", driver |-> c.client]
           /\ outbox'[t] = [driver |-> c.client, company |-> c.client, cause |-> q]
  <2>1. Lifecycle!SetTrip(q, "published", c.client)
    BY <1>4, <1>6 DEF Lifecycle!SetTrip
  <2>2. outbox' = [outbox EXCEPT ![t] =
                     [driver |-> c.client, company |-> c.client, cause |-> q]]
    BY <1>4, <1>6
  <2> QED
    BY <1>2, <1>3, <1>6, <2>1, <2>2 DEF Lifecycle!TakeEffect, Lifecycle!Publish
<1>7. CASE /\ c.op = "start" /\ trip[t] = [status |-> "published", driver |-> c.client]
           /\ trip'[t] = [status |-> "started", driver |-> c.client]
           /\ outbox'[t] = outbox[t]
  <2>1. Lifecycle!SetTrip(q, "started", c.client)
    BY <1>4, <1>7 DEF Lifecycle!SetTrip
  <2>2. UNCHANGED outbox
    BY <1>1, <1>4, <1>7 DEF TypeOK
  <2> QED
    BY <1>2, <1>3, <1>7, <2>1, <2>2 DEF Lifecycle!TakeEffect, Lifecycle!Start
<1>8. \/ /\ c.op = "create" /\ trip[t] = NoRow
         /\ trip'[t] = [status |-> "draft", driver |-> c.client]
         /\ outbox'[t] = outbox[t]
      \/ /\ c.op = "publish" /\ trip[t] = [status |-> "draft", driver |-> c.client]
         /\ trip'[t] = [status |-> "published", driver |-> c.client]
         /\ outbox'[t] = [driver |-> c.client, company |-> c.client, cause |-> q]
      \/ /\ c.op = "start" /\ trip[t] = [status |-> "published", driver |-> c.client]
         /\ trip'[t] = [status |-> "started", driver |-> c.client]
         /\ outbox'[t] = outbox[t]
  BY ApplyStep
<1> QED
  BY <1>5, <1>6, <1>7, <1>8

\* A commit the handler learns of is a call that succeeds.
LEMMA CommitRefines ==
  ASSUME IInv, NEW q \in Requests, Commit(q)
  PROVE  Lifecycle!Succeed(q)
<1>1. /\ TypeOK /\ AllWritten(q) /\ Apply(q) /\ UNCHANGED call /\ Goto(q, "done")
      /\ Decide(q, SuccessReply(call[q].op)) /\ pc[q] = "commit"
  BY DEF Commit, AllWritten, IInv
<1>2. Lifecycle!TakeEffect(q)
  BY <1>1, EffectRefines
<1>3. reply[q] = "none"
  BY <1>1, InProgressCall
<1>4. Sent' = [Sent EXCEPT ![q] = ("done" = "done")]
  BY <1>1, SentGoto
<1>5. Sent' = [Sent EXCEPT ![q] = TRUE]
  BY <1>4, Zenon
<1>6. reply' = [reply EXCEPT ![q] = IF call[q].op = "create" THEN "201" ELSE "200"]
  BY <1>1 DEF Decide, SuccessReply
<1> QED
  BY <1>2, <1>3, <1>5, <1>6, Zenon DEF Lifecycle!Succeed, Sent

\* A commit nobody waits for any more is the late effect of a call whose client
\* was told "500" or nothing.
LEMMA LateCommitRefines ==
  ASSUME IInv, NEW q \in Requests, SessionCommits(q)
  PROVE  Lifecycle!LateEffect(q)
<1>1. /\ TypeOK /\ AllWritten(q) /\ Apply(q) /\ UNCHANGED <<call, reply, pc>>
      /\ pc[q] = "done" /\ session[q] = "committing"
  BY DEF SessionCommits, AllWritten, IInv
<1>2. Lifecycle!TakeEffect(q)
  BY <1>1, EffectRefines
<1>3. reply[q] \in {"500", "lost"}
  <2>1. ControlInv(q) /\ AnswerInv(q) /\ reply[q] \in Replies
    BY <1>1 DEF IInv, RequestInv, TypeOK
  <2>2. reply[q] # "none" /\ ~applied[q] /\ call[q].op # "get"
    BY <1>1, <2>1 DEF ControlInv
  <2> QED
    BY <1>1, <2>1, <2>2 DEF AnswerInv, Replies
<1>4. Sent[q] = TRUE
  <2>1. (pc[q] = "done") = TRUE
    BY <1>1
  <2> QED
    BY <2>1, Zenon DEF Sent
<1>5. Sent' = Sent
  BY <1>1, SentSame
<1> QED
  BY <1>1, <1>2, <1>3, <1>4, <1>5, Zenon DEF Lifecycle!LateEffect, Sent

\* The answer of a refused or failed call is sent after its ROLLBACK.
LEMMA RollbackRefines ==
  ASSUME IInv, NEW q \in Requests, Rollback(q) \/ RollbackLost(q)
  PROVE  Lifecycle!Send(q)
<1>1. /\ TypeOK /\ pc[q] = "rollback" /\ Goto(q, "done")
      /\ UNCHANGED <<trip, outbox, call, reply, applied>>
  BY DEF Rollback, RollbackLost, Abort, dbVars, IInv
<1>2. reply[q] # "none" /\ Sent[q] = FALSE
  BY <1>1, InProgressCall
<1>3. Sent' = [Sent EXCEPT ![q] = ("done" = "done")]
  BY <1>1, SentGoto
<1>4. Sent' = [Sent EXCEPT ![q] = TRUE]
  BY <1>3, Zenon
<1> QED
  BY <1>1, <1>2, <1>4, Zenon DEF Lifecycle!Send, Sent

\* The end of a process loses the answers of its requests.
LEMMA CrashRefines ==
  ASSUME IInv, NEW r \in Replicas, Crash(r), NEW Q, Q = InProgress(r)
  PROVE  Lifecycle!Lose(Q)
<1>1. /\ pc' = [q \in Requests |-> IF q \in Q THEN "done" ELSE pc[q]]
      /\ reply' = [q \in Requests |-> IF q \in Q THEN "lost" ELSE reply[q]]
      /\ UNCHANGED <<trip, outbox, call, applied>>
  BY DEF Crash
<1>2. \A q \in Q : q \in Requests /\ call[q] # Lifecycle!NoCall /\ Sent[q] = FALSE
  BY InProgressCall DEF InProgress
<1>3. Sent' = [q \in Requests |-> IF q \in Q THEN TRUE ELSE Sent[q]]
  <2>1. \A q \in Requests :
          (pc'[q] = "done") = (IF q \in Q THEN TRUE ELSE pc[q] = "done")
    BY <1>1
  <2>2. \A q \in Requests : Sent[q] = (pc[q] = "done")
    BY Zenon DEF Sent
  <2>3. Sent' = [q \in Requests |-> pc'[q] = "done"]
    BY DEF Sent
  <2>4. \A q \in Requests :
          (pc'[q] = "done") = (IF q \in Q THEN TRUE ELSE Sent[q])
    BY <2>1, <2>2, Zenon
  <2> QED
    BY <2>3, <2>4, Zenon
<1>4. \A q \in Q : call[q] # Lifecycle!NoCall /\ ~Sent[q]
  BY <1>2, Zenon
<1> QED
  BY <1>1, <1>3, <1>4, Zenon DEF Lifecycle!Lose, Sent

\* The steps of a handler before its transaction and of the calls that fail.
LEMMA HandlerRefines ==
  ASSUME IInv, NEW q \in Requests,
         \/ Validate(q) \/ CheckContract(q) \/ BeginFails(q) \/ StatementFails(q)
         \/ CommitLost(q)
  PROVE  Lifecycle!Fail(q) \/ UNCHANGED Lifecycle!vars
<1>1. TypeOK /\ ControlInv(q)
  BY DEF IInv, RequestInv
<1>2. /\ pc[q] \notin {"idle", "done", "rollback"}
      /\ UNCHANGED <<trip, outbox, call, applied>>
  BY DEF Validate, CheckContract, BeginFails, StatementFails, CommitLost, TxSteps, dbVars
<1>3. call[q] \in Call
  BY <1>2, InProgressCall
<1>4. ASSUME NEW step, step # "done", Goto(q, step), UNCHANGED reply
      PROVE  UNCHANGED Lifecycle!vars
  <2>1. \A p \in Requests : (pc'[p] = "done") = (pc[p] = "done")
    BY <1>1, <1>2, <1>4 DEF TypeOK, Goto
  <2> QED
    BY <1>2, <1>4, <2>1, SentSame, Stutters
<1>5. ASSUME NEW step, Goto(q, step), NEW answer \in Lifecycle!Failures(q),
             Decide(q, answer)
      PROVE  Lifecycle!Fail(q)
  BY <1>2, <1>5, FailRefines
<1>6. CASE Validate(q)
  <2>1. "400" \in Lifecycle!Failures(q)
    BY <1>1, <1>3, <1>6, FailuresOf DEF Validate, ControlInv
  <2> QED
    BY <1>4, <1>5, <1>6, <2>1 DEF Validate
<1>7. CASE CheckContract(q)
  <2>1. \A v : CheckReply(v) \in Lifecycle!Failures(q)
    BY <1>1, <1>3, <1>7, FailuresOf DEF CheckContract, ControlInv
  <2>2. PICK v \in Verdicts :
          \/ Goto(q, "begin") /\ UNCHANGED reply
          \/ Goto(q, "done") /\ Decide(q, CheckReply(v))
    BY <1>7 DEF CheckContract
  <2> QED
    BY <1>4, <1>5, <2>1, <2>2
<1>8. CASE BeginFails(q) \/ StatementFails(q) \/ CommitLost(q)
  <2>1. "500" \in Lifecycle!Failures(q)
    BY <1>3, FailuresOf
  <2>2. \E step : Goto(q, step) /\ Decide(q, "500")
    BY <1>8 DEF BeginFails, StatementFails, CommitLost, ReplyToLostCommit
  <2> QED
    BY <1>5, <2>1, <2>2
<1> QED
  BY <1>6, <1>7, <1>8

\* The statements of a transaction, and the end of one that is given up, are
\* hidden from the clients.
LEMMA HiddenRefines ==
  ASSUME IInv, NEW q \in Requests,
         \/ Begin(q) \/ UpdateTrip(q) \/ InsertEvent(q) \/ InsertTrip(q) \/ InsertHistory(q)
         \/ SessionAborts(q)
  PROVE  UNCHANGED Lifecycle!vars
<1>1. UNCHANGED <<trip, outbox, call, reply, applied>>
  BY DEF Begin, UpdateTrip, InsertEvent, InsertTrip, InsertHistory, SessionAborts, Abort
<1>2. \/ UNCHANGED pc
      \/ pc[q] # "done" /\ \E step : step # "done" /\ Goto(q, step)
  BY DEF Begin, UpdateTrip, InsertEvent, InsertTrip, InsertHistory, SessionAborts,
         StepAfterUpdate
<1>3. \A p \in Requests : (pc'[p] = "done") = (pc[p] = "done")
  BY <1>2 DEF IInv, TypeOK, Goto
<1> QED
  BY <1>1, <1>3, SentSame, Stutters

\* Every step of the trip service is a step of the API or hidden from it.
THEOREM LifecycleStep == IInv /\ [Next]_vars => [Lifecycle!Next]_(Lifecycle!vars)
<1> SUFFICES ASSUME IInv, [Next]_vars PROVE Lifecycle!Next \/ UNCHANGED Lifecycle!vars
  OBVIOUS
<1>1. ASSUME NEW q \in Requests, Receive(q) PROVE Lifecycle!Next
  BY <1>1, AskRefines DEF Lifecycle!Next
<1>2. ASSUME NEW q \in Requests, Proceed(q) \/ Fail(q) \/ EndSession(q)
      PROVE  Lifecycle!Next \/ UNCHANGED Lifecycle!vars
  <2>1. CASE \/ Validate(q) \/ CheckContract(q) \/ BeginFails(q) \/ StatementFails(q)
             \/ CommitLost(q)
    BY <2>1, HandlerRefines DEF Lifecycle!Next
  <2>2. CASE \/ Begin(q) \/ UpdateTrip(q) \/ InsertEvent(q) \/ InsertTrip(q)
             \/ InsertHistory(q) \/ SessionAborts(q)
    BY <2>2, HiddenRefines
  <2>3. CASE ReadTrip(q)
    BY <2>3, ReadRefines DEF Lifecycle!Next
  <2>4. CASE SelectForUpdate(q)
    BY <2>4, SelectRefines DEF Lifecycle!Next
  <2>5. CASE Commit(q)
    BY <2>5, CommitRefines DEF Lifecycle!Next
  <2>6. CASE SessionCommits(q)
    BY <2>6, LateCommitRefines DEF Lifecycle!Next
  <2>7. CASE Rollback(q) \/ RollbackLost(q)
    BY <2>7, RollbackRefines DEF Lifecycle!Next
  <2> QED
    BY <1>2, <2>1, <2>2, <2>3, <2>4, <2>5, <2>6, <2>7 DEF Proceed, Fail, EndSession
<1>3. ASSUME NEW r \in Replicas, Crash(r) PROVE Lifecycle!Next
  <2>1. PICK Q \in SUBSET Requests : Q = InProgress(r)
    BY DEF InProgress
  <2> QED
    BY <1>3, <2>1, CrashRefines DEF Lifecycle!Next
<1>4. CASE Quiet \/ UNCHANGED vars
  <2>1. UNCHANGED <<trip, outbox, call, reply, applied, pc>>
    BY <1>4 DEF Quiet, vars
  <2> QED
    BY <2>1, SentSame, Stutters
<1> QED
  BY <1>1, <1>2, <1>3, <1>4 DEF Next

\* However transactions interleave, fail and outlive their processes, the
\* clients see calls that act at one instant.
THEOREM ImplementsLifecycleHolds == Spec => ImplementsLifecycle
  BY LifecycleInit, Invariance, LifecycleStep, PTL
  DEF Spec, ImplementsLifecycle, Lifecycle!Spec
=============================================================================
