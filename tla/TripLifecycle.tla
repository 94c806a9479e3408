--------------------------- MODULE TripLifecycle ---------------------------
(***************************************************************************)
(* What the trip API promises, without processes, transactions or locks.   *)
(* Every call acts at one instant, on the trips as they are then: it takes *)
(* effect and is answered so, or it is refused for what the trip is at     *)
(* that instant, or it fails and has no effect, or its answer is lost and  *)
(* it takes effect at most once, then or later.  The event of a published  *)
(* trip appears in the same instant as its new status.                     *)
(*                                                                         *)
(* TripService implements this specification.                              *)
(***************************************************************************)
EXTENDS Naturals

CONSTANTS Trips, Clients, Requests, Calls, NoClient, NoRequest

NoCall == [op |-> "none", trip |-> "none", client |-> NoClient]
NoRow == [status |-> "absent", driver |-> NoClient]
NoEvent == [driver |-> NoClient, company |-> NoClient, cause |-> NoRequest]

VARIABLES
  trip,     \* status and driver of each trip
  outbox,   \* the event of each trip
  call,     \* what each request asks
  reply,    \* what each request is answered
  sent,     \* the answer has reached the client, or never will
  applied   \* the request has taken effect

vars == <<trip, outbox, call, reply, sent, applied>>

Init ==
  /\ \E drivers \in [Trips -> Clients \cup {NoClient}] :
       trip = [t \in Trips |-> IF drivers[t] = NoClient THEN NoRow
                               ELSE [status |-> "draft", driver |-> drivers[t]]]
  /\ outbox = [t \in Trips |-> NoEvent]
  /\ call = [q \in Requests |-> NoCall]
  /\ reply = [q \in Requests |-> "none"]
  /\ sent = [q \in Requests |-> FALSE]
  /\ applied = [q \in Requests |-> FALSE]

Ask(q) ==
  /\ call[q] = NoCall
  /\ \E c \in Calls : call' = [call EXCEPT ![q] = c]
  /\ UNCHANGED <<trip, outbox, reply, sent, applied>>

(* The three effects, each on the trip of the call *)

Row(q) == trip[call[q].trip]

SetTrip(q, status, driver) ==
  trip' = [trip EXCEPT ![call[q].trip] = [status |-> status, driver |-> driver]]

Create(q) ==
  /\ call[q].op = "create"
  /\ Row(q) = NoRow
  /\ SetTrip(q, "draft", call[q].client)
  /\ UNCHANGED outbox

Publish(q) ==
  /\ call[q].op = "publish"
  /\ Row(q) = [status |-> "draft", driver |-> call[q].client]
  /\ SetTrip(q, "published", call[q].client)
  /\ outbox' = [outbox EXCEPT ![call[q].trip] =
                  [driver |-> call[q].client, company |-> call[q].client, cause |-> q]]

Start(q) ==
  /\ call[q].op = "start"
  /\ Row(q) = [status |-> "published", driver |-> call[q].client]
  /\ SetTrip(q, "started", call[q].client)
  /\ UNCHANGED outbox

TakeEffect(q) ==
  /\ ~applied[q]
  /\ Create(q) \/ Publish(q) \/ Start(q)
  /\ applied' = [applied EXCEPT ![q] = TRUE]
  /\ UNCHANGED call

(* The answers *)

\* What the trip itself forbids, and how the client is told.
Refused(q, answer) ==
  CASE answer = "404" -> Row(q) = NoRow /\ call[q].op # "create"
    [] answer = "403" -> call[q].op \in {"publish", "start"}
                         /\ Row(q).driver \notin {NoClient, call[q].client}
    [] answer = "204" -> call[q].op = "publish"
                         /\ Row(q) = [status |-> "published", driver |-> call[q].client]
    [] answer = "409" -> /\ Row(q).driver = call[q].client
                         /\ \/ call[q].op = "publish" /\ Row(q).status = "started"
                            \/ call[q].op = "start" /\ Row(q).status # "published"

Succeed(q) ==
  /\ reply[q] = "none"
  /\ TakeEffect(q)
  /\ reply' = [reply EXCEPT ![q] = IF call[q].op = "create" THEN "201" ELSE "200"]
  /\ sent' = [sent EXCEPT ![q] = TRUE]

Show(q) ==
  /\ reply[q] = "none"
  /\ call[q].op = "get" /\ Row(q) # NoRow
  /\ reply' = [reply EXCEPT ![q] = "200"]
  /\ sent' = [sent EXCEPT ![q] = TRUE]
  /\ UNCHANGED <<trip, outbox, call, applied>>

\* The answer of a refused call may be on its way for a while.
Refuse(q) ==
  /\ reply[q] = "none" /\ call[q] # NoCall
  /\ \E answer \in {"404", "403", "204", "409"} :
       Refused(q, answer) /\ reply' = [reply EXCEPT ![q] = answer]
  /\ \E on \in BOOLEAN : sent' = [sent EXCEPT ![q] = on]
  /\ UNCHANGED <<trip, outbox, call, applied>>

\* Bad input, a permission the Contract Service denies or cannot tell, or an
\* error of the database: nothing has happened so far, and after a 4xx or 50x
\* other than 500 nothing will.
Failures(q) == CASE call[q].op = "create" -> {"400", "500"}
                 [] call[q].op = "get" -> {"500"}
                 [] OTHER -> {"403", "500", "502", "503"}

Fail(q) ==
  /\ reply[q] = "none" /\ call[q] # NoCall
  /\ \E answer \in Failures(q) : reply' = [reply EXCEPT ![q] = answer]
  /\ \E on \in BOOLEAN : sent' = [sent EXCEPT ![q] = on]
  /\ UNCHANGED <<trip, outbox, call, applied>>

Send(q) ==
  /\ reply[q] # "none" /\ ~sent[q]
  /\ sent' = [sent EXCEPT ![q] = TRUE]
  /\ UNCHANGED <<trip, outbox, call, reply, applied>>

\* The effect of a call whose client does not know how it ended.
LateEffect(q) ==
  /\ reply[q] \in {"500", "lost"}
  /\ sent[q]
  /\ TakeEffect(q)
  /\ UNCHANGED <<reply, sent>>

\* A process ends; the answers it owes are never sent.
Lose(Q) ==
  /\ \A q \in Q : call[q] # NoCall /\ ~sent[q]
  /\ reply' = [q \in Requests |-> IF q \in Q THEN "lost" ELSE reply[q]]
  /\ sent' = [q \in Requests |-> IF q \in Q THEN TRUE ELSE sent[q]]
  /\ UNCHANGED <<trip, outbox, call, applied>>

Next ==
  \/ \E q \in Requests :
       Ask(q) \/ Succeed(q) \/ Show(q) \/ Refuse(q) \/ Fail(q) \/ Send(q) \/ LateEffect(q)
  \/ \E Q \in SUBSET Requests : Lose(Q)

Spec == Init /\ [][Next]_vars
=============================================================================
