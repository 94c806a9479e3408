---------------------------- MODULE TripDelivery ----------------------------
(***************************************************************************)
(* From the publication of a trip to the notification about it: the trip   *)
(* API as TripLifecycle promises it, the outbox as OutboxDelivery promises *)
(* it, the topic trip.events between them and the Notification Service,    *)
(* and the consumers of that service.  TripService and OutboxPublisher     *)
(* implement the two promises; here they are composed.                     *)
(*                                                                         *)
(* The Notification Service is external: its inbox, its offsets and its    *)
(* failures are modelled from what docs/consistency.md and                 *)
(* docs/microservices-review.md say of it.  The topic has one partition,   *)
(* as README.md creates it.  A message keeps what the notification depends *)
(* on; correlation id, trace and time are left out.                        *)
(***************************************************************************)
EXTENDS Naturals, Sequences, FiniteSets

CONSTANTS
  Trips, Clients, Requests, Calls, NoClient, NoRequest,
  Consumers,   \* replicas of the Notification Service, one consumer group
  NoConsumer,
  WriterAttempts,  \* how often the writer sends within one call
  MaxSends,    \* bound: how often one event is sent to the topic
  MaxFaults    \* bound: failures of consumers and reassignments of the partition

ASSUME NamesAssumption ==
  /\ Calls \subseteq [op : {"create", "get", "publish", "start"}, trip : Trips, client : Clients]
  /\ NoClient \notin Clients /\ NoRequest \notin Requests /\ NoConsumer \notin Consumers
  /\ MaxSends \in Nat /\ MaxFaults \in Nat /\ WriterAttempts \in Nat \ {0}

VARIABLES
  trip, outbox, call, reply, sent, applied,  \* the API, see TripLifecycle
  settled,    \* trips whose event is recorded as sent
  topic,      \* the log of trip.events
  owner,      \* the consumer that has the partition
  consumer,   \* pc and position of each consumer
  committed,  \* the offset of the consumer group
  inbox,      \* the processed_events of the Notification Service
  notes,      \* the notifications created
  faults

apiVars == <<trip, outbox, call, reply, sent, applied>>
notificationVars == <<owner, consumer, committed, inbox, notes, faults>>
vars == <<apiVars, settled, topic, notificationVars>>

-----------------------------------------------------------------------------
(* ShareTrip *)

Api == INSTANCE TripLifecycle

\* The event id is computed from the trip and the type.
\* Mutants: it is a new one every time; it is computed from the type alone.
FreshEventId(t) == <<t, Len(topic)>>
EventIdOfType(t) == <<CHOOSE u \in Trips : TRUE, "TripPublished">>
EventId(t) == <<t, "TripPublished">>

\* The row's payload, unchanged: whose trip, and which request published it.
Message(t) ==
  [id |-> EventId(t), trip |-> t, driver |-> outbox[t].driver, cause |-> outbox[t].cause]

SendsOf(t) == Cardinality({i \in 1 .. Len(topic) : topic[i].trip = t})

Status(t) == IF outbox[t] = Api!NoEvent THEN "none"
             ELSE IF t \in settled THEN "sent" ELSE "pending"

Delivery == INSTANCE OutboxDelivery
  WITH Events <- Trips, Legacy <- {}, Poison <- {},
       status <- [t \in Trips |-> Status(t)],
       attempts <- [t \in Trips |-> 0],
       kafka <- [t \in Trips |-> SendsOf(t)]

\* A call of the API.  The event of a published trip enters the outbox with it.
Serve ==
  /\ Api!Next
  /\ UNCHANGED <<settled, topic, notificationVars>>

\* Mutant: an event of a trip that is not yet published is sent.
SendsUncommitted(t) ==
  /\ \E n \in 1 .. WriterAttempts :
       /\ SendsOf(t) + n <= MaxSends
       /\ topic' = topic \o [i \in 1 .. n |-> Message(t)]
  /\ UNCHANGED <<apiVars, settled, notificationVars>>
Send(t) ==
  /\ Status(t) # "none"
  /\ \E n \in 1 .. WriterAttempts :
       /\ SendsOf(t) + n <= MaxSends
       /\ topic' = topic \o [i \in 1 .. n |-> Message(t)]
  /\ UNCHANGED <<apiVars, settled, notificationVars>>
  /\ Delivery!Deliver(t)

\* Mutant: the result of a failed send is recorded as "sent".
SettlesUnsent(t) ==
  /\ Status(t) = "pending"
  /\ settled' = settled \cup {t}
  /\ UNCHANGED <<apiVars, topic, notificationVars>>
Settle(t) ==
  /\ t \notin settled
  /\ settled' = settled \cup {t}
  /\ UNCHANGED <<apiVars, topic, notificationVars>>
  /\ Delivery!Settle({t}, {})

-----------------------------------------------------------------------------
(* The Notification Service *)

At(k, pc) == consumer[k].pc = pc
Goto(k, pc) == consumer' = [consumer EXCEPT ![k].pc = pc]
InHand(k) == topic[consumer[k].position]

\* The group gives the partition to k, which reads on from the committed offset.
Assign(k) ==
  /\ owner # k /\ At(k, "ready")
  /\ owner' = k
  /\ consumer' = [consumer EXCEPT ![k].position = committed]
  /\ UNCHANGED <<apiVars, settled, topic, committed, inbox, notes>>

Take(k) ==
  /\ owner = NoConsumer /\ Assign(k)
  /\ UNCHANGED faults

Fetch(k) ==
  /\ owner = k /\ At(k, "ready")
  /\ consumer[k].position < Len(topic)
  /\ consumer' = [consumer EXCEPT ![k] = [pc |-> "fetched", position |-> @.position + 1]]
  /\ UNCHANGED <<apiVars, settled, topic, owner, committed, inbox, notes, faults>>

\* One transaction: the event id enters the inbox, and if it is new there is a
\* notification.
Process(k) ==
  /\ At(k, "fetched")
  /\ notes' = IF InHand(k).id \in inbox THEN notes ELSE Append(notes, InHand(k))
  /\ inbox' = inbox \cup {InHand(k).id}
  /\ Goto(k, "processed")
  /\ UNCHANGED <<apiVars, settled, topic, owner, committed, faults>>

\* The offset is committed after the transaction.
Commit(k) ==
  /\ owner = k /\ At(k, "processed")
  /\ committed' = consumer[k].position
  /\ Goto(k, "ready")
  /\ UNCHANGED <<apiVars, settled, topic, owner, inbox, notes, faults>>

\* A consumer that lost the partition cannot commit its offset, and stops.
Fenced(k) ==
  /\ owner # k /\ At(k, "processed")
  /\ Goto(k, "stopped")
  /\ UNCHANGED <<apiVars, settled, topic, owner, committed, inbox, notes, faults>>

\* The database, the commit of the offset or the whole process fails: the
\* consumer stops with its message unprocessed, or processed and not committed.
Stop(k) ==
  /\ ~At(k, "stopped")
  /\ Goto(k, "stopped")
  /\ owner' = IF owner = k THEN NoConsumer ELSE owner
  /\ UNCHANGED <<apiVars, settled, topic, committed, inbox, notes>>

Restart(k) ==
  /\ At(k, "stopped")
  /\ Goto(k, "ready")
  /\ UNCHANGED <<apiVars, settled, topic, owner, committed, inbox, notes, faults>>

Fault(k) ==
  /\ faults < MaxFaults /\ faults' = faults + 1
  /\ Stop(k) \/ (owner # NoConsumer /\ Assign(k))

-----------------------------------------------------------------------------
Init ==
  /\ Api!Init
  /\ settled = {} /\ topic = <<>>
  /\ owner = NoConsumer
  /\ consumer = [k \in Consumers |-> [pc |-> "ready", position |-> 0]]
  /\ committed = 0 /\ inbox = {} /\ notes = <<>> /\ faults = 0

Consume(k) ==
  Take(k) \/ Fetch(k) \/ Process(k) \/ Commit(k) \/ Fenced(k) \/ Restart(k)

Next ==
  \/ Serve
  \/ \E t \in Trips : Send(t) \/ Settle(t)
  \/ \E k \in Consumers : Consume(k) \/ Fault(k)

\* A pending event does not stay pending for ever, and is not recorded as sent
\* before it was sent: PendingIsSent and SentImpliesDelivered of OutboxPublisher.
\* A consumer goes on with what it does, and one that stopped is restarted.
Fairness ==
  /\ \A t \in Trips : WF_vars(Status(t) = "pending" /\ Send(t))
  /\ \A k \in Consumers : WF_vars(Consume(k))

Spec == Init /\ [][Next]_vars /\ Fairness

-----------------------------------------------------------------------------
(* Properties *)

Messages == [id : Trips \X {"TripPublished"}, trip : Trips,
             driver : Clients, cause : Requests]

TypeOK ==
  /\ settled \subseteq Trips
  /\ topic \in Seq(Messages)
  /\ owner \in Consumers \cup {NoConsumer}
  /\ consumer \in [Consumers ->
       [pc : {"ready", "fetched", "processed", "stopped"}, position : 0 .. Len(topic)]]
  /\ committed \in 0 .. Len(topic)
  /\ inbox \subseteq Trips \X {"TripPublished"}
  /\ notes \in Seq(Messages)

\* However often an event is sent, received and processed, by however many
\* consumers at a time, a trip gets at most one notification; it gets none
\* before its publication is committed, and the notification names the driver
\* the trip has and a request of that driver to publish that trip.
OneTrueNotification ==
  /\ \A i, j \in 1 .. Len(notes) : notes[i].trip = notes[j].trip => i = j
  /\ \A i \in 1 .. Len(notes) : LET n == notes[i] IN
       /\ trip[n.trip].status \in {"published", "started"}
       /\ trip[n.trip].driver = n.driver
       /\ call[n.cause] = [op |-> "publish", trip |-> n.trip, client |-> n.driver]

\* A published trip can still get its notification, whatever ShareTrip has done
\* with its event and whoever has stopped: the event is pending, or a message of
\* it lies ahead of the offset of the group, or the notification is there.  An
\* event recorded as sent without a message is lost, and so is one whose id is
\* taken for that of another trip.
NotificationStaysInReach ==
  \A t \in Trips :
    trip[t].status \in {"published", "started"} =>
      \/ Status(t) = "pending"
      \/ \E i \in committed + 1 .. Len(topic) : topic[i].trip = t
      \/ \E i \in 1 .. Len(notes) : notes[i].trip = t

\* Every published trip gets its notification, also when its event is sent more
\* than once, processed again after a failure, or taken over by another consumer.
EveryPublishedTripIsNotified ==
  \A t \in Trips :
    trip[t].status = "published" ~> \E i \in 1 .. Len(notes) : notes[i].trip = t
=============================================================================
