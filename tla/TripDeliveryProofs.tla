------------------------- MODULE TripDeliveryProofs -------------------------
(***************************************************************************)
(* Theorems about TripDelivery, for any trips, clients, requests and       *)
(* consumers, however often an event is sent and however often consumers   *)
(* fail: a trip gets at most one notification, a true one, and a published *)
(* trip never loses its way to it.                                         *)
(*                                                                         *)
(* The argument goes along the way of an event.  A row of the outbox never *)
(* changes, and says what the trip and the request that published it say   *)
(* (EventInv); so all its messages are the same (True), whatever sends     *)
(* them; so the inbox knows them by their id (NotesInv); and the consumer  *)
(* that has the partition has processed all it has read (ConsumerInv).  No *)
(* stage is left before the next one is reached: a published trip has its  *)
(* event (EventInv), an event recorded as sent its message (SettledInv), a *)
(* message behind the offset its id in the inbox (OffsetInv), an id in the *)
(* inbox its notification (NotesInv).                                      *)
(***************************************************************************)
EXTENDS TripDelivery, FiniteSetTheorems, TLAPS

Rows == [status : {"absent", "draft", "published", "started"}, driver : Clients \cup {NoClient}]
OutboxRows == [driver : Clients \cup {NoClient}, company : Clients \cup {NoClient},
               cause : Requests \cup {NoRequest}]

\* A published trip has an event, which names the driver of the trip and the
\* request that published it.
EventInv(t) ==
  /\ trip[t].status \in {"published", "started"} => outbox[t] # Api!NoEvent
  /\ outbox[t] # Api!NoEvent =>
    /\ trip[t].status \in {"published", "started"}
    /\ outbox[t].driver \in Clients /\ trip[t].driver = outbox[t].driver
    /\ outbox[t].cause \in Requests
    /\ call[outbox[t].cause] = [op |-> "publish", trip |-> t, client |-> outbox[t].driver]

ApiInv ==
  /\ trip \in [Trips -> Rows]
  /\ outbox \in [Trips -> OutboxRows]
  /\ call \in [Requests -> Calls \cup {Api!NoCall}]
  /\ \A t \in Trips : EventInv(t)

\* A message of an event.
True(m) == m \in Messages /\ outbox[m.trip] # Api!NoEvent /\ m = Message(m.trip)

TopicInv ==
  /\ topic \in Seq(Messages)
  /\ \A i \in 1 .. Len(topic) : True(topic[i])

\* An event recorded as sent has its message.
SettledInv ==
  \A t \in settled : \E i \in 1 .. Len(topic) : topic[i].trip = t

\* A message that the group has left behind is in the inbox.
OffsetInv ==
  \A i \in 1 .. committed : topic[i].id \in inbox

\* The inbox holds the ids of the notifications, and a trip has one at most.
NotesInv ==
  /\ notes \in Seq(Messages)
  /\ \A id \in inbox : \E i \in 1 .. Len(notes) : notes[i].id = id
  /\ \A i \in 1 .. Len(notes) : True(notes[i]) /\ notes[i].id \in inbox
  /\ \A i, j \in 1 .. Len(notes) : notes[i].trip = notes[j].trip => i = j

\* The consumer that has the partition has processed what it has read, but for
\* the message in hand.
ConsumerInv(k) ==
  /\ consumer[k].pc \in {"fetched", "processed"} => consumer[k].position >= 1
  /\ owner = k =>
       /\ consumer[k].pc # "stopped"
       /\ \A i \in 1 .. consumer[k].position :
            i < consumer[k].position \/ consumer[k].pc # "fetched" => topic[i].id \in inbox

Inv ==
  /\ ApiInv /\ TypeOK /\ TopicInv /\ SettledInv /\ OffsetInv /\ NotesInv
  /\ \A k \in Consumers : ConsumerInv(k)

-----------------------------------------------------------------------------
LEMMA InvInit == Init => Inv
<1> SUFFICES ASSUME Init PROVE Inv
  OBVIOUS
<1> USE NamesAssumption DEF Init
<1>1. ApiInv
  <2>1. PICK d \in [Trips -> Clients \cup {NoClient}] :
          trip = [t \in Trips |-> IF d[t] = NoClient THEN Api!NoRow
                                  ELSE [status |-> "draft", driver |-> d[t]]]
    BY DEF Api!Init
  <2>2. trip \in [Trips -> Rows]
    BY <2>1 DEF Rows, Api!NoRow
  <2>3. outbox = [t \in Trips |-> Api!NoEvent] /\ call = [q \in Requests |-> Api!NoCall]
    BY DEF Api!Init
  <2>4. \A t \in Trips : trip[t].status \notin {"published", "started"}
    BY <2>1 DEF Api!NoRow
  <2> QED
    BY <2>2, <2>3, <2>4 DEF ApiInv, EventInv, OutboxRows, Api!NoEvent
<1>2. TypeOK
  BY DEF TypeOK
<1>3. TopicInv /\ SettledInv /\ OffsetInv /\ NotesInv
  BY DEF TopicInv, NotesInv, OffsetInv, SettledInv
<1>4. \A k \in Consumers : ConsumerInv(k)
  BY DEF ConsumerInv
<1> QED
  BY <1>1, <1>2, <1>3, <1>4 DEF Inv

-----------------------------------------------------------------------------
(* The API *)

\* A call that takes effect: the three effects on their trip.
LEMMA EffectStep ==
  ASSUME ApiInv, NEW q \in Requests, Api!TakeEffect(q)
  PROVE /\ ApiInv'
        /\ \A t \in Trips : outbox[t] # Api!NoEvent => outbox'[t] = outbox[t]
<1> DEFINE u == call[q].trip
           c == call[q].client
<1>1. /\ call' = call
      /\ Api!Create(q) \/ Api!Publish(q) \/ Api!Start(q)
  BY DEF Api!TakeEffect
<1>2. call[q] \in Calls /\ u \in Trips /\ c \in Clients
      /\ call[q] = [op |-> call[q].op, trip |-> u, client |-> c]
  <2>1. call[q].op # "none"
    BY <1>1 DEF Api!Create, Api!Publish, Api!Start
  <2>2. call[q] \in Calls
    BY <2>1 DEF ApiInv, Api!NoCall
  <2> QED
    BY <2>2, NamesAssumption
<1>3. ASSUME NEW s \in {"draft", "published", "started"}, Api!SetTrip(q, s, c)
      PROVE /\ trip' \in [Trips -> Rows]
            /\ trip'[u] = [status |-> s, driver |-> c]
            /\ \A t \in Trips : t # u => trip'[t] = trip[t]
  BY <1>2, <1>3 DEF Api!SetTrip, ApiInv, Rows
<1>4. CASE Api!Create(q)
  <2>1. Api!SetTrip(q, "draft", c) /\ outbox' = outbox /\ trip[u].status = "absent"
    BY <1>4 DEF Api!Create, Api!Row, Api!NoRow
  <2>2. outbox[u] = Api!NoEvent
    BY <2>1, <1>2 DEF ApiInv, EventInv
  <2>3. EventInv(u)'
    <3>1. trip'[u].status = "draft" /\ outbox'[u] = Api!NoEvent
      BY <1>3, <2>1, <2>2
    <3> QED
      BY <1>1, <3>1 DEF EventInv, Api!NoEvent
  <2>4. \A t \in Trips : t # u => EventInv(t)'
    BY <1>1, <1>3, <2>1 DEF EventInv, ApiInv
  <2> QED
    BY <1>1, <1>3, <2>1, <2>3, <2>4 DEF ApiInv
<1>5. CASE Api!Publish(q)
  <2>1. /\ Api!SetTrip(q, "published", c) /\ trip[u].status = "draft" /\ call[q].op = "publish"
        /\ outbox' = [outbox EXCEPT ![u] = [driver |-> c, company |-> c, cause |-> q]]
    BY <1>5 DEF Api!Publish, Api!Row
  <2>2. outbox[u] = Api!NoEvent
    BY <2>1, <1>2 DEF ApiInv, EventInv
  <2>3. /\ outbox' \in [Trips -> OutboxRows]
        /\ outbox'[u] = [driver |-> c, company |-> c, cause |-> q]
        /\ \A t \in Trips : t # u => outbox'[t] = outbox[t]
    BY <2>1, <1>2 DEF ApiInv, OutboxRows
  <2>4. EventInv(u)'
    <3>1. outbox'[u] # Api!NoEvent
      BY <1>2, <2>3, NamesAssumption DEF Api!NoEvent
    <3>2. trip'[u] = [status |-> "published", driver |-> c]
      BY <1>3, <2>1
    <3> QED
      BY <1>1, <1>2, <2>1, <2>3, <3>1, <3>2 DEF EventInv
  <2>5. \A t \in Trips : t # u => EventInv(t)'
    BY <1>1, <1>3, <2>1, <2>3 DEF EventInv, ApiInv
  <2> QED
    BY <1>1, <1>3, <2>1, <2>2, <2>3, <2>4, <2>5 DEF ApiInv
<1>6. CASE Api!Start(q)
  <2>1. /\ Api!SetTrip(q, "started", c) /\ outbox' = outbox
        /\ trip[u].driver = c /\ trip[u].status = "published"
    BY <1>6 DEF Api!Start, Api!Row
  <2>2. EventInv(u)'
    BY <1>1, <1>2, <1>3, <2>1 DEF EventInv, ApiInv
  <2>3. \A t \in Trips : t # u => EventInv(t)'
    BY <1>1, <1>3, <2>1 DEF EventInv, ApiInv
  <2> QED
    BY <1>1, <1>3, <2>1, <2>2, <2>3 DEF ApiInv
<1> QED
  BY <1>1, <1>4, <1>5, <1>6

LEMMA ApiStep ==
  ASSUME ApiInv, Api!Next
  PROVE /\ ApiInv'
        /\ \A t \in Trips : outbox[t] # Api!NoEvent => outbox'[t] = outbox[t]
<1>1. CASE \E q \in Requests : Api!Succeed(q) \/ Api!LateEffect(q)
  BY <1>1, EffectStep DEF Api!Succeed, Api!LateEffect
<1>2. CASE \E q \in Requests : Api!Ask(q)
  <2>1. PICK q \in Requests : Api!Ask(q)
    BY <1>2
  <2>2. /\ call' \in [Requests -> Calls \cup {Api!NoCall}] /\ trip' = trip /\ outbox' = outbox
        /\ \A r \in Requests : call[r] # Api!NoCall => call'[r] = call[r]
    BY <2>1 DEF Api!Ask, ApiInv
  <2>3. \A t \in Trips : EventInv(t)'
    BY <2>2 DEF ApiInv, EventInv, Api!NoCall
  <2> QED
    BY <2>2, <2>3 DEF ApiInv
<1>3. ASSUME UNCHANGED <<trip, outbox, call>> PROVE ApiInv' /\ outbox' = outbox
  BY <1>3 DEF ApiInv, EventInv
<1>4. CASE \E q \in Requests : Api!Show(q) \/ Api!Refuse(q) \/ Api!Fail(q) \/ Api!Send(q)
  BY <1>3, <1>4 DEF Api!Show, Api!Refuse, Api!Fail, Api!Send
<1>5. CASE \E Q \in SUBSET Requests : Api!Lose(Q)
  BY <1>3, <1>5 DEF Api!Lose
<1> QED
  BY <1>1, <1>2, <1>4, <1>5 DEF Api!Next

LEMMA ServeStep == ASSUME Inv, Serve PROVE Inv'
<1>1. /\ ApiInv'
      /\ \A t \in Trips : outbox[t] # Api!NoEvent => outbox'[t] = outbox[t]
      /\ UNCHANGED <<settled, topic, owner, consumer, committed, inbox, notes, faults>>
  BY ApiStep DEF Inv, Serve, notificationVars
<1>2. \A m \in Messages : True(m) => True(m)'
  BY <1>1 DEF True, Messages, Message, EventId
<1>3. TypeOK' /\ OffsetInv' /\ SettledInv'
  BY <1>1 DEF Inv, TypeOK, OffsetInv, SettledInv
<1>4. TopicInv'
  <2>1. \A i \in 1 .. Len(topic) : topic[i] \in Messages
    BY DEF Inv, TopicInv
  <2> QED
    BY <1>1, <1>2, <2>1 DEF Inv, TopicInv
<1>5. NotesInv'
  <2>1. \A i \in 1 .. Len(notes) : notes[i] \in Messages
    BY DEF Inv, NotesInv
  <2> QED
    BY <1>1, <1>2, <2>1 DEF Inv, NotesInv
<1>6. \A k \in Consumers : ConsumerInv(k)'
  BY <1>1 DEF Inv, ConsumerInv
<1> QED
  BY <1>1, <1>3, <1>4, <1>5, <1>6 DEF Inv

-----------------------------------------------------------------------------
(* The topic *)

\* The event of a row is a message, and a true one.
LEMMA MessageIsTrue ==
  ASSUME ApiInv, NEW t \in Trips, outbox[t] # Api!NoEvent
  PROVE Message(t) \in Messages /\ True(Message(t))
<1>1. outbox[t].driver \in Clients /\ outbox[t].cause \in Requests
  BY DEF ApiInv, EventInv
<1> QED
  BY <1>1 DEF Message, Messages, EventId, True

\* The id of a message names its trip.
LEMMA IdNamesTrip ==
  ASSUME NEW m, True(m) PROVE m.id = <<m.trip, "TripPublished">>
<1>1. m = Message(m.trip)
  BY DEF True
<1>2. Message(m.trip).id = EventId(m.trip)
  BY DEF Message
<1> QED
  BY <1>1, <1>2 DEF EventId

\* More messages at the end of the topic disturb nobody.
LEMMA SendStep == ASSUME Inv, NEW t \in Trips, Send(t) PROVE Inv'
<1>1. PICK n \in 1 .. WriterAttempts : topic' = topic \o [i \in 1 .. n |-> Message(t)]
  BY DEF Send
<1>2. outbox[t] # Api!NoEvent
  BY DEF Send, Status
<1>3. UNCHANGED <<trip, outbox, call, settled, owner, consumer, committed, inbox, notes, faults>>
  BY DEF Send, apiVars, notificationVars
<1>4. Message(t) \in Messages /\ True(Message(t))
  BY <1>2, MessageIsTrue DEF Inv
<1>5. topic \in Seq(Messages) /\ Len(topic) \in Nat
  BY DEF Inv, TopicInv
<1> DEFINE new == [i \in 1 .. n |-> Message(t)]
<1>6. new \in Seq(Messages) /\ Len(new) = n /\ \A i \in 1 .. n : new[i] = Message(t)
  BY <1>1, <1>4
<1> HIDE DEF new
<1>7. /\ topic' \in Seq(Messages)
      /\ Len(topic') = Len(topic) + n
      /\ \A i \in 1 .. Len(topic) : topic'[i] = topic[i]
      /\ \A i \in 1 .. Len(topic') : i > Len(topic) => topic'[i] = Message(t)
  BY <1>1, <1>5, <1>6 DEF new
<1>8. \A m : True(m) => True(m)'
  BY <1>3 DEF True, Message
<1>9. TopicInv'
  BY <1>4, <1>5, <1>7, <1>8 DEF Inv, TopicInv
<1>10. /\ committed \in 0 .. Len(topic)
       /\ \A k \in Consumers : consumer[k].position \in 0 .. Len(topic)
  BY DEF Inv, TypeOK
<1>11. consumer' \in [Consumers -> [pc : {"ready", "fetched", "processed", "stopped"},
                                   position : 0 .. Len(topic')]]
  <2>1. 0 .. Len(topic) \subseteq 0 .. Len(topic')
    BY <1>5, <1>7
  <2> QED
    BY <1>3, <2>1 DEF Inv, TypeOK
<1>12. TypeOK'
  <2>1. committed' \in 0 .. Len(topic')
    BY <1>3, <1>5, <1>7, <1>10
  <2> QED
    BY <1>3, <1>7, <1>11, <2>1 DEF Inv, TypeOK
<1>13. OffsetInv' /\ SettledInv'
  <2>1. OffsetInv'
    BY <1>3, <1>5, <1>7, <1>10 DEF Inv, OffsetInv
  <2>2. SettledInv'
    BY <1>1, <1>3, <1>5, <1>7 DEF Inv, SettledInv
  <2> QED
    BY <2>1, <2>2
<1>14. \A k \in Consumers : ConsumerInv(k)'
  <2> TAKE k \in Consumers
  <2>1. consumer[k].position \in 0 .. Len(topic) /\ ConsumerInv(k)
    BY <1>10 DEF Inv
  <2> QED
    BY <1>3, <1>5, <1>7, <2>1 DEF ConsumerInv
<1>15. ApiInv' /\ NotesInv'
  <2>1. ApiInv'
    BY <1>3 DEF Inv, ApiInv, EventInv
  <2>2. NotesInv'
    BY <1>3, <1>8 DEF Inv, NotesInv
  <2> QED
    BY <2>1, <2>2
<1> QED
  BY <1>9, <1>12, <1>13, <1>14, <1>15 DEF Inv

\* What is recorded as sent has a message: the outbox promises it.
LEMMA SettleStep == ASSUME Inv, NEW t \in Trips, Settle(t) PROVE Inv'
<1>1. /\ settled' = settled \cup {t}
      /\ UNCHANGED <<trip, outbox, call, topic, owner, consumer, committed, inbox, notes, faults>>
  BY DEF Settle, apiVars, notificationVars
<1> DEFINE sends == {i \in 1 .. Len(topic) : topic[i].trip = t}
<1>2. Cardinality(sends) > 0
  BY DEF Settle, Delivery!Settle, SendsOf
<1>3. sends # {}
  BY <1>2, FS_EmptySet
<1>4. SettledInv'
  BY <1>1, <1>3 DEF Inv, SettledInv
<1> QED
  BY <1>1, <1>4 DEF Inv, ApiInv, EventInv, TypeOK, TopicInv, NotesInv, True, Message, OffsetInv,
    ConsumerInv

-----------------------------------------------------------------------------
(* The consumers *)

\* A step of a consumer leaves the API and the topic alone.
LEMMA ConsumerStep ==
  ASSUME Inv, NEW k \in Consumers, Consume(k) \/ Fault(k)
  PROVE ApiInv' /\ TopicInv' /\ UNCHANGED <<trip, outbox, call, settled, topic>>
<1>1. UNCHANGED <<trip, outbox, call, settled, topic>>
  BY DEF Consume, Fault, Take, Assign, Fetch, Process, Commit, Fenced, Restart, Stop, apiVars
<1> QED
  BY <1>1 DEF Inv, ApiInv, EventInv, TopicInv, True, Message

\* What all of Inv that is not about the consumer in question needs.
LEMMA Frame ==
  ASSUME Inv, NEW k \in Consumers, Consume(k) \/ Fault(k),
         UNCHANGED <<inbox, notes>>,
         committed' = committed,
         NEW c \in [pc : {"ready", "fetched", "processed", "stopped"}, position : 0 .. Len(topic)],
         consumer' = [consumer EXCEPT ![k] = c],
         owner' \in Consumers \cup {NoConsumer},
         \A l \in Consumers \ {k} : owner' = l => owner = l,
         ConsumerInv(k)'
  PROVE Inv'
<1>1. ApiInv' /\ TopicInv' /\ UNCHANGED <<trip, outbox, call, settled, topic>>
  BY ConsumerStep
<1>2. consumer \in [Consumers ->
        [pc : {"ready", "fetched", "processed", "stopped"}, position : 0 .. Len(topic)]]
  BY DEF Inv, TypeOK
<1>3. TypeOK'
  BY <1>1, <1>2 DEF Inv, TypeOK
<1>4. NotesInv' /\ OffsetInv' /\ SettledInv'
  BY <1>1 DEF Inv, NotesInv, OffsetInv, SettledInv, True, Message
<1>5. \A l \in Consumers : ConsumerInv(l)'
  BY <1>1, <1>2 DEF Inv, ConsumerInv
<1> QED
  BY <1>1, <1>3, <1>4, <1>5 DEF Inv

LEMMA PositionType ==
  ASSUME Inv, NEW k \in Consumers
  PROVE /\ consumer[k] \in [pc : {"ready", "fetched", "processed", "stopped"},
                            position : 0 .. Len(topic)]
        /\ consumer[k].position \in Nat /\ consumer[k].position <= Len(topic)
        /\ Len(topic) \in Nat
        /\ committed \in 0 .. Len(topic)
        /\ k \in DOMAIN consumer
BY DEF Inv, TypeOK

LEMMA AssignStep == ASSUME Inv, NEW k \in Consumers, Take(k) \/ (Fault(k) /\ Assign(k)) PROVE Inv'
<1>1. Assign(k)
  BY DEF Take
<1> DEFINE c == [pc |-> "ready", position |-> committed]
<1>2. /\ consumer' = [consumer EXCEPT ![k] = c] /\ owner' = k /\ At(k, "ready")
      /\ UNCHANGED <<committed, inbox, notes, topic>>
  <2>1. consumer[k].pc = "ready" /\ consumer[k] = [pc |-> "ready", position |-> consumer[k].position]
    BY <1>1, PositionType DEF Assign, At
  <2>2. [consumer[k] EXCEPT !.position = committed] = c
    BY <2>1
  <2> QED
    BY <1>1, <2>1, <2>2 DEF Assign
<1>3. c \in [pc : {"ready", "fetched", "processed", "stopped"}, position : 0 .. Len(topic)]
  BY PositionType
<1>4. consumer'[k] = c
  BY <1>2, PositionType
<1>5. ConsumerInv(k)'
  BY <1>2, <1>4 DEF ConsumerInv, Inv, OffsetInv
<1>6. Consume(k) \/ Fault(k)
  BY DEF Consume
<1> HIDE DEF c
<1> QED
  BY <1>2, <1>3, <1>5, <1>6, Frame, NamesAssumption

LEMMA FetchStep == ASSUME Inv, NEW k \in Consumers, Fetch(k) PROVE Inv'
<1> DEFINE c == [pc |-> "fetched", position |-> consumer[k].position + 1]
<1>1. /\ consumer' = [consumer EXCEPT ![k] = c] /\ owner = k /\ owner' = owner /\ At(k, "ready")
      /\ consumer[k].position < Len(topic)
      /\ UNCHANGED <<committed, inbox, notes, topic>>
  BY DEF Fetch
<1>2. c \in [pc : {"ready", "fetched", "processed", "stopped"}, position : 0 .. Len(topic)]
  BY <1>1, PositionType
<1>3. consumer'[k] = c
  BY <1>1, PositionType
<1>4. \A i \in 1 .. consumer[k].position : topic[i].id \in inbox
  BY <1>1 DEF Inv, ConsumerInv, At
<1>5. ConsumerInv(k)'
  BY <1>1, <1>3, <1>4, PositionType DEF ConsumerInv
<1>6. Consume(k) \/ Fault(k)
  BY DEF Consume
<1> HIDE DEF c
<1> QED
  BY <1>1, <1>2, <1>5, <1>6, Frame, NamesAssumption DEF Inv, TypeOK

\* A consumer stops, restarts, or finds the partition gone.
LEMMA StopStep ==
  ASSUME Inv, NEW k \in Consumers, Fenced(k) \/ Restart(k) \/ (Fault(k) /\ Stop(k))
  PROVE Inv'
<1> DEFINE c == [consumer[k] EXCEPT !.pc = IF At(k, "stopped") THEN "ready" ELSE "stopped"]
<1>1. /\ consumer' = [consumer EXCEPT ![k] = c]
      /\ UNCHANGED <<committed, inbox, notes, topic>>
  BY DEF Fenced, Restart, Stop, Goto, At
<1>2. owner' # k /\ owner' \in {owner, NoConsumer}
  BY NamesAssumption DEF Fenced, Restart, Stop, At, Inv, ConsumerInv
<1>3. /\ c \in [pc : {"ready", "fetched", "processed", "stopped"}, position : 0 .. Len(topic)]
      /\ c.pc \in {"ready", "stopped"}
  BY PositionType
<1>4. consumer'[k] = c
  BY <1>1, PositionType
<1>5. ConsumerInv(k)'
  BY <1>2, <1>3, <1>4 DEF ConsumerInv
<1>6. Consume(k) \/ Fault(k)
  BY DEF Consume
<1> HIDE DEF c
<1> QED
  BY <1>1, <1>2, <1>3, <1>5, <1>6, Frame, NamesAssumption DEF Inv, TypeOK

\* The inbox tells a new message from one that was processed before.
LEMMA ProcessStep == ASSUME Inv, NEW k \in Consumers, Process(k) PROVE Inv'
<1> DEFINE p == consumer[k].position
           m == topic[p]
<1>1. /\ consumer' = [consumer EXCEPT ![k].pc = "processed"] /\ At(k, "fetched")
      /\ owner' = owner /\ committed' = committed
      /\ inbox' = inbox \cup {m.id}
      /\ notes' = IF m.id \in inbox THEN notes ELSE Append(notes, m)
  BY DEF Process, Goto, InHand
<1>2. ApiInv' /\ TopicInv' /\ UNCHANGED <<trip, outbox, call, settled, topic>>
  BY ConsumerStep DEF Consume
<1>3. p \in 1 .. Len(topic)
  BY <1>1, PositionType DEF Inv, ConsumerInv, At
<1>4. True(m) /\ m \in Messages
  BY <1>3 DEF Inv, TopicInv, True
<1>5. consumer' \in [Consumers ->
        [pc : {"ready", "fetched", "processed", "stopped"}, position : 0 .. Len(topic)]]
  BY <1>1 DEF Inv, TypeOK
<1>6. notes \in Seq(Messages) /\ m.id \in Trips \X {"TripPublished"}
  BY <1>4 DEF Inv, NotesInv, Messages
<1>7. TypeOK'
  BY <1>1, <1>2, <1>4, <1>5, <1>6 DEF Inv, TypeOK
<1>8. \A n : True(n) => True(n)'
  BY <1>2 DEF True, Message
<1>9. NotesInv'
  <2>1. CASE m.id \in inbox
    BY <1>1, <1>8, <2>1 DEF Inv, NotesInv
  <2>2. CASE m.id \notin inbox
    <3>1. /\ notes' \in Seq(Messages) /\ Len(notes') = Len(notes) + 1 /\ Len(notes) \in Nat
          /\ \A i \in 1 .. Len(notes) : notes'[i] = notes[i]
          /\ notes'[Len(notes) + 1] = m
      BY <1>1, <1>4, <1>6, <2>2
    <3>2. \A i \in 1 .. Len(notes) : True(notes[i]) /\ notes[i].id \in inbox
      BY DEF Inv, NotesInv
    <3>3. \A i \in 1 .. Len(notes) : notes[i].trip # m.trip
      <4> TAKE i \in 1 .. Len(notes)
      <4>2. notes[i].id = <<notes[i].trip, "TripPublished">> /\ m.id = <<m.trip, "TripPublished">>
        BY <1>4, <3>2, IdNamesTrip
      <4>3. notes[i].id # m.id
        BY <2>2, <3>2
      <4> QED
        BY <4>2, <4>3
    <3>4. \A i \in 1 .. Len(notes') :
            notes'[i].id \in inbox' /\ True(notes[i])'
      <4> TAKE i \in 1 .. Len(notes')
      <4>1. ASSUME NEW n, True(n), notes'[i] = n PROVE True(notes[i])'
        BY <1>2, <4>1 DEF True, Message
      <4>2. CASE i \in 1 .. Len(notes)
        BY <1>1, <3>1, <3>2, <4>1, <4>2
      <4>3. CASE i = Len(notes) + 1
        BY <1>1, <1>4, <3>1, <4>1, <4>3
      <4> QED
        BY <3>1, <4>2, <4>3
    <3>5. \A i, j \in 1 .. Len(notes) : notes[i].trip = notes[j].trip => i = j
      BY DEF Inv, NotesInv
    <3>6. \A i, j \in 1 .. Len(notes') : notes'[i].trip = notes'[j].trip => i = j
      BY <3>1, <3>3, <3>5
    <3>7. \A id \in inbox' : \E i \in 1 .. Len(notes') : notes'[i].id = id
      <4> TAKE id \in inbox'
      <4>1. CASE id \in inbox
        BY <3>1, <4>1 DEF Inv, NotesInv
      <4>2. CASE id = m.id
        BY <3>1, <4>2
      <4> QED
        BY <1>1, <4>1, <4>2
    <3> QED
      BY <3>1, <3>4, <3>6, <3>7 DEF NotesInv
  <2> QED
    BY <2>1, <2>2
<1>10. OffsetInv' /\ SettledInv'
  BY <1>1, <1>2 DEF Inv, OffsetInv, SettledInv
<1>11. \A l \in Consumers : ConsumerInv(l)'
  <2> TAKE l \in Consumers
  <2>1. CASE l = k
    <3>1. consumer'[k].pc = "processed" /\ consumer'[k].position = p
      BY <1>1, PositionType
    <3>2. owner = k => \A i \in 1 .. p : i < p => topic[i].id \in inbox
      BY DEF Inv, ConsumerInv
    <3> QED
      BY <1>1, <1>2, <1>3, <2>1, <3>1, <3>2 DEF ConsumerInv
  <2>2. CASE l # k
    BY <1>1, <1>2, <2>2, PositionType DEF Inv, ConsumerInv
  <2> QED
    BY <2>1, <2>2
<1> QED
  BY <1>2, <1>7, <1>9, <1>10, <1>11 DEF Inv

\* The offset follows what the consumer has processed.
LEMMA CommitStep == ASSUME Inv, NEW k \in Consumers, Commit(k) PROVE Inv'
<1>1. /\ consumer' = [consumer EXCEPT ![k].pc = "ready"] /\ At(k, "processed")
      /\ owner = k /\ owner' = owner /\ committed' = consumer[k].position
      /\ UNCHANGED <<inbox, notes>>
  BY DEF Commit, Goto
<1>2. ApiInv' /\ TopicInv' /\ UNCHANGED <<trip, outbox, call, settled, topic>>
  BY ConsumerStep DEF Consume
<1>3. \A i \in 1 .. consumer[k].position : topic[i].id \in inbox
  BY <1>1 DEF Inv, ConsumerInv, At
<1>4. consumer' \in [Consumers ->
        [pc : {"ready", "fetched", "processed", "stopped"}, position : 0 .. Len(topic)]]
  BY <1>1 DEF Inv, TypeOK
<1>5. TypeOK'
  BY <1>1, <1>2, <1>4, PositionType DEF Inv, TypeOK
<1>6. NotesInv' /\ OffsetInv' /\ SettledInv'
  BY <1>1, <1>2, <1>3 DEF Inv, NotesInv, True, Message, OffsetInv, SettledInv
<1>7. \A l \in Consumers : ConsumerInv(l)'
  <2> TAKE l \in Consumers
  <2>1. CASE l = k
    <3>1. consumer'[k].pc = "ready" /\ consumer'[k].position = consumer[k].position
      BY <1>1, PositionType
    <3> QED
      BY <1>1, <1>2, <1>3, <2>1, <3>1 DEF ConsumerInv
  <2>2. CASE l # k
    BY <1>1, <1>2, <2>2, PositionType DEF Inv, ConsumerInv
  <2> QED
    BY <2>1, <2>2
<1> QED
  BY <1>2, <1>5, <1>6, <1>7 DEF Inv

-----------------------------------------------------------------------------
(* The theorems *)

LEMMA InvNext == ASSUME Inv, [Next]_vars PROVE Inv'
<1>1. CASE UNCHANGED vars
  BY <1>1 DEF vars, apiVars, notificationVars, Inv, ApiInv, EventInv, TypeOK, TopicInv, NotesInv,
    True, Message, OffsetInv, SettledInv, ConsumerInv
<1>2. CASE \E k \in Consumers : Consume(k) \/ Fault(k)
  <2>1. PICK k \in Consumers : Consume(k) \/ Fault(k)
    BY <1>2
  <2>2. CASE Consume(k)
    BY <2>2, AssignStep, FetchStep, ProcessStep, CommitStep, StopStep DEF Consume
  <2>3. CASE Fault(k)
    <3>1. (Fault(k) /\ Stop(k)) \/ (Fault(k) /\ Assign(k))
      BY <2>3 DEF Fault
    <3> QED
      BY <3>1, AssignStep, StopStep
  <2> QED
    BY <2>1, <2>2, <2>3
<1> QED
  BY <1>1, <1>2, ServeStep, SendStep, SettleStep DEF Next

LEMMA SpecInv == Spec => []Inv
<1>1. Inv /\ [Next]_vars => Inv'
  BY InvNext
<1> QED
  BY InvInit, <1>1, PTL DEF Spec

\* The topic holds events of trips, the inbox ids of events, and the offsets stay
\* within the topic.
THEOREM TypeCorrect == Spec => []TypeOK
<1>1. Inv => TypeOK
  BY DEF Inv
<1> QED
  BY SpecInv, <1>1, PTL

\* For any number of requests, sends, consumers and failures, a trip gets at most
\* one notification, of its publication and with its driver (publish_trip.go,
\* newEventID and the event; docs/consistency.md, the inbox).
THEOREM NotificationsAreTrue == Spec => []OneTrueNotification
<1>1. Inv => OneTrueNotification
  <2> SUFFICES ASSUME Inv PROVE OneTrueNotification
    OBVIOUS
  <2>1. ASSUME NEW i \in 1 .. Len(notes)
        PROVE LET n == notes[i] IN
                /\ trip[n.trip].status \in {"published", "started"}
                /\ trip[n.trip].driver = n.driver
                /\ call[n.cause] = [op |-> "publish", trip |-> n.trip, client |-> n.driver]
    <3>1. True(notes[i])
      BY <2>1 DEF Inv, NotesInv
    <3> DEFINE t == notes[i].trip
    <3>2. t \in Trips /\ outbox[t] # Api!NoEvent
          /\ notes[i].driver = outbox[t].driver /\ notes[i].cause = outbox[t].cause
      BY <3>1 DEF True, Messages, Message
    <3>3. EventInv(t)
      BY <3>2 DEF Inv, ApiInv
    <3> QED
      BY <3>2, <3>3 DEF EventInv
  <2> QED
    BY <2>1 DEF Inv, NotesInv, OneTrueNotification
<1> QED
  BY SpecInv, <1>1, PTL

\* For any number of requests, sends, consumers and failures, the notification of
\* a published trip stays in reach (publish_trip.go, newEventID; update_status.go,
\* "sent" only after the send).
THEOREM NotificationsStayInReach == Spec => []NotificationStaysInReach
<1>1. Inv => NotificationStaysInReach
  <2> SUFFICES ASSUME Inv, NEW t \in Trips, trip[t].status \in {"published", "started"},
                      Status(t) # "pending",
                      \A i \in committed + 1 .. Len(topic) : topic[i].trip # t
               PROVE  \E i \in 1 .. Len(notes) : notes[i].trip = t
    BY DEF NotificationStaysInReach
  <2>1. outbox[t] # Api!NoEvent
    BY DEF Inv, ApiInv, EventInv
  <2>2. PICK i \in 1 .. Len(topic) : topic[i].trip = t
    BY <2>1 DEF Status, Inv, SettledInv
  <2>3. i \in 1 .. committed
    BY <2>2 DEF Inv, TypeOK, TopicInv
  <2>4. PICK j \in 1 .. Len(notes) : notes[j].id = topic[i].id
    BY <2>3 DEF Inv, OffsetInv, NotesInv
  <2>5. True(topic[i]) /\ True(notes[j])
    BY DEF Inv, TopicInv, NotesInv
  <2>6. topic[i].id = <<t, "TripPublished">> /\ notes[j].id = <<notes[j].trip, "TripPublished">>
    BY <2>2, <2>5, IdNamesTrip
  <2> QED
    BY <2>4, <2>6
<1> QED
  BY SpecInv, <1>1, PTL
=============================================================================
