---------------------------- MODULE TripApiProofs ----------------------------
(***************************************************************************)
(* Theorems about TripApi, for any number of requests and any widths of    *)
(* the integers.                                                           *)
(*                                                                         *)
(* What the properties say of the requests answered is carried along the   *)
(* chain by the request in hand: ChainInv says what it has been let        *)
(* through for, and what it will be counted and answered as.               *)
(***************************************************************************)
EXTENDS TripApi, TLAPS

RequestSet == [target : Targets \cup {"none"}, method : {"GET", "POST", "none"},
               user : Users \cup {Nobody}, seats : Int]
Labels == {"none", "success", "not_found", "forbidden", "conflict", "already_published",
           "validation_error", "internal_error"}
AnswerSet == [request : RequestSet, claims : Users \cup {Nobody},
              call : TripCalls \cup {NoCall}, label : Labels,
              unwritable : BOOLEAN, status : Statuses]
CountSet == [method : {"GET", "POST"}, path : Targets \cup {"/trip", "unmatched"},
             status : Statuses]
TripSet == [by : Nat, seats : 1 .. Int4Max]

Types ==
  /\ pc \in {"idle", "auth", "role", "handler", "service", "count", "answer"}
  /\ request \in RequestSet
  /\ claims \in Users \cup {Nobody}
  /\ call \in TripCalls \cup {NoCall}
  /\ label \in Labels
  /\ written \in Statuses
  /\ err \in {0, OtherError, 401, 403, 404, 405}
  /\ counted \in Seq(CountSet)
  /\ stored \in Seq(TripSet)
  /\ answered \in Seq(AnswerSet)
  /\ Len(counted) = Len(answered) + (IF pc = "answer" THEN 1 ELSE 0)

\* The parts of the properties that are about one request.
Authorized(a) ==
  /\ a.call # NoCall => /\ a.claims = a.request.user /\ a.claims # Nobody
                        /\ a.call \in {"create", "get"} => a.request.user.client
                        /\ a.call # "get" => a.request.user.uuid
  /\ InTripGroup(a.request.target) /\ a.claims = Nobody => a.status = 401
  /\ a.claims # Nobody =>
       /\ NeedsRole(a.request.target) /\ ~a.claims.client => a.status = 403
       /\ NeedsSubject(a.request.target) /\ ~a.claims.uuid =>
            a.status = IF NeedsRole(a.request.target) /\ ~a.claims.client THEN 403 ELSE 401
Agreeing(a) ==
  a.call \in {"create", "publish"} =>
    IF a.unwritable THEN a.call = "create" /\ a.label = "success" /\ a.status = 500
                    ELSE a.status \in Agrees(a.label)
Matching(n, a) ==
  /\ n.method = a.request.method
  /\ n.status = a.status
  /\ n.path = "unmatched" <=> a.request.target = "unknown"
  /\ a.call # NoCall => n.path = a.call

\* The answer of the request in hand.
InHand == [request |-> request, claims |-> claims, call |-> call, label |-> label,
           unwritable |-> err = OtherError, status |-> StatusCode]

ChainInv ==
  /\ pc # "idle" => request.target \in Targets /\ request.method \in {"GET", "POST"}
  /\ claims # Nobody => claims = request.user /\ InTripGroup(request.target)
  /\ call # NoCall => call = request.target
  /\ pc \in {"auth", "role", "handler"} => call = NoCall /\ label = "none" /\ err = 0
  /\ pc = "auth" => claims = Nobody /\ InTripGroup(request.target)
  /\ pc = "role" => claims # Nobody /\ NeedsRole(request.target)
  /\ pc = "handler" =>
       /\ InTripGroup(request.target) => claims # Nobody
       /\ NeedsRole(request.target) => claims.client
  /\ pc = "service" => call # NoCall /\ err = 0
  /\ pc \in {"service", "count", "answer"} => Authorized(InHand)
  /\ pc \in {"count", "answer"} => Agreeing(InHand)
  /\ pc = "answer" => Matching(counted[Len(counted)], InHand)

LogInv ==
  \A i \in 1 .. Len(answered) :
    Authorized(answered[i]) /\ Agreeing(answered[i]) /\ Matching(counted[i], answered[i])

\* A trip is from a request that is answered, or in hand and about to be.
TripInv ==
  /\ \A i \in 1 .. Len(stored) :
       \/ /\ stored[i].by \in 1 .. Len(answered)
          /\ stored[i].seats = answered[stored[i].by].request.seats
       \/ /\ stored[i].by = Len(answered) + 1 /\ pc \in {"count", "answer"}
          /\ stored[i].seats = request.seats
  /\ \A j \in 1 .. Len(answered) :
       answered[j].status = 201 => \E i \in 1 .. Len(stored) : stored[i].by = j
  /\ pc \in {"count", "answer"} /\ StatusCode = 201 =>
       \E i \in 1 .. Len(stored) : stored[i].by = Len(answered) + 1

Inv == Types /\ ChainInv /\ LogInv /\ TripInv

-----------------------------------------------------------------------------
LEMMA InvInit == Init => Inv
<1> SUFFICES ASSUME Init PROVE Inv
  OBVIOUS
<1> USE DEF Init
<1>1. request \in RequestSet
  BY DEF RequestSet, Idle
<1>2. Types
  BY <1>1 DEF Types, Statuses, Labels, NoCall
<1>3. ChainInv
  BY DEF ChainInv
<1>4. LogInv /\ TripInv
  BY DEF LogInv, TripInv
<1> QED
  BY <1>2, <1>3, <1>4 DEF Inv

-----------------------------------------------------------------------------
\* A step before the request is counted leaves the log of answers alone, and
\* the trips too unless a creation returns.
LEMMA LogFrame ==
  ASSUME Inv, UNCHANGED <<counted, answered>>
  PROVE LogInv'
BY DEF Inv, LogInv, Authorized, Agreeing, Matching, InTripGroup, NeedsRole, NeedsSubject,
  TripCalls, NoCall, Agrees

LEMMA TripFrame ==
  ASSUME Inv, UNCHANGED <<stored, answered>>, pc \notin {"count", "answer"},
         pc' \in {"count", "answer"} => StatusCode' # 201
  PROVE TripInv'
BY DEF Inv, TripInv

LEMMA ArriveStep == ASSUME Inv, Arrive PROVE Inv'
<1>1. PICK t \in Targets, u \in Users \cup {Nobody} :
        \E m \in Methods(t), n \in IF t = "create" THEN -1 .. Int8Max + 1 ELSE {0} :
          /\ request' = [target |-> t, method |-> m, user |-> u, seats |-> n]
          /\ pc' = IF InTripGroup(t) THEN "auth" ELSE "handler"
  BY DEF Arrive
<1>2. PICK m \in Methods(t), n \in IF t = "create" THEN -1 .. Int8Max + 1 ELSE {0} :
          /\ request' = [target |-> t, method |-> m, user |-> u, seats |-> n]
          /\ pc' = IF InTripGroup(t) THEN "auth" ELSE "handler"
  BY <1>1
<1>3. /\ pc = "idle" /\ claims' = Nobody /\ call' = NoCall /\ label' = "none"
      /\ written' = 200 /\ err' = 0
      /\ UNCHANGED <<counted, stored, answered>>
  BY DEF Arrive
<1>4. m \in {"GET", "POST"}
  BY DEF Methods
<1>5. n \in Int
  BY WidthsAssumption
<1>6. request' \in RequestSet
  BY <1>2, <1>4, <1>5 DEF RequestSet
<1>7. Types'
  BY <1>2, <1>3, <1>6 DEF Inv, Types, Statuses, Labels
<1>8. ChainInv'
  BY <1>2, <1>3, <1>4 DEF ChainInv, InTripGroup, NeedsRole, TripCalls
<1>9. LogInv' /\ TripInv'
  BY <1>2, <1>3, LogFrame, TripFrame
<1> QED
  BY <1>7, <1>8, <1>9 DEF Inv

\* The status of a chain that ends with a status, or with an error.
LEMMA AuthenticateStep == ASSUME Inv, Authenticate PROVE Inv'
<1>1. /\ pc = "auth" /\ UNCHANGED <<request, call, label, counted, stored, answered>>
      /\ call = NoCall /\ label = "none" /\ err = 0 /\ claims = Nobody
      /\ InTripGroup(request.target)
  BY DEF Authenticate, Inv, ChainInv
<1>2. request \in RequestSet /\ request.user \in Users \cup {Nobody}
  BY DEF Inv, Types, RequestSet
<1>3. \/ /\ request.user # Nobody /\ claims' = request.user
         /\ pc' = (IF NeedsRole(request.target) THEN "role" ELSE "handler")
         /\ UNCHANGED <<written, err>>
      \/ pc' = "count" /\ err' = 401 /\ UNCHANGED <<written, claims>>
  BY DEF Authenticate, Abort
<1>4. Types'
  BY <1>1, <1>2, <1>3 DEF Inv, Types
<1>5. ChainInv'
  <2>1. CASE pc' = "count" /\ err' = 401 /\ UNCHANGED <<written, claims>>
    <3>1. StatusCode' = 401
      BY <2>1 DEF StatusCode, OtherError
    <3>2. Authorized(InHand)' /\ Agreeing(InHand)'
      BY <1>1, <2>1, <3>1 DEF Authorized, Agreeing, InHand, NoCall
    <3> QED
      BY <1>1, <2>1, <3>2 DEF Inv, ChainInv
  <2>2. CASE /\ request.user # Nobody /\ claims' = request.user
             /\ pc' = (IF NeedsRole(request.target) THEN "role" ELSE "handler")
             /\ UNCHANGED <<written, err>>
    BY <1>1, <2>2 DEF Inv, ChainInv
  <2> QED
    BY <1>3, <2>1, <2>2
<1>6. TripInv'
  BY <1>1, <1>3, TripFrame DEF StatusCode
<1> QED
  BY <1>1, <1>4, <1>5, <1>6, LogFrame DEF Inv

LEMMA RequireRoleStep == ASSUME Inv, RequireRole PROVE Inv'
<1>1. /\ pc = "role" /\ UNCHANGED <<request, claims, call, label, counted, stored, answered>>
      /\ call = NoCall /\ label = "none" /\ err = 0 /\ claims # Nobody
      /\ NeedsRole(request.target)
  BY DEF RequireRole, Inv, ChainInv
<1>2. \/ claims.client /\ pc' = "handler" /\ UNCHANGED <<written, err>>
      \/ ~claims.client /\ pc' = "count" /\ err' = 403 /\ UNCHANGED written
  BY DEF RequireRole, HasClientRole, Abort
<1>3. Types'
  BY <1>1, <1>2 DEF Inv, Types
<1>4. ChainInv'
  <2>1. CASE ~claims.client /\ pc' = "count" /\ err' = 403 /\ UNCHANGED written
    <3>1. StatusCode' = 403
      BY <2>1 DEF StatusCode, OtherError
    <3>2. Authorized(InHand)' /\ Agreeing(InHand)'
      BY <1>1, <2>1, <3>1 DEF Authorized, Agreeing, InHand, NoCall
    <3> QED
      BY <1>1, <2>1, <3>2 DEF Inv, ChainInv
  <2>2. CASE claims.client /\ pc' = "handler" /\ UNCHANGED <<written, err>>
    BY <1>1, <2>2 DEF Inv, ChainInv
  <2> QED
    BY <1>2, <2>1, <2>2
<1>5. TripInv'
  BY <1>1, <1>2, TripFrame DEF StatusCode
<1> QED
  BY <1>1, <1>3, <1>4, <1>5, LogFrame DEF Inv

\* What a handler may do with a request: call the service for a user who may
\* make that call, write the status of a bad request, or abort.
LEMMA HandlerStep == ASSUME Inv, Handler PROVE Inv'
<1>1. /\ pc = "handler" /\ UNCHANGED <<request, claims, label, counted, stored, answered>>
      /\ call = NoCall /\ label = "none" /\ err = 0
      /\ InTripGroup(request.target) => claims # Nobody
      /\ NeedsRole(request.target) => claims.client
      /\ claims # Nobody => claims = request.user /\ InTripGroup(request.target)
      /\ request.target \in Targets /\ request.method \in {"GET", "POST"}
  BY DEF Handler, CreateTrip, MoveTripDraftToPublished, StartTrip, GetTripByID, Ready,
    MetricsHandler, Unmatched, Handling, Inv, ChainInv
<1>2. \/ /\ pc' = "service" /\ call' = request.target /\ UNCHANGED <<written, err>>
         /\ request.target \in TripCalls
         /\ request.target # "get" => claims.uuid
      \/ /\ pc' = "count" /\ UNCHANGED <<call, err>>
         /\ written' \in {200, 400, 404, 503}
         /\ claims = Nobody => ~InTripGroup(request.target)
         /\ NeedsSubject(request.target) => claims.uuid
      \/ /\ pc' = "count" /\ UNCHANGED <<call, written>>
         /\ err' \in {401, 404, 405}
         /\ claims = Nobody => ~InTripGroup(request.target)
         /\ NeedsSubject(request.target) => err' = 401
  <2>1. CASE CreateTrip
    BY <1>1, <2>1 DEF CreateTrip, Handling, WithClientID, ClientID, CallService, Write, Abort,
      TripCalls, NeedsSubject
  <2>2. CASE MoveTripDraftToPublished
    BY <1>1, <2>2 DEF MoveTripDraftToPublished, Handling, WithClientID, ClientID, CallService,
      Write, Abort, TripCalls, NeedsSubject
  <2>3. CASE StartTrip
    BY <1>1, <2>3 DEF StartTrip, Handling, WithClientID, ClientID, CallService, Write, Abort,
      TripCalls, NeedsSubject
  <2>4. CASE GetTripByID
    BY <1>1, <2>4 DEF GetTripByID, Handling, CallService, Write, TripCalls, NeedsSubject
  <2>5. CASE Ready \/ MetricsHandler
    BY <1>1, <2>5 DEF Ready, MetricsHandler, Handling, Write, NeedsSubject
  <2>6. CASE Unmatched
    BY <1>1, <2>6 DEF Unmatched, Handling, Abort, NeedsSubject
  <2> QED
    BY <2>1, <2>2, <2>3, <2>4, <2>5, <2>6 DEF Handler
<1>3. Types'
  <2>1. Types
    BY DEF Inv
  <2> QED
    BY <1>1, <1>2, <2>1 DEF Types, Statuses
<1>4. ASSUME pc' = "service" PROVE ChainInv'
  <2>1. /\ pc' = "service" /\ call' = request.target /\ UNCHANGED <<written, err>>
        /\ request.target \in TripCalls
        /\ request.target # "get" => claims.uuid
    BY <1>2, <1>4
  <2>2. InTripGroup(request.target) /\ claims # Nobody /\ claims = request.user
    BY <1>1, <2>1 DEF InTripGroup
  <2>3. request.target \in {"create", "get"} => claims.client
    BY <1>1 DEF NeedsRole
  <2>4. Authorized(InHand)'
    BY <1>1, <2>1, <2>2, <2>3 DEF Authorized, InHand, NeedsRole, NeedsSubject
  <2> QED
    BY <1>1, <2>1, <2>2, <2>4 DEF ChainInv, TripCalls, NoCall
<1>5. ASSUME pc' = "count" PROVE ChainInv'
  <2>1. call' = NoCall /\ (claims = Nobody => ~InTripGroup(request.target))
    BY <1>1, <1>2, <1>5
  <2>2. claims # Nobody /\ NeedsSubject(request.target) /\ ~claims.uuid => StatusCode' = 401
    BY <1>1, <1>2, <1>5 DEF StatusCode, OtherError
  <2>3. Authorized(InHand)' /\ Agreeing(InHand)'
    BY <1>1, <2>1, <2>2 DEF Authorized, Agreeing, InHand, NoCall
  <2> QED
    BY <1>1, <1>5, <2>1, <2>3 DEF ChainInv
<1>6. TripInv'
  BY <1>1, <1>2, TripFrame DEF StatusCode
<1> QED
  BY <1>1, <1>2, <1>3, <1>4, <1>5, <1>6, LogFrame DEF Inv

-----------------------------------------------------------------------------
(* The service and its result *)

\* Both lists classify a result alike, and 201 is said of a new trip only.
LEMMA StatusOfResult ==
  ASSUME call \in TripCalls, NEW r \in Results
  PROVE /\ Status(r) \in Statuses
        /\ Status(r) = 201 => call = "create" /\ r = "ok"
        /\ call = "publish" => Status(r) \in Agrees(PublishTripResult(r))
        /\ call = "create" => Status(r) \in Agrees(CreateTripResult(r))
        /\ PublishTripResult(r) \in Labels /\ CreateTripResult(r) \in Labels
<1>1. r \in {"ok", "internal", "validation", "unavailable", "invalid", "not_found", "forbidden",
             "conflict", "already_published"}
  BY DEF Results, Refusals, TripCalls
<1>2. /\ ServiceError("unavailable") = 503 /\ ServiceError("invalid") = 502
      /\ ServiceError("validation") = 400 /\ ServiceError("not_found") = 404
      /\ ServiceError("forbidden") = 403 /\ ServiceError("conflict") = 409
      /\ ServiceError("internal") = 500
  BY DEF ServiceError
<1>3. /\ Status("ok") = IF call = "create" THEN 201 ELSE 200
      /\ Status("already_published") = 204
      /\ r \notin {"ok", "already_published"} => Status(r) = ServiceError(r)
  BY DEF Status
<1>4. /\ PublishTripResult("ok") = "success"
      /\ PublishTripResult("not_found") = "not_found"
      /\ PublishTripResult("forbidden") = "forbidden"
      /\ PublishTripResult("conflict") = "conflict"
      /\ PublishTripResult("already_published") = "already_published"
      /\ PublishTripResult("internal") = "internal_error"
      /\ PublishTripResult("invalid") = "internal_error"
      /\ PublishTripResult("unavailable") = "internal_error"
      /\ PublishTripResult("validation") = "internal_error"
  BY DEF PublishTripResult
<1>5. /\ CreateTripResult("ok") = "success"
      /\ CreateTripResult("validation") = "validation_error"
      /\ r \notin {"ok", "validation"} => CreateTripResult(r) = "internal_error"
  BY DEF CreateTripResult
<1> HIDE DEF ServiceError, Status, PublishTripResult, CreateTripResult
<1>6. /\ Agrees("success") = {200, 201} /\ Agrees("already_published") = {204}
      /\ Agrees("validation_error") = {400} /\ Agrees("forbidden") = {403}
      /\ Agrees("not_found") = {404} /\ Agrees("conflict") = {409}
      /\ Agrees("internal_error") = {500, 502, 503}
  BY DEF Agrees
<1>7. call = "publish" =>
        r \in {"ok", "internal", "unavailable", "invalid", "not_found", "forbidden", "conflict",
               "already_published"}
  BY DEF Results, Refusals
<1>8. call = "create" => r \in {"ok", "internal", "validation"}
  BY DEF Results
<1>9. Status(r) \in Statuses
  BY <1>1, <1>2, <1>3 DEF Statuses
<1>10. Status(r) = 201 => call = "create" /\ r = "ok"
  BY <1>1, <1>2, <1>3
<1>11. call = "publish" => Status(r) \in Agrees(PublishTripResult(r))
  BY <1>2, <1>3, <1>4, <1>6, <1>7
<1>12. call = "create" => Status(r) \in Agrees(CreateTripResult(r))
  BY <1>2, <1>3, <1>5, <1>6, <1>8
<1>13. PublishTripResult(r) \in Labels /\ CreateTripResult(r) \in Labels
  BY <1>1, <1>4, <1>5 DEF Labels
<1> QED
  BY <1>9, <1>10, <1>11, <1>12, <1>13

\* A creation that is not refused stores what was asked for.
LEMMA ReturnStep == ASSUME Inv, Return PROVE Inv'
<1> DEFINE l(r) == CASE call = "publish" -> PublishTripResult(r)
                     [] call = "create" -> CreateTripResult(r)
                     [] OTHER -> "none"
<1>1. /\ pc = "service" /\ err = 0 /\ call \in TripCalls /\ call = request.target
      /\ Authorized(InHand)
      /\ UNCHANGED <<request, claims, call, counted, answered>>
  BY DEF Return, Inv, ChainInv, Types
<1>2. PICK r \in Results :
        /\ pc' = "count" /\ written' = Status(r)
        /\ err' = 0 \/ (Unwritable(r) /\ err' = OtherError)
        /\ label' = l(r)
        /\ stored' = IF call = "create" /\ r = "ok" THEN Append(stored, Draft) ELSE stored
  BY <1>1 DEF Return
<1>3. /\ Status(r) \in Statuses
      /\ Status(r) = 201 => call = "create" /\ r = "ok"
      /\ call = "publish" => Status(r) \in Agrees(PublishTripResult(r))
      /\ call = "create" => Status(r) \in Agrees(CreateTripResult(r))
      /\ PublishTripResult(r) \in Labels /\ CreateTripResult(r) \in Labels
  BY <1>1, StatusOfResult
<1>4. /\ l(r) \in Labels
      /\ call = "publish" => l(r) = PublishTripResult(r)
      /\ call = "create" => l(r) = CreateTripResult(r)
  BY <1>3 DEF Labels
<1> HIDE DEF l
<1>5. \/ stored' = stored /\ Status(r) # 201
      \/ stored' = Append(stored, Draft) /\ Draft \in TripSet /\ Draft.seats = request.seats
         /\ Draft.by = Len(answered) + 1
  <2>1. CASE call = "create" /\ r = "ok"
    <3>1. request.seats \in 1 .. Int4Max
      BY <2>1 DEF Results, Storable, Column
    <3>2. Len(answered) + 1 \in Nat
      BY DEF Inv, Types
    <3> QED
      BY <1>2, <2>1, <3>1, <3>2 DEF Draft, Column, TripSet
  <2>2. CASE ~(call = "create" /\ r = "ok")
    BY <1>2, <1>3, <2>2
  <2> QED
    BY <2>1, <2>2
<1>6. Types'
  <2>1. stored \in Seq(TripSet)
    BY DEF Inv, Types
  <2>2. stored' \in Seq(TripSet)
    BY <1>5, <2>1
  <2> QED
    BY <1>1, <1>2, <1>3, <1>4, <2>2 DEF Inv, Types
<1>7. Authorized(InHand)'
  <2>1. /\ claims = request.user /\ claims # Nobody
        /\ NeedsRole(call) => claims.client
        /\ NeedsSubject(call) => claims.uuid
    BY <1>1 DEF Authorized, InHand, NoCall, TripCalls, NeedsRole, NeedsSubject
  <2> QED
    BY <1>1, <2>1 DEF Authorized, InHand, NoCall, TripCalls, NeedsRole, NeedsSubject
<1>8. Agreeing(InHand)'
  <2>1. CASE err' = 0
    <3>1. StatusCode' = Status(r) /\ ~(err' = OtherError)
      BY <1>2, <2>1 DEF StatusCode, OtherError
    <3>2. /\ InHand'.call = call /\ InHand'.label = l(r) /\ InHand'.status = Status(r)
          /\ ~InHand'.unwritable
      BY <1>1, <1>2, <3>1 DEF InHand
    <3> QED
      BY <1>3, <1>4, <3>2 DEF Agreeing, Agrees
  <2>2. CASE Unwritable(r) /\ err' = OtherError
    <3>1. StatusCode' = 500
      BY <2>2 DEF StatusCode, OtherError
    <3>2. /\ InHand'.call = call /\ InHand'.label = l(r) /\ InHand'.status = 500
          /\ InHand'.unwritable
      BY <1>1, <1>2, <2>2, <3>1 DEF InHand
    <3>3. call = "create" => l(r) = "success"
      BY <1>4, <2>2 DEF Unwritable, CreateTripResult
    <3>4. call # "publish"
      BY <2>2 DEF Unwritable
    <3> QED
      BY <3>2, <3>3, <3>4 DEF Agreeing
  <2> QED
    BY <1>2, <2>1, <2>2
<1>9. ChainInv'
  BY <1>1, <1>2, <1>7, <1>8 DEF Inv, ChainInv
<1>10. TripInv'
  <2>1. StatusCode' \in {Status(r), 500}
    BY <1>2 DEF StatusCode, OtherError
  <2>2. CASE stored' = stored /\ Status(r) # 201
    BY <1>1, <2>1, <2>2, TripFrame
  <2>3. CASE stored' = Append(stored, Draft) /\ Draft \in TripSet
             /\ Draft.seats = request.seats /\ Draft.by = Len(answered) + 1
    <3>1. stored \in Seq(TripSet) /\ Len(stored) \in Nat
      BY DEF Inv, Types
    <3>2. /\ Len(stored') = Len(stored) + 1
          /\ \A i \in 1 .. Len(stored) : stored'[i] = stored[i]
          /\ stored'[Len(stored) + 1] = Draft
      BY <2>3, <3>1
    <3>3. \A i \in 1 .. Len(stored) :
            /\ stored[i].by \in 1 .. Len(answered)
            /\ stored[i].seats = answered[stored[i].by].request.seats
      BY <1>1 DEF Inv, TripInv
    <3>4. \A i \in 1 .. Len(stored') :
            \/ /\ stored'[i].by \in 1 .. Len(answered)
               /\ stored'[i].seats = answered[stored'[i].by].request.seats
            \/ /\ stored'[i].by = Len(answered) + 1
               /\ stored'[i].seats = request.seats
      BY <2>3, <3>1, <3>2, <3>3
    <3>5. \A j \in 1 .. Len(answered) :
            answered[j].status = 201 => \E i \in 1 .. Len(stored') : stored'[i].by = j
      <4> TAKE j \in 1 .. Len(answered)
      <4> HAVE answered[j].status = 201
      <4>1. PICK i \in 1 .. Len(stored) : stored[i].by = j
        BY DEF Inv, TripInv
      <4> QED
        BY <3>1, <3>2, <4>1
    <3>6. \E i \in 1 .. Len(stored') : stored'[i].by = Len(answered) + 1
      BY <2>3, <3>1, <3>2
    <3> QED
      BY <1>1, <1>2, <3>4, <3>5, <3>6 DEF TripInv
  <2> QED
    BY <1>5, <2>2, <2>3
<1> QED
  BY <1>1, <1>6, <1>9, <1>10, LogFrame DEF Inv

-----------------------------------------------------------------------------
(* Counting and answering *)

\* The labels of the request in hand say what its answer will be.
LEMMA CountStep == ASSUME Inv, Count PROVE Inv'
<1> DEFINE n == [method |-> request.method, path |-> Route(request.target, claims # Nobody),
                 status |-> StatusCode]
<1>1. /\ pc = "count" /\ pc' = "answer" /\ counted' = Append(counted, n)
      /\ UNCHANGED <<request, claims, call, label, written, err, stored, answered>>
  BY DEF Count, MethodLabel
<1>2. /\ request.target \in Targets /\ request.method \in {"GET", "POST"}
      /\ Authorized(InHand) /\ Agreeing(InHand)
      /\ call # NoCall => call = request.target
      /\ StatusCode \in Statuses
      /\ claims # Nobody => InTripGroup(request.target)
  BY <1>1 DEF Inv, ChainInv, Types, StatusCode, Statuses
<1>3. /\ Route(request.target, claims # Nobody) \in Targets \cup {"/trip", "unmatched"}
      /\ Route(request.target, claims # Nobody) = "unmatched" <=> request.target = "unknown"
      /\ request.target \in TripCalls /\ claims # Nobody =>
           Route(request.target, claims # Nobody) = request.target
  BY <1>2 DEF Route, Targets, TripCalls, InTripGroup
<1>4. n \in CountSet
  BY <1>2, <1>3 DEF CountSet
<1>5. /\ counted \in Seq(CountSet) /\ answered \in Seq(AnswerSet)
      /\ Len(counted) = Len(answered) /\ Len(answered) \in Nat
  BY <1>1 DEF Inv, Types
<1>6. Matching(n, InHand)
  <2>1. call # NoCall => request.target \in TripCalls /\ claims # Nobody
    BY <1>2 DEF Inv, Types, Authorized, InHand
  <2> QED
    BY <1>2, <1>3, <2>1 DEF Matching, InHand
<1> HIDE DEF n
<1>7. /\ counted' \in Seq(CountSet) /\ Len(counted') = Len(answered) + 1
      /\ counted'[Len(counted')] = n
      /\ \A i \in 1 .. Len(answered) : counted'[i] = counted[i]
  BY <1>1, <1>4, <1>5
<1>8. Types'
  BY <1>1, <1>7 DEF Inv, Types
<1>9. InHand' = InHand
  BY <1>1 DEF InHand, StatusCode
<1>10. ChainInv'
  <2>1. Authorized(InHand)' /\ Agreeing(InHand)'
    BY <1>1, <1>2, <1>9 DEF Authorized, Agreeing, NoCall, InTripGroup, TripCalls, Agrees
  <2>2. Matching(counted[Len(counted)], InHand)'
    BY <1>1, <1>6, <1>7, <1>9 DEF Matching, NoCall
  <2> QED
    BY <1>1, <2>1, <2>2 DEF Inv, ChainInv
<1>11. LogInv'
  BY <1>1, <1>7 DEF Inv, LogInv, Authorized, Agreeing, Matching, NoCall, InTripGroup, TripCalls,
    Agrees
<1>12. TripInv'
  BY <1>1 DEF Inv, TripInv, StatusCode
<1> QED
  BY <1>8, <1>10, <1>11, <1>12 DEF Inv

LEMMA AnswerStep == ASSUME Inv, Answer PROVE Inv'
<1> DEFINE a == InHand
<1>1. /\ pc = "answer" /\ pc' = "idle" /\ answered' = Append(answered, a)
      /\ UNCHANGED <<request, claims, call, label, written, err, counted, stored>>
  BY DEF Answer, ErrorHandler, InHand, StatusCode, OtherError
<1>2. /\ Authorized(a) /\ Agreeing(a) /\ Matching(counted[Len(counted)], a)
      /\ a.request = request /\ a.status = StatusCode
  BY <1>1 DEF Inv, ChainInv, InHand
<1>3. a \in AnswerSet
  BY DEF Inv, Types, InHand, StatusCode, AnswerSet, Statuses
<1> HIDE DEF a
<1>4. /\ answered \in Seq(AnswerSet) /\ Len(answered) \in Nat
      /\ Len(counted) = Len(answered) + 1
  BY <1>1 DEF Inv, Types
<1>5. /\ answered' \in Seq(AnswerSet) /\ Len(answered') = Len(answered) + 1
      /\ answered'[Len(answered) + 1] = a
      /\ \A i \in 1 .. Len(answered) : answered'[i] = answered[i]
  BY <1>1, <1>3, <1>4
<1>6. Types'
  BY <1>1, <1>4, <1>5 DEF Inv, Types
<1>7. ChainInv'
  BY <1>1 DEF Inv, ChainInv
<1>8. \A i \in 1 .. Len(answered') :
        Authorized(answered'[i]) /\ Agreeing(answered'[i]) /\ Matching(counted[i], answered'[i])
  <2> TAKE i \in 1 .. Len(answered')
  <2>1. CASE i \in 1 .. Len(answered)
    BY <1>5, <2>1 DEF Inv, LogInv
  <2>2. CASE i = Len(answered) + 1
    BY <1>2, <1>4, <1>5, <2>2
  <2> QED
    BY <1>4, <1>5, <2>1, <2>2
<1>9. LogInv'
  BY <1>1, <1>8 DEF LogInv, Authorized, Agreeing, Matching
<1>10. TripInv'
  <2>1. \A i \in 1 .. Len(stored) :
          /\ stored[i].by \in 1 .. Len(answered')
          /\ stored[i].seats = answered'[stored[i].by].request.seats
    <3> TAKE i \in 1 .. Len(stored)
    <3>1. CASE /\ stored[i].by \in 1 .. Len(answered)
               /\ stored[i].seats = answered[stored[i].by].request.seats
      BY <1>4, <1>5, <3>1
    <3>2. CASE stored[i].by = Len(answered) + 1 /\ stored[i].seats = request.seats
      BY <1>2, <1>4, <1>5, <3>2
    <3> QED
      BY <3>1, <3>2 DEF Inv, TripInv
  <2>2. \A j \in 1 .. Len(answered) :
          answered[j].status = 201 => \E i \in 1 .. Len(stored) : stored[i].by = j
    BY DEF Inv, TripInv
  <2>3. a.status = 201 => \E i \in 1 .. Len(stored) : stored[i].by = Len(answered) + 1
    BY <1>1, <1>2 DEF Inv, TripInv
  <2>4. ASSUME NEW j \in 1 .. Len(answered'), answered'[j].status = 201
        PROVE  \E i \in 1 .. Len(stored) : stored[i].by = j
    <3>1. CASE j \in 1 .. Len(answered)
      <4>1. answered[j].status = 201
        BY <1>5, <2>4, <3>1
      <4> QED
        BY <2>2, <3>1, <4>1
    <3>2. CASE j = Len(answered) + 1
      <4>1. a.status = 201
        BY <1>5, <2>4, <3>2
      <4> QED
        BY <2>3, <3>2, <4>1
    <3>3. j \in 1 .. Len(answered) \/ j = Len(answered) + 1
      BY <1>4, <1>5
    <3> QED
      BY <3>1, <3>2, <3>3
  <2>5. stored' = stored /\ pc' = "idle"
    BY <1>1
  <2>6. \A j \in 1 .. Len(answered') :
          answered'[j].status = 201 => \E i \in 1 .. Len(stored') : stored'[i].by = j
    BY <2>4, <2>5
  <2>7. \A i \in 1 .. Len(stored') :
          /\ stored'[i].by \in 1 .. Len(answered')
          /\ stored'[i].seats = answered'[stored'[i].by].request.seats
    BY <2>1, <2>5
  <2> QED
    BY <2>5, <2>6, <2>7, Zenon DEF TripInv
<1> QED
  BY <1>6, <1>7, <1>9, <1>10 DEF Inv

-----------------------------------------------------------------------------
LEMMA InvNext == ASSUME Inv, [Next]_vars PROVE Inv'
<1>1. CASE Arrive
  BY <1>1, ArriveStep
<1>2. CASE Authenticate
  BY <1>2, AuthenticateStep
<1>3. CASE RequireRole
  BY <1>3, RequireRoleStep
<1>4. CASE Handler
  BY <1>4, HandlerStep
<1>5. CASE Return
  BY <1>5, ReturnStep
<1>6. CASE Count
  BY <1>6, CountStep
<1>7. CASE Answer
  BY <1>7, AnswerStep
<1>8. CASE UNCHANGED vars
  <2>1. UNCHANGED <<pc, request, claims, call, label, written, err, counted, stored, answered>>
    BY <1>8 DEF vars
  <2>2. Types' /\ LogInv'
    BY <2>1, LogFrame DEF Inv, Types
  <2>3. InHand' = InHand /\ (StatusCode = 201)' = (StatusCode = 201)
    BY <2>1 DEF InHand, StatusCode
  <2>4. ChainInv'
    BY <2>1, <2>3 DEF Inv, ChainInv, Authorized, Agreeing, Matching
  <2>5. TripInv'
    BY <2>1, <2>3 DEF Inv, TripInv
  <2> QED
    BY <2>2, <2>4, <2>5 DEF Inv
<1> QED
  BY <1>1, <1>2, <1>3, <1>4, <1>5, <1>6, <1>7, <1>8 DEF Next

LEMMA Invariance == Spec => []Inv
BY InvInit, InvNext, PTL DEF Spec

\* Every variable keeps its type, and every request is counted before it is
\* answered, once.
THEOREM TypeCorrect == Spec => []TypeOK
<1>1. Inv => TypeOK
  <2> SUFFICES ASSUME Inv PROVE TypeOK
    OBVIOUS
  <2>1. stored \in Seq(TripSet)
    BY DEF Inv, Types
  <2>2. \A i \in 1 .. Len(stored) : stored[i] \in TripSet
    BY <2>1
  <2>3. \A i \in 1 .. Len(stored) : stored[i].seats \in 1 .. Int4Max
    BY <2>2 DEF TripSet
  <2>4. Len(counted) - Len(answered) = IF pc = "answer" THEN 1 ELSE 0
    <3>1. /\ Len(answered) \in Nat /\ Len(counted) \in Nat
          /\ pc = "answer" => Len(counted) = Len(answered) + 1
          /\ pc # "answer" => Len(counted) = Len(answered)
      BY DEF Inv, Types
    <3> QED
      BY <3>1
  <2> QED
    BY <2>3, <2>4 DEF Inv, Types, TypeOK
<1> QED
  BY <1>1, Invariance, PTL

\* Whatever the requests, each is counted with its own method and route and
\* the status its client gets, for good.
THEOREM CountsAreAnswers == Spec => []CountedAsAnswered
<1>1. Inv => CountedAsAnswered
  <2> SUFFICES ASSUME Inv, pc = "idle" PROVE CountedAsAnswered
    BY DEF CountedAsAnswered
  <2>1. Len(counted) = Len(answered) /\ Len(answered) \in Nat /\ counted \in Seq(CountSet)
    BY DEF Inv, Types
  <2>2. \A i \in 1 .. Len(counted) : counted[i].method \in {"GET", "POST"}
    <3>1. \A i \in 1 .. Len(counted) : counted[i] \in CountSet
      BY <2>1
    <3> QED
      BY <3>1 DEF CountSet
  <2>3. \A i \in 1 .. Len(counted) : Shown(counted[i].method) = counted[i].method
    BY <2>2 DEF Shown
  <2>4. \A i \in 1 .. Len(counted) : Matching(counted[i], answered[i])
    BY <2>1 DEF Inv, LogInv
  <2>5. ASSUME NEW i \in 1 .. Len(counted)
        PROVE  /\ Shown(counted[i].method) = answered[i].request.method
               /\ counted[i].status = answered[i].status
               /\ counted[i].path = "unmatched" <=> answered[i].request.target = "unknown"
               /\ answered[i].call # NoCall => counted[i].path = answered[i].call
    BY <2>3, <2>4 DEF Matching
  <2> QED
    BY <2>1, <2>5 DEF CountedAsAnswered
<1> QED
  BY <1>1, Invariance, PTL

\* Only users Keycloak vouches for, with the role and the subject a call needs,
\* reach the trip service; the others get a 401 or a 403, as what they lack says.
THEOREM OnlyAuthorizedCalls == Spec => []OnlyAuthorizedCallsReachTheService
<1>1. Inv => OnlyAuthorizedCallsReachTheService
  BY DEF Inv, LogInv, Authorized, OnlyAuthorizedCallsReachTheService
<1> QED
  BY <1>1, Invariance, PTL

\* The counted result and the status of a creation or publication agree, but for a
\* new trip that cannot be written as JSON.
THEOREM LabelsAgree == Spec => []LabelsMatchAnswers
<1>1. Inv => LabelsMatchAnswers
  BY DEF Inv, LogInv, Agreeing, LabelsMatchAnswers
<1> QED
  BY <1>1, Invariance, PTL

\* No number of seats is cut to size on its way into the database, and every
\* 201 has its trip.
THEOREM SeatsAreAsked == Spec => []StoredSeatsAreAsked
<1>1. Inv => StoredSeatsAreAsked
  BY DEF Inv, TripInv, StoredSeatsAreAsked
<1> QED
  BY <1>1, Invariance, PTL
=============================================================================
