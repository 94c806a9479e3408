------------------------------ MODULE TripApi ------------------------------
(***************************************************************************)
(* One request of the HTTP API after another on the same Fiber context:    *)
(* the chain of middlewares (metrics, Keycloak, roles), the handlers, the  *)
(* error writer, the counters, and the answer.  Fiber reuses the context   *)
(* and its buffers for the next request; requests on different contexts    *)
(* share nothing here.  What the trip service does between its call and    *)
(* its result is TripService's; only its result is chosen here.            *)
(*                                                                         *)
(* Integers are scaled: Int8Max stands for the largest Go int and Int4Max  *)
(* for the largest value of the column available_seats.  Request ids,      *)
(* traces, logs, durations and the bodies of answers are left out.         *)
(***************************************************************************)
EXTENDS Integers, Sequences

CONSTANTS
  MaxRequests,  \* bound: requests served
  Int4Max, Int8Max,
  Nobody        \* no user: no token, or none that Keycloak accepts

ASSUME WidthsAssumption == Int4Max \in Nat \ {0} /\ Int8Max \in Nat /\ Int4Max < Int8Max

VARIABLES
  pc,        \* where the request is in the chain
  request,   \* its target, method, user and the seats it asks for
  claims,    \* what Keycloak says of the user, or Nobody
  call,      \* the call made to the trip service, or NoCall
  label,     \* the result the trip service counts, or "none"
  written,   \* the status written to the response so far
  err,       \* the error the chain returns: 0, a Fiber error's code, or another
  counted,   \* the labels of sharetrip_http_requests_total, one per request
  stored,    \* the trips stored: their seats, and the request each is from
  answered   \* history: the requests and their answers

vars == <<pc, request, claims, call, label, written, err, counted, stored, answered>>

\* Where a request goes; "group" is an unknown path under /trip, "unknown" any
\* other unknown path or method.
Targets == {"ready", "metrics", "create", "publish", "start", "get", "group", "unknown"}
TripCalls == {"create", "publish", "start", "get"}
InTripGroup(target) == target \in TripCalls \cup {"group"}
NeedsRole(target) == target \in {"create", "get"}
NeedsSubject(target) == target \in {"create", "publish", "start"}
Methods(target) ==
  CASE target \in {"create", "publish", "start"} -> {"POST"}
    [] target \in {"ready", "metrics", "get"} -> {"GET"}
    [] OTHER -> {"GET", "POST"}

\* The route the request has matched when the chain returns.
Route(target, authenticated) ==
  CASE target = "unknown" -> "unmatched"
    [] InTripGroup(target) /\ (~authenticated \/ target = "group") -> "/trip"
    [] OTHER -> target

Users == [uuid : BOOLEAN, client : BOOLEAN]
NoCall == "none"

Idle == [target |-> "none", method |-> "none", user |-> Nobody, seats |-> 0]

Init ==
  /\ pc = "idle" /\ request = Idle /\ claims = Nobody /\ call = NoCall
  /\ label = "none" /\ written = 200 /\ err = 0
  /\ counted = <<>> /\ stored = <<>> /\ answered = <<>>

-----------------------------------------------------------------------------
(* The chain *)

\* The context is taken for a new request: its locals and its response are
\* empty, its buffers hold what the request says.
Arrive ==
  /\ pc = "idle" /\ Len(answered) < MaxRequests
  /\ \E t \in Targets, u \in Users \cup {Nobody} :
       \E m \in Methods(t), n \in IF t = "create" THEN -1 .. Int8Max + 1 ELSE {0} :
         /\ request' = [target |-> t, method |-> m, user |-> u, seats |-> n]
         /\ pc' = IF InTripGroup(t) THEN "auth" ELSE "handler"
  /\ claims' = Nobody /\ call' = NoCall /\ label' = "none"
  /\ written' = 200 /\ err' = 0
  /\ UNCHANGED <<counted, stored, answered>>

\* The chain ends: with a status written, or with an error.
Write(status) ==
  pc' = "count" /\ written' = status /\ UNCHANGED err
Abort(code) ==
  pc' = "count" /\ err' = code /\ UNCHANGED written

\* How the exchange of a refresh token for an access token can end, and the
\* reading of the access token.
Exchanges == {"unreachable", "refused", "unreadable", "no_access_token", "access_token"}
Readings == {"no_jwt", "unreadable", "no_subject", "claims"}

\* No refresh token, and anything wrong with Keycloak or its answer, is a 401.
Authenticate ==
  /\ pc = "auth"
  /\ \E x \in Exchanges, r \in Readings :
       IF request.user # Nobody /\ x = "access_token" /\ r = "claims"
         THEN /\ claims' = request.user
              /\ pc' = IF NeedsRole(request.target) THEN "role" ELSE "handler"
              /\ UNCHANGED <<written, err>>
         ELSE Abort(401) /\ UNCHANGED claims
  /\ UNCHANGED <<request, call, label, counted, stored, answered>>

HasClientRole == claims.client

RequireRole ==
  /\ pc = "role"
  /\ \/ HasClientRole /\ pc' = "handler" /\ UNCHANGED <<written, err>>
     \/ ~HasClientRole /\ Abort(403)
  /\ UNCHANGED <<request, claims, call, label, counted, stored, answered>>

-----------------------------------------------------------------------------
(* The handlers, up to their call of the trip service *)

Handling(target) ==
  /\ pc = "handler" /\ request.target = target
  /\ UNCHANGED <<request, claims, label, counted, stored, answered>>

CallService ==
  pc' = "service" /\ call' = request.target /\ UNCHANGED <<written, err>>

\* The driver or client of a call is the subject of the token, if it is a UUID.
ClientID == claims.uuid

\* Mutant: the input is looked at before the subject, and nobody looks at that.
InputOnly(parses) ==
  \/ Write(400) /\ UNCHANGED call
  \/ parses /\ CallService
WithClientID(parses) ==
  IF ClientID THEN \/ Write(400) /\ UNCHANGED call
                   \/ parses /\ CallService
  ELSE Abort(401) /\ UNCHANGED call

\* What does not fit a Go int is no valid body.
CreateTrip == Handling("create") /\ WithClientID(request.seats <= Int8Max)
MoveTripDraftToPublished == Handling("publish") /\ WithClientID(TRUE)
StartTrip == Handling("start") /\ WithClientID(TRUE)

\* A blank id is a 404, and any other that is no UUID a 400.
GetTripByID ==
  /\ Handling("get")
  /\ \/ \E status \in {400, 404} : Write(status) /\ UNCHANGED call
     \/ CallService

Ready == Handling("ready") /\ (\E ping \in {200, 503} : Write(ping)) /\ UNCHANGED call
MetricsHandler == Handling("metrics") /\ Write(200) /\ UNCHANGED call

\* Fiber found no route, or none for the method.
Unmatched ==
  /\ \E target \in {"group", "unknown"} : Handling(target)
  /\ \E code \in {404, 405} : Abort(code)
  /\ UNCHANGED call

Handler ==
  \/ CreateTrip \/ MoveTripDraftToPublished \/ StartTrip \/ GetTripByID
  \/ Ready \/ MetricsHandler \/ Unmatched

-----------------------------------------------------------------------------
(* The trip service, seen from the handler *)

Refusals(op) ==
  CASE op = "create" -> {}
    [] op = "get" -> {"not_found"}
    [] op = "publish" -> {"unavailable", "invalid", "not_found", "forbidden", "conflict",
                          "already_published"}
    [] op = "start" -> {"unavailable", "invalid", "not_found", "forbidden", "conflict"}

\* The last check of a new trip; that of its points and its departure comes first.
Valid == request.seats > 0

\* What the INSERT makes of the seats.  Mutant: they are converted to 32 bits.
Wrapped(n) == ((n + Int4Max + 1) % (2 * (Int4Max + 1))) - (Int4Max + 1)
Column(n) == n
Storable(n) == n \in 1 .. Int4Max

\* The row of a new trip, and the request it comes from.
Draft == [by |-> Len(answered) + 1, seats |-> Column(request.seats)]

Results ==
  IF call # "create" THEN {"ok", "internal"} \cup Refusals(call)
  ELSE {"validation"} \cup
       (IF Valid THEN {"internal"} \cup (IF Storable(Column(request.seats)) THEN {"ok"} ELSE {})
        ELSE {})

\* The result as the service counts it.
PublishTripResult(r) ==
  CASE r = "ok" -> "success"
    [] r = "not_found" -> "not_found"
    [] r = "forbidden" -> "forbidden"
    [] r = "conflict" -> "conflict"
    [] r = "already_published" -> "already_published"
    [] OTHER -> "internal_error"
CreateTripResult(r) ==
  CASE r = "ok" -> "success"
    [] r = "validation" -> "validation_error"
    [] OTHER -> "internal_error"

\* The result as the client gets it.  Mutants: an error of the database
\* is told as a 507, which the API does not know; a denied company gets a 409.
InternalIsNoStorage(r) ==
  CASE r = "unavailable" -> 503 [] r = "invalid" -> 502 [] r = "validation" -> 400
    [] r = "not_found" -> 404 [] r = "forbidden" -> 403 [] r = "conflict" -> 409
    [] OTHER -> 507
DeniedIsConflict(r) ==
  CASE r = "unavailable" -> 503 [] r = "invalid" -> 502 [] r = "validation" -> 400
    [] r = "not_found" -> 404 [] r = "forbidden" -> 409 [] r = "conflict" -> 409
    [] OTHER -> 500
ServiceError(r) ==
  CASE r = "unavailable" -> 503 [] r = "invalid" -> 502 [] r = "validation" -> 400
    [] r = "not_found" -> 404 [] r = "forbidden" -> 403 [] r = "conflict" -> 409
    [] OTHER -> 500

Status(r) ==
  CASE r = "ok" -> IF call = "create" THEN 201 ELSE 200
    [] r = "already_published" -> 204
    [] OTHER -> ServiceError(r)

\* An error that is not Fiber's.
OtherError == 1

\* A trip that leaves in the year 10000 of the server's time zone is stored, and
\* cannot be written as JSON: the chain ends with the encoder's error.
Unwritable(r) == r = "ok" /\ call \in {"create", "get"}

Return ==
  /\ pc = "service"
  /\ \E r \in Results :
       /\ pc' = "count" /\ written' = Status(r)
       /\ err' = err \/ (Unwritable(r) /\ err' = OtherError)
       /\ label' = CASE call = "publish" -> PublishTripResult(r)
                     [] call = "create" -> CreateTripResult(r)
                     [] OTHER -> "none"
       /\ stored' = IF call = "create" /\ r = "ok" THEN Append(stored, Draft) ELSE stored
  /\ UNCHANGED <<request, claims, call, counted, answered>>

-----------------------------------------------------------------------------
(* Counting and answering *)

\* An error's status is not in the response yet: Fiber's error handler writes it
\* when the chain has returned.
StatusCode ==
  CASE err = 0 -> written
    [] err = OtherError -> 500
    [] OTHER -> err

\* The method is a view of the context's buffer; the label keeps a copy of it.
\* Mutant: the label keeps the view.
MethodView == "buffer"
MethodLabel == request.method

Count ==
  /\ pc = "count"
  /\ counted' = Append(counted, [method |-> MethodLabel,
                                 path |-> Route(request.target, claims # Nobody),
                                 status |-> StatusCode])
  /\ pc' = "answer"
  /\ UNCHANGED <<request, claims, call, label, written, err, stored, answered>>

\* Fiber's error handler: the code of its own errors, and 500 for any other.
ErrorHandler == IF err = OtherError THEN 500 ELSE err

Answer ==
  /\ pc = "answer"
  /\ answered' = Append(answered, [request |-> request, claims |-> claims, call |-> call,
                                   label |-> label, unwritable |-> err = OtherError,
                                   status |-> IF err = 0 THEN written ELSE ErrorHandler])
  /\ pc' = "idle"
  /\ UNCHANGED <<request, claims, call, label, written, err, counted, stored>>

Next ==
  \/ Arrive \/ Authenticate \/ RequireRole \/ Handler
  \/ Return \/ Count \/ Answer

Spec == Init /\ [][Next]_vars

-----------------------------------------------------------------------------
(* Properties *)

Statuses == {200, 201, 204, 400, 401, 403, 404, 405, 409, 500, 502, 503}

TypeOK ==
  /\ pc \in {"idle", "auth", "role", "handler", "service", "count", "answer"}
  /\ claims \in Users \cup {Nobody}
  /\ call \in TripCalls \cup {NoCall}
  /\ written \in Statuses
  /\ err \in {0, OtherError, 401, 403, 404, 405}
  /\ \A i \in 1 .. Len(stored) : stored[i].seats \in 1 .. Int4Max
  /\ Len(counted) - Len(answered) = IF pc = "answer" THEN 1 ELSE 0

\* What a label shows when it is read: a view shows the buffer as it is now.
Shown(method) == IF method = "buffer" THEN request.method ELSE method

\* Every request is counted once, with its own method and route and with the
\* status its client got, and stays counted so when the context serves another
\* request.  An error has no status in the response when it is counted.
CountedAsAnswered ==
  pc = "idle" =>
    /\ Len(counted) = Len(answered)
    /\ \A i \in 1 .. Len(counted) : LET a == answered[i] IN
         /\ Shown(counted[i].method) = a.request.method
         /\ counted[i].status = a.status
         /\ counted[i].path = "unmatched" <=> a.request.target = "unknown"
         /\ a.call # NoCall => counted[i].path = a.call

\* A trip is created, shown, published or started only for a user that Keycloak
\* vouches for in this very request; created or shown only for one with the role
\* "client", and nothing is changed in the name of a subject that is no UUID.
\* Whoever is not known is told 401, whoever lacks the role 403, and whoever has
\* no UUID where one is needed 401, whatever else is wrong with the request.
OnlyAuthorizedCallsReachTheService ==
  \A i \in 1 .. Len(answered) : LET a == answered[i] IN
    /\ a.call # NoCall => /\ a.claims = a.request.user /\ a.claims # Nobody
                          /\ a.call \in {"create", "get"} => a.request.user.client
                          /\ a.call # "get" => a.request.user.uuid
    /\ InTripGroup(a.request.target) /\ a.claims = Nobody => a.status = 401
    /\ a.claims # Nobody =>
         /\ NeedsRole(a.request.target) /\ ~a.claims.client => a.status = 403
         /\ NeedsSubject(a.request.target) /\ ~a.claims.uuid =>
              a.status = IF NeedsRole(a.request.target) /\ ~a.claims.client THEN 403 ELSE 401

\* The result counted for a publication or a creation and the status its client
\* gets are made from the same error by two separate lists, and they agree;
\* only a new trip that cannot be written as JSON is a success told as a 500.
Agrees(counter) ==
  CASE counter = "success" -> {200, 201}
    [] counter = "already_published" -> {204}
    [] counter = "validation_error" -> {400}
    [] counter = "forbidden" -> {403}
    [] counter = "not_found" -> {404}
    [] counter = "conflict" -> {409}
    [] OTHER -> {500, 502, 503}
LabelsMatchAnswers ==
  \A i \in 1 .. Len(answered) : LET a == answered[i] IN
    a.call \in {"create", "publish"} =>
      IF a.unwritable THEN a.call = "create" /\ a.label = "success" /\ a.status = 500
                      ELSE a.status \in Agrees(a.label)

\* A trip is stored with as many seats as its request asked for, whatever the
\* number: one that fits a Go int and not the column is refused, never cut to
\* size.  Every 201 has its trip.
StoredSeatsAreAsked ==
  pc = "idle" =>
    /\ \A i \in 1 .. Len(stored) :
         /\ stored[i].by \in 1 .. Len(answered)
         /\ stored[i].seats = answered[stored[i].by].request.seats
    /\ \A j \in 1 .. Len(answered) :
         answered[j].status = 201 => \E i \in 1 .. Len(stored) : stored[i].by = j
=============================================================================
