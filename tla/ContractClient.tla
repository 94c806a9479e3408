--------------------------- MODULE ContractClient ---------------------------
(***************************************************************************)
(* One permission check of the Contract client (src/internal/              *)
(* contractclient): the attempts of the HTTP client, the waits between     *)
(* them, the deadline over all of them, and the reading of the last        *)
(* answer.  The Contract Service is external; it answers, fails or stays   *)
(* silent, and its mind may change while a check runs.                     *)
(*                                                                         *)
(* Time is counted from the start of the check, in units of 200 ms.  The   *)
(* checks of different requests share nothing but the connection pool, so  *)
(* one check after another is enough.  Headers, the request body, the      *)
(* reason of an answer and the trace are left out.                         *)
(***************************************************************************)
EXTENDS Naturals, Sequences

CONSTANTS
  Timeout,     \* CONTRACT_SERVICE_TIMEOUT_MS
  RetryCount,  \* CONTRACT_SERVICE_RETRY_COUNT
  MinWait,     \* the shortest wait before a retry
  MaxWait      \* the longest

ASSUME TimesAssumption ==
  /\ Timeout \in Nat \ {0}
  /\ RetryCount \in Nat
  /\ MinWait \in Nat \ {0}
  /\ MaxWait \in Nat /\ MinWait <= MaxWait

VARIABLES
  pc,          \* "idle", "sending", "handled", "waiting" or "done"
  clock,       \* time since the check started
  attempts,    \* requests sent
  answers,     \* how each of them ended
  wakeAt,      \* when the wait in hand is over
  response,    \* what the Contract Service sends back, or "none"
  verdict,     \* what the check returns, or "none"
  permission,  \* what the Contract Service holds
  held         \* what it has held since the check started

vars == <<pc, clock, attempts, answers, wakeAt, response, verdict, permission, held>>

Decisions == {"allowed", "denied"}

\* How an attempt can end: an answer that is a decision; a 200 whose body is not
\* JSON or lacks a field; another status; a transport error; a body that breaks
\* off in a way that is no transport error; or the end of the check's time.
Faults == {"malformed", "other_status", "429", "500", "gateway", "transport", "broken"}
Answers == Decisions \cup Faults \cup {"deadline"}

\* Mutants: an internal error of the Contract Service is retried too; the fields
\* of an answer are no pointers, so that a missing one reads as FALSE.
RetriesInternalErrors(a) == a \in {"429", "gateway", "transport", "500"}
Retryable(a) == a \in {"429", "gateway", "transport"}

MissingIsDenied(a) ==
  CASE a \in Decisions -> a
    [] a = "malformed" -> "denied"
    [] a = "other_status" -> "invalid"
    [] OTHER -> "unavailable"
Verdict(a) ==
  CASE a \in Decisions -> a
    [] a \in {"malformed", "other_status"} -> "invalid"
    [] OTHER -> "unavailable"

Init ==
  /\ pc = "idle" /\ clock = 0 /\ attempts = 0 /\ answers = <<>> /\ wakeAt = 0
  /\ response = "none" /\ verdict = "none"
  /\ permission \in Decisions /\ held = {}

Start ==
  /\ pc \in {"idle", "done"}
  /\ pc' = "sending" /\ clock' = 0 /\ attempts' = 1 /\ answers' = <<>> /\ wakeAt' = 0
  /\ response' = "none" /\ verdict' = "none"
  /\ held' = {permission}
  /\ UNCHANGED permission

Handle ==
  /\ pc = "sending"
  /\ pc' = "handled"
  /\ response' = permission
  /\ UNCHANGED <<clock, attempts, answers, wakeAt, verdict, permission, held>>

\* The check returns what it makes of the last attempt.
Return(a) ==
  /\ pc' = "done"
  /\ verdict' = Verdict(a)
  /\ UNCHANGED wakeAt

\* The waits a retry may be delayed by.  Mutant: the retry follows at once.
NoPause == {0}
Waits == MinWait .. MaxWait

\* Mutant: one retry too many.
OneRetryTooMany == attempts <= RetryCount + 1
RetriesLeft == attempts <= RetryCount

\* An attempt has ended with a.  It is the last one unless a is worth a retry,
\* there are retries left, and there is time.
End(a) ==
  /\ pc \in {"sending", "handled"}
  /\ answers' = Append(answers, a)
  /\ response' = "none"
  /\ IF Retryable(a) /\ RetriesLeft /\ clock < Timeout
       THEN /\ pc' = "waiting"
            /\ \E w \in Waits : wakeAt' = clock + w
            /\ UNCHANGED verdict
       ELSE Return(a)
  /\ UNCHANGED <<clock, attempts, permission, held>>

Receive == pc = "handled" /\ End(response)

Fail == \E a \in Faults : End(a)

Retry ==
  /\ pc = "waiting" /\ clock = wakeAt /\ clock < Timeout
  /\ pc' = "sending"
  /\ attempts' = attempts + 1
  /\ UNCHANGED <<clock, answers, wakeAt, response, verdict, permission, held>>

\* The deadline of the whole check cuts an attempt or a wait short.  A retry
\* due at that very moment sends nothing, its context has ended.
\* Mutant: a silent Contract Service is waited for.
WaitsForSilence ==
  /\ pc = "waiting" /\ clock = Timeout
  /\ answers' = Append(answers, "deadline") /\ response' = "none"
  /\ Return("deadline")
  /\ UNCHANGED <<clock, attempts, permission, held>>
Expire ==
  /\ pc \in {"sending", "handled", "waiting"} /\ clock = Timeout
  /\ answers' = Append(answers, "deadline") /\ response' = "none"
  /\ Return("deadline")
  /\ UNCHANGED <<clock, attempts, permission, held>>

\* Time passes, but no further than the next timer.
Tick ==
  /\ pc \in {"sending", "handled", "waiting"} /\ clock < Timeout
  /\ pc = "waiting" => clock < wakeAt
  /\ clock' = clock + 1
  /\ UNCHANGED <<pc, attempts, answers, wakeAt, response, verdict, permission, held>>

\* A contract is signed or ends.
Change ==
  /\ permission' \in Decisions \ {permission}
  /\ held' = IF held = {} THEN {} ELSE held \cup {permission'}
  /\ UNCHANGED <<pc, clock, attempts, answers, wakeAt, response, verdict>>

Next == Start \/ Handle \/ Receive \/ Fail \/ Retry \/ Expire \/ Tick \/ Change

\* Timers fire; nothing is assumed of the Contract Service.
Spec == Init /\ [][Next]_vars /\ WF_vars(Tick) /\ WF_vars(Retry) /\ WF_vars(Expire)

-----------------------------------------------------------------------------
(* Properties *)

TypeOK ==
  /\ pc \in {"idle", "sending", "handled", "waiting", "done"}
  /\ clock \in 0 .. Timeout
  /\ attempts \in 0 .. RetryCount + 1
  /\ answers \in Seq(Answers)
  /\ wakeAt \in Nat
  /\ response \in Decisions \cup {"none"}
  /\ verdict \in Decisions \cup {"unavailable", "invalid", "none"}
  /\ permission \in Decisions
  /\ held \subseteq Decisions

\* What a retry may help against, by the service's error policy: an overloaded
\* or unreachable Contract Service, not one that failed or answered.
Transient == {"429", "gateway", "transport"}

\* A finished check is accounted for by its attempts: every attempt but the last
\* ended in a transient failure, the verdict is that of the last, and the check
\* gave up on a transient failure only because its retries or its time were used
\* up.  So a refusal of the Contract Service is never asked again, and a check
\* never gives up early.
VerdictIsExplained ==
  pc = "done" =>
    /\ Len(answers) > 0
    /\ \A i \in 1 .. Len(answers) - 1 : answers[i] \in Transient
    /\ LET last == answers[Len(answers)] IN
         /\ verdict \in Decisions => last = verdict
         /\ last \in Decisions => verdict = last
         /\ verdict = "invalid" <=> last \in {"malformed", "other_status"}
         /\ last \in Transient => attempts = RetryCount + 1 \/ clock = Timeout
         /\ last = "deadline" => clock = Timeout

\* However fast the failures come, an overloaded Contract Service sees no more
\* requests of one check than the waits between them let through.
RetriesArePaced ==
  pc # "idle" => (attempts - 1) * MinWait <= clock

\* The attempts, waits and deadlines implement the plain promise of a check: no
\* answer of an earlier check, of a broken body or of a missing field is taken
\* for a decision of the Contract Service.
Check == INSTANCE PermissionCheck
ImplementsPermissionCheck == Check!Spec

\* Every check ends, even when the Contract Service never says a word: the
\* publication that waits for it holds a request goroutine meanwhile.
EveryCheckEnds == pc \in {"sending", "handled", "waiting"} ~> pc = "done"
=============================================================================
