------------------------ MODULE ContractClientProofs ------------------------
(***************************************************************************)
(* Theorems about the permission check of ContractClient, for every        *)
(* timeout, number of retries and range of waits.                          *)
(*                                                                         *)
(* Inv says, for each place a check can be in, how its attempts, their     *)
(* results and its clock belong together; it is inductive, and the checked *)
(* invariants and the refinement of PermissionCheck follow from it.        *)
(***************************************************************************)
EXTENDS ContractClient, Integers, TLAPS

Running == {"sending", "handled", "waiting"}

AllTransient(n) == \A i \in 1 .. n : answers[i] \in Transient

\* While an attempt runs, those before it have failed; while a check waits, all have.
AttemptsInv ==
  /\ pc # "idle" => attempts >= 1
  /\ pc \in {"sending", "handled"} => Len(answers) = attempts - 1 /\ AllTransient(attempts - 1)
  /\ pc = "waiting" => /\ Len(answers) = attempts /\ AllTransient(attempts)
                       /\ attempts <= RetryCount

\* The next attempt is far enough from the first.
PaceInv ==
  /\ RetriesArePaced
  /\ pc = "waiting" => attempts * MinWait <= wakeAt

\* What is on its way from the Contract Service is what it has held.
HeldInv ==
  /\ pc = "idle" <=> held = {}
  /\ pc # "idle" => permission \in held
  /\ response \in held \cup {"none"}
  /\ pc = "handled" => response # "none"
  /\ pc = "done" <=> verdict # "none"

Inv == TypeOK /\ AttemptsInv /\ PaceInv /\ HeldInv /\ VerdictIsExplained

LEMMA InvInit == Init => Inv
BY TimesAssumption DEF Init, Inv, TypeOK, AttemptsInv, AllTransient, PaceInv, RetriesArePaced,
  HeldInv, VerdictIsExplained, Decisions, Answers, Faults

-----------------------------------------------------------------------------
(* The end of an attempt *)

\* What an attempt can end with.
LEMMA EndsOf ==
  ASSUME Inv, Receive \/ Fail
  PROVE \E a \in Answers \ {"deadline"} :
          End(a) /\ (a \in Decisions => a \in held)
<1>1. CASE Receive
  <2>1. response \in Decisions /\ response \in held
    BY <1>1 DEF Inv, TypeOK, HeldInv, Receive
  <2> QED
    BY <1>1, <2>1 DEF Receive, Answers, Decisions
<1>2. CASE Fail
  BY <1>2 DEF Fail, Answers, Faults, Decisions
<1> QED
  BY <1>1, <1>2

\* The answers so far, and one more that was transient or the last.
LEMMA Longer ==
  ASSUME NEW a \in Answers, TypeOK, NEW n \in Nat, Len(answers) = n, AllTransient(n),
         answers' = Append(answers, a)
  PROVE /\ answers' \in Seq(Answers)
        /\ Len(answers') = n + 1
        /\ answers'[n + 1] = a
        /\ \A i \in 1 .. n : answers'[i] \in Transient
<1>1. answers \in Seq(Answers)
  BY DEF TypeOK
<1> QED
  BY <1>1 DEF AllTransient

\* The verdict on an answer other than the end of the time.
LEMMA VerdictOf ==
  ASSUME NEW a \in Answers
  PROVE /\ Verdict(a) \in Decisions \cup {"unavailable", "invalid"}
        /\ Verdict(a) \in Decisions => a = Verdict(a)
        /\ a \in Decisions => Verdict(a) = a
        /\ Verdict(a) = "invalid" <=> a \in {"malformed", "other_status"}
        /\ Retryable(a) <=> a \in Transient
        /\ "deadline" \notin Transient \cup Decisions
BY DEF Answers, Faults, Decisions, Verdict, Retryable, Transient

\* Before an attempt ends, and before a check that has time left is cut short.
LEMMA BeforeEnd ==
  ASSUME Inv, pc \in Running
  PROVE \E n \in Nat : /\ Len(answers) = n /\ AllTransient(n)
                       /\ pc \in {"sending", "handled"} => n = attempts - 1
                       /\ pc = "waiting" => n = attempts
<1>1. attempts \in Nat /\ attempts >= 1
  BY TimesAssumption DEF Inv, TypeOK, AttemptsInv, Running
<1> QED
  BY <1>1 DEF Inv, AttemptsInv, Running

LEMMA EndStep ==
  ASSUME Inv, NEW a \in Answers \ {"deadline"}, End(a), a \in Decisions => a \in held
  PROVE Inv'
<1> USE DEF Inv
<1>1. pc \in {"sending", "handled"} /\ pc \in Running /\ pc # "idle"
  BY DEF End, Running
<1>2. PICK n \in Nat : Len(answers) = n /\ AllTransient(n) /\ n = attempts - 1
  BY <1>1, BeforeEnd
<1>3. /\ attempts \in 1 .. RetryCount + 1 /\ attempts = n + 1
      /\ clock \in 0 .. Timeout /\ MinWait \in Nat /\ RetryCount \in Nat /\ Timeout \in Nat
      /\ n * MinWait <= clock
  BY <1>1, <1>2, TimesAssumption DEF TypeOK, AttemptsInv, PaceInv, RetriesArePaced
<1>4. /\ answers' \in Seq(Answers) /\ Len(answers') = n + 1 /\ answers'[n + 1] = a
      /\ \A i \in 1 .. n : answers'[i] \in Transient
  BY <1>2, Longer DEF End
<1>5. /\ UNCHANGED <<clock, attempts, permission, held>> /\ response' = "none"
      /\ held # {} /\ held \subseteq Decisions /\ permission \in Decisions
      /\ verdict = "none"
  BY <1>1 DEF End, HeldInv, TypeOK
<1>6. CASE Retryable(a) /\ RetriesLeft /\ clock < Timeout
  <2>1. /\ pc' = "waiting" /\ verdict' = verdict /\ attempts <= RetryCount
        /\ \E w \in MinWait .. MaxWait : wakeAt' = clock + w
    BY <1>6 DEF End, RetriesLeft, Waits
  <2>2. PICK w \in MinWait .. MaxWait : wakeAt' = clock + w
    BY <2>1
  <2>3. wakeAt' \in Nat /\ w >= MinWait
    BY <2>2, <1>3, TimesAssumption
  <2>4. a \in Transient
    BY <1>6, VerdictOf
  <2>5. AllTransient(attempts)'
    BY <1>3, <1>4, <1>5, <2>4 DEF AllTransient
  <2>6. (n + 1) * MinWait = n * MinWait + MinWait
    BY <1>3
  <2>7. (n + 1) * MinWait <= clock + w
    <3> DEFINE p == n * MinWait
               q == (n + 1) * MinWait
    <3>1. p \in Int /\ q = p + MinWait /\ p <= clock
      BY <1>3, <2>6
    <3> HIDE DEF p, q
    <3>2. q <= clock + w
      BY <3>1, <2>3, <2>2, <1>3
    <3> QED
      BY <3>2 DEF q
  <2>8. TypeOK'
    BY <1>3, <1>4, <1>5, <2>1, <2>3 DEF TypeOK
  <2>9. AttemptsInv'
    BY <1>3, <1>4, <1>5, <2>1, <2>5 DEF AttemptsInv
  <2>10. PaceInv'
    <3>1. attempts' - 1 = n /\ attempts' = n + 1 /\ clock' = clock
      BY <1>3, <1>5
    <3>2. (attempts' - 1) * MinWait <= clock'
      BY <3>1, <1>3
    <3>3. attempts' * MinWait <= wakeAt'
      BY <3>1, <2>2, <2>7
    <3> QED
      BY <3>2, <3>3 DEF PaceInv, RetriesArePaced
  <2>11. HeldInv' /\ VerdictIsExplained'
    BY <1>5, <2>1 DEF HeldInv, VerdictIsExplained
  <2> QED
    BY <2>8, <2>9, <2>10, <2>11
<1>7. CASE ~(Retryable(a) /\ RetriesLeft /\ clock < Timeout)
  <2>1. pc' = "done" /\ verdict' = Verdict(a) /\ wakeAt' = wakeAt
    BY <1>7 DEF End, Return
  <2>2. a \in Transient => attempts' = RetryCount + 1 \/ clock' = Timeout
    BY <1>7, <1>3, <1>5, VerdictOf DEF RetriesLeft
  <2>3. TypeOK'
    BY <1>3, <1>4, <1>5, <2>1, VerdictOf DEF TypeOK
  <2>4. AttemptsInv' /\ HeldInv'
    BY <1>3, <1>5, <2>1, VerdictOf DEF AttemptsInv, HeldInv, Decisions
  <2>5. PaceInv'
    BY <1>1, <1>5, <2>1 DEF PaceInv, RetriesArePaced
  <2>6. VerdictIsExplained'
    BY <1>3, <1>4, <2>1, <2>2, VerdictOf DEF VerdictIsExplained
  <2> QED
    BY <2>3, <2>4, <2>5, <2>6
<1> QED
  BY <1>6, <1>7

LEMMA ExpireStep == ASSUME Inv, Expire PROVE Inv'
<1> USE DEF Inv
<1>1. pc \in Running /\ pc # "idle" /\ clock = Timeout
  BY DEF Expire, Running
<1>2. PICK n \in Nat : Len(answers) = n /\ AllTransient(n)
  BY <1>1, BeforeEnd
<1>3. "deadline" \in Answers
  BY DEF Answers
<1>4. /\ answers' \in Seq(Answers) /\ Len(answers') = n + 1 /\ answers'[n + 1] = "deadline"
      /\ \A i \in 1 .. n : answers'[i] \in Transient
  BY <1>2, <1>3, Longer DEF Expire
<1>5. /\ pc' = "done" /\ verdict' = "unavailable" /\ response' = "none"
      /\ UNCHANGED <<clock, attempts, wakeAt, permission, held>>
  BY DEF Expire, Return, Verdict, Decisions
<1>6. TypeOK'
  BY <1>4, <1>5 DEF TypeOK
<1>7. AttemptsInv' /\ HeldInv' /\ PaceInv'
  BY <1>1, <1>5 DEF AttemptsInv, HeldInv, PaceInv, RetriesArePaced
<1>8. VerdictIsExplained'
  BY <1>1, <1>4, <1>5, VerdictOf, <1>3 DEF VerdictIsExplained, Decisions, Transient
<1> QED
  BY <1>6, <1>7, <1>8

-----------------------------------------------------------------------------
(* The other steps *)

LEMMA StartStep == ASSUME Inv, Start PROVE Inv'
<1>1. 1 <= RetryCount + 1 /\ (1 - 1) * MinWait = 0 /\ 0 \in 0 .. Timeout
  BY TimesAssumption
<1> QED
  BY <1>1, TimesAssumption DEF Inv, Start, TypeOK, AttemptsInv, AllTransient, PaceInv,
    RetriesArePaced, HeldInv, VerdictIsExplained

LEMMA RetryStep == ASSUME Inv, Retry PROVE Inv'
<1> USE DEF Inv
<1>1. /\ attempts \in 1 .. RetryCount /\ attempts' = attempts + 1 /\ RetryCount \in Nat
      /\ Len(answers) = attempts /\ AllTransient(attempts)
      /\ attempts * MinWait <= wakeAt /\ clock = wakeAt
  BY TimesAssumption DEF Retry, TypeOK, AttemptsInv, PaceInv
<1>2. attempts' - 1 = attempts /\ attempts' \in 1 .. RetryCount + 1
  BY <1>1
<1>3. /\ pc = "waiting" /\ pc' = "sending"
      /\ UNCHANGED <<clock, answers, wakeAt, response, verdict, permission, held>>
  BY DEF Retry
<1>4. TypeOK'
  BY <1>2, <1>3, TimesAssumption DEF TypeOK
<1>5. AttemptsInv'
  BY <1>1, <1>2, <1>3 DEF AttemptsInv, AllTransient
<1>6. PaceInv'
  BY <1>1, <1>2, <1>3 DEF PaceInv, RetriesArePaced
<1>7. HeldInv' /\ VerdictIsExplained'
  BY <1>3 DEF HeldInv, VerdictIsExplained
<1> QED
  BY <1>4, <1>5, <1>6, <1>7

LEMMA TickStep == ASSUME Inv, Tick PROVE Inv'
<1> USE DEF Inv
<1>1. /\ clock \in 0 .. Timeout /\ clock < Timeout /\ clock' = clock + 1 /\ Timeout \in Nat
      /\ pc \in Running /\ pc # "idle" /\ pc # "done"
      /\ UNCHANGED <<pc, attempts, answers, wakeAt, response, verdict, permission, held>>
  BY TimesAssumption DEF Tick, TypeOK, Running
<1>2. TypeOK'
  BY <1>1 DEF TypeOK
<1>3. AttemptsInv' /\ HeldInv' /\ VerdictIsExplained'
  BY <1>1 DEF AttemptsInv, AllTransient, HeldInv, VerdictIsExplained
<1>4. PaceInv'
  <2> DEFINE p == (attempts - 1) * MinWait
  <2>1. p \in Int /\ p <= clock
    BY <1>1, TimesAssumption DEF PaceInv, RetriesArePaced, TypeOK
  <2> HIDE DEF p
  <2>2. p <= clock'
    BY <1>1, <2>1
  <2> QED
    BY <1>1, <2>2 DEF PaceInv, RetriesArePaced, p
<1> QED
  BY <1>2, <1>3, <1>4

LEMMA HandleOrChangeStep == ASSUME Inv, Handle \/ Change PROVE Inv'
<1>1. CASE Handle
  <2>1. permission \in Decisions /\ pc' = "handled" /\ pc = "sending" /\ response' = permission
        /\ UNCHANGED <<clock, attempts, answers, wakeAt, verdict, permission, held>>
    BY <1>1 DEF Inv, TypeOK, Handle
  <2>2. permission \in held
    BY <2>1 DEF Inv, HeldInv
  <2> QED
    BY <2>1, <2>2 DEF Inv, TypeOK, AttemptsInv, AllTransient, PaceInv, RetriesArePaced, HeldInv,
      VerdictIsExplained, Decisions
<1>2. CASE Change
  BY <1>2 DEF Inv, Change, TypeOK, AttemptsInv, AllTransient, PaceInv, RetriesArePaced, HeldInv,
    VerdictIsExplained, Decisions
<1> QED
  BY <1>1, <1>2

LEMMA InvNext == ASSUME Inv, [Next]_vars PROVE Inv'
<1>1. CASE Receive \/ Fail
  BY <1>1, EndsOf, EndStep
<1>2. CASE UNCHANGED vars
  BY <1>2 DEF vars, Inv, TypeOK, AttemptsInv, AllTransient, PaceInv, RetriesArePaced, HeldInv,
    VerdictIsExplained
<1> QED
  BY <1>1, <1>2, StartStep, RetryStep, ExpireStep, TickStep, HandleOrChangeStep DEF Next

LEMMA SpecInv == Spec => []Inv
<1>1. Inv /\ [Next]_vars => Inv'
  BY InvNext
<1> QED
  BY InvInit, <1>1, PTL DEF Spec

-----------------------------------------------------------------------------
(* The theorems *)

\* A check is always in a state its types allow: it sends at most RetryCount + 1
\* requests, and its clock never passes the timeout (check_service.go).
THEOREM TypeCorrect == Spec => []TypeOK
<1>1. Inv => TypeOK
  BY DEF Inv
<1> QED
  BY SpecInv, <1>1, PTL

\* Every verdict is accounted for by the attempts of its check, for any timeout
\* and number of retries (contract.go, the retry condition; check_service.go).
THEOREM VerdictsExplained == Spec => []VerdictIsExplained
<1>1. Inv => VerdictIsExplained
  BY DEF Inv
<1> QED
  BY SpecInv, <1>1, PTL

\* The requests of a check are at least MinWait apart (contract.go, the waits).
THEOREM RetriesPaced == Spec => []RetriesArePaced
<1>1. Inv => RetriesArePaced
  BY DEF Inv, PaceInv
<1> QED
  BY SpecInv, <1>1, PTL

LEMMA CheckInit == Init => Check!Init
BY DEF Init, Check!Init, Decisions

\* The end of a check is an answer it may give.
LEMMA AnswerStep ==
  ASSUME Inv, pc \in Running, NEW a \in Answers, a \in Decisions => a \in held,
         verdict' = Verdict(a), UNCHANGED <<permission, held>>
  PROVE Check!Answer
<1>1. held # {} /\ verdict = "none"
  BY DEF Inv, HeldInv, Running
<1>2. Verdict(a) \in held \cup {"unavailable", "invalid"}
  BY VerdictOf
<1> QED
  BY <1>1, <1>2 DEF Check!Answer

LEMMA CheckNext == ASSUME Inv, [Next]_vars PROVE [Check!Next]_(Check!vars)
<1>1. CASE Receive \/ Fail
  <2>1. PICK a \in Answers \ {"deadline"} : End(a) /\ (a \in Decisions => a \in held)
    BY <1>1, EndsOf
  <2>2. pc \in Running /\ UNCHANGED <<permission, held>>
    BY <2>1 DEF End, Running
  <2>3. verdict' = verdict \/ verdict' = Verdict(a)
    BY <2>1 DEF End, Return
  <2>4. CASE verdict' = verdict
    BY <2>2, <2>4 DEF Check!vars
  <2>5. CASE verdict' = Verdict(a)
    BY <2>1, <2>2, <2>5, AnswerStep DEF Check!Next
  <2> QED
    BY <2>3, <2>4, <2>5
<1>2. CASE Expire
  <2>1. pc \in Running /\ verdict' = Verdict("deadline") /\ UNCHANGED <<permission, held>>
    BY <1>2 DEF Expire, Return, Running
  <2>2. "deadline" \in Answers /\ "deadline" \notin Decisions
    BY DEF Answers, Decisions
  <2> QED
    BY <2>1, <2>2, AnswerStep DEF Check!Next
<1>3. CASE Start
  BY <1>3 DEF Start, Check!Next, Check!Ask
<1>4. CASE Change
  BY <1>4 DEF Change, Check!Next, Check!Change, Decisions
<1>5. CASE Handle \/ Retry \/ Tick \/ UNCHANGED vars
  BY <1>5 DEF Handle, Retry, Tick, vars, Check!vars
<1> QED
  BY <1>1, <1>2, <1>3, <1>4, <1>5 DEF Next

\* The client implements PermissionCheck: with any number of attempts, waits and
\* deadlines, it says "allowed" or "denied" only if the Contract Service held so
\* at some moment of the check.
THEOREM Refinement == Spec => ImplementsPermissionCheck
<1>1. Inv /\ [Next]_vars => [Check!Next]_(Check!vars)
  BY CheckNext
<1> QED
  BY CheckInit, SpecInv, <1>1, PTL DEF Spec, Check!Spec, ImplementsPermissionCheck
=============================================================================
