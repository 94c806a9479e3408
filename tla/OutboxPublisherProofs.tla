----------------------- MODULE OutboxPublisherProofs -----------------------
(***************************************************************************)
(* Theorems of OutboxPublisher, for any rows, publishers, sessions, batch  *)
(* size and number of faults: its types, its safety properties, and that   *)
(* it implements OutboxDelivery.                                           *)
(***************************************************************************)
EXTENDS OutboxPublisher, FiniteSetTheorems, TLAPS

----------------------------------------------------------------------------
(* The inductive invariant *)

\* A row: its status agrees with what Kafka has, and only a pending row is
\* locked, by a transaction the server has not ended.
RowInv(e) ==
  /\ status[e] = "sent" => kafka[e] > 0
  /\ kafka[e] > 0 => status[e] \in {"pending", "sent"}
  /\ e \in Legacy <=> status[e] = "failed"
  /\ e \in Legacy => attempts[e] = 0
  /\ locked[e] # NoSession =>
       status[e] = "pending" /\ session[locked[e]] \in {"open", "committing"}

\* A session marks only rows it has locked, "sent" only what Kafka has.
MarkInv(s) ==
  \A e \in Events :
    /\ marks[s][e] # "none" => locked[e] = s
    /\ marks[s][e] = "sent" => kafka[e] > 0

\* What a publisher is going to send or to mark was pending when it was locked,
\* and is locked still if the server has not ended the session.
PubInv(p) ==
  /\ conn[p] = NoSession <=> pc[p] \in {"waiting", "count", "down"}
  /\ pc[p] \notin {"lock", "send", "mark"} => todo[p] = {}
  /\ conn[p] # NoSession => session[conn[p]] \in {"open", "broken"}
  /\ pc[p] = "mark" <=> current[p] # NoEvent
  /\ pc[p] = "mark" => outcome[p] # "none"
  /\ outcome[p] = "sent" => current[p] # NoEvent /\ kafka[current[p]] > 0
  /\ \A e \in Events : e \in todo[p] \/ e = current[p] =>
       /\ status[e] \in {"pending", "sent"}
       /\ session[conn[p]] = "open" => locked[e] = conn[p]

\* Two publishers never share a session.
Separate ==
  \A p, q \in Publishers : conn[p] = conn[q] /\ conn[p] # NoSession => p = q

OInv ==
  /\ TypeOK
  /\ \A e \in Events : RowInv(e)
  /\ \A s \in Sessions : MarkInv(s)
  /\ \A p \in Publishers : PubInv(p)
  /\ Separate

\* The gauge shows a number.
LEMMA PendingIsCountable == Cardinality({e \in Events : Counted(e)}) \in Nat
<1>1. IsFiniteSet({e \in Events : Counted(e)})
  BY EventsAssumption, FS_Subset
<1> QED
  BY <1>1, FS_CardinalityType

\* Faults are counted.
LEMMA FaultType == ASSUME TypeOK PROVE /\ Fault => faults' \in Nat
                                      /\ \A n \in Nat : Faults(n) => faults' \in Nat
  BY DEF TypeOK, Fault, Faults

\* The invariant holds initially.
LEMMA OInvInit == Init => OInv
<1> SUFFICES ASSUME Init PROVE OInv
  OBVIOUS
<1>1. TypeOK
  BY NoneAssumption DEF Init, TypeOK, Statuses, Steps, Marks, NoMarks
<1>2. \A e \in Events : RowInv(e)
  BY DEF Init, RowInv
<1>3. \A s \in Sessions : MarkInv(s)
  BY DEF Init, MarkInv, NoMarks
<1>4. \A p \in Publishers : PubInv(p)
  BY NoneAssumption DEF Init, PubInv
<1>5. Separate
  BY DEF Init, Separate
<1> QED
  BY <1>1, <1>2, <1>3, <1>4, <1>5 DEF OInv

\* It does not depend on anything but the variables.
LEMMA OInvStutter == OInv /\ UNCHANGED vars => OInv'
<1> SUFFICES ASSUME OInv, UNCHANGED vars PROVE OInv'
  OBVIOUS
<1>1. UNCHANGED <<status, attempts, locked, session, marks, pc, conn, scan, todo,
                  current, outcome, gauge, kafka, faults>>
  BY DEF vars
<1> QED
  BY <1>1 DEF OInv, TypeOK, RowInv, MarkInv, PubInv, Separate

----------------------------------------------------------------------------
(* Steps that change neither the database nor Kafka *)

\* A publisher changes its own state only.
OnlyLocal(p) ==
  /\ \A q \in Publishers \ {p} :
       UNCHANGED <<pc[q], conn[q], todo[q], current[q], outcome[q]>>
  /\ UNCHANGED <<dbVars, kafka>>

\* Such a step keeps the invariant if it keeps the publisher's part.
LEMMA LocalStep ==
  ASSUME OInv, NEW p \in Publishers, OnlyLocal(p), TypeOK', PubInv(p)',
         conn'[p] \in {conn[p], NoSession}
  PROVE  OInv'
<1>1. UNCHANGED <<status, attempts, locked, session, marks, kafka>>
  BY DEF OnlyLocal, dbVars
<1>2. \A e \in Events : RowInv(e)'
  BY <1>1 DEF OInv, RowInv
<1>3. \A s \in Sessions : MarkInv(s)'
  BY <1>1 DEF OInv, MarkInv
<1>4. ASSUME NEW q \in Publishers PROVE PubInv(q)'
  <2>1. CASE q = p
    BY <2>1
  <2>2. CASE q # p
    BY <1>1, <2>2 DEF OInv, PubInv, OnlyLocal
  <2> QED
    BY <2>1, <2>2
<1>5. Separate'
  BY DEF OInv, Separate, OnlyLocal
<1> QED
  BY <1>2, <1>3, <1>4, <1>5 DEF OInv

\* A tick without a transaction, the count, and a restart: the publisher has no
\* session, before and after.
LEMMA OInvIdle ==
  ASSUME OInv, NEW p \in Publishers,
         BeginFails(p) \/ CountPending(p) \/ CountFails(p) \/ Restart(p)
  PROVE  OInv'
<1>1. /\ TypeOK /\ PubInv(p)
      /\ pc[p] \in {"waiting", "count", "down"}
      /\ UNCHANGED <<status, attempts, locked, session, marks, conn, scan, todo, current, outcome,
                     kafka>>
      /\ pc' \in [Publishers -> Steps] /\ pc'[p] \in {"waiting", "count"}
      /\ \A q \in Publishers \ {p} : pc'[q] = pc[q]
  BY DEF OInv, TypeOK, BeginFails, CountPending, CountFails, Restart, Goto, Steps, dbVars
<1>2. gauge' \in [Publishers -> Nat]
  BY <1>1, PendingIsCountable DEF TypeOK, BeginFails, CountPending, CountFails, Restart
<1>3. faults' \in Nat
  BY <1>1, FaultType DEF TypeOK, BeginFails, CountPending, CountFails, Restart
<1>4. TypeOK'
  BY <1>1, <1>2, <1>3 DEF TypeOK
<1>5. PubInv(p)'
  BY <1>1 DEF PubInv
<1> QED
  BY <1>1, <1>4, <1>5, LocalStep DEF OnlyLocal, dbVars

\* The publisher forgets its batch.
LEMMA ForgetStep ==
  ASSUME TypeOK, NEW p \in Publishers, Forget(p)
  PROVE  /\ todo'[p] = {} /\ current'[p] = NoEvent /\ outcome'[p] = "none"
         /\ \A q \in Publishers \ {p} : UNCHANGED <<todo[q], current[q], outcome[q]>>
         /\ scan' \in [Publishers -> SUBSET Events]
         /\ todo' \in [Publishers -> SUBSET Events]
         /\ current' \in [Publishers -> Events \cup {NoEvent}]
         /\ outcome' \in [Publishers -> Marks]
  BY DEF TypeOK, Forget, Marks

\* A SELECT or a mark that fails: the publisher forgets the batch.
LEMMA OInvMarkFails ==
  ASSUME OInv, NEW p \in Publishers, MarkFails(p) \/ LockPendingFails(p)
  PROVE  OInv'
<1>1. /\ TypeOK /\ PubInv(p) /\ Forget(p)
      /\ pc[p] \in {"lock", "mark"} /\ pc'[p] = "rollback"
      /\ UNCHANGED <<status, attempts, locked, session, marks, conn, gauge, kafka>>
      /\ \A q \in Publishers \ {p} : pc'[q] = pc[q]
      /\ pc' \in [Publishers -> Steps]
  BY DEF OInv, TypeOK, MarkFails, LockPendingFails, Goto, Steps, dbVars
<1>2. faults' \in Nat
  BY <1>1, FaultType DEF TypeOK, MarkFails, LockPendingFails
<1>3. TypeOK'
  BY <1>1, <1>2, ForgetStep DEF TypeOK
<1>4. PubInv(p)'
  BY <1>1, ForgetStep, NoneAssumption DEF PubInv
<1> QED
  BY <1>1, <1>3, <1>4, ForgetStep, LocalStep DEF OnlyLocal, dbVars

\* A SELECT that ends with its connection: the publisher has no session any more.
LEMMA OInvLockPendingLost ==
  ASSUME OInv, NEW p \in Publishers, LockPendingLost(p)
  PROVE  OInv'
<1>1. /\ TypeOK /\ PubInv(p) /\ Forget(p)
      /\ pc[p] = "lock" /\ pc'[p] = "count" /\ conn'[p] = NoSession
      /\ UNCHANGED <<status, attempts, locked, session, marks, gauge, kafka>>
      /\ \A q \in Publishers \ {p} : UNCHANGED <<pc[q], conn[q]>>
      /\ pc' \in [Publishers -> Steps]
      /\ conn' \in [Publishers -> Sessions \cup {NoSession}]
  BY DEF OInv, TypeOK, LockPendingLost, Goto, Steps, dbVars
<1>2. TypeOK'
  BY <1>1, ForgetStep, FaultType DEF TypeOK, LockPendingLost
<1>3. PubInv(p)'
  BY <1>1, ForgetStep, NoneAssumption DEF PubInv
<1> QED
  BY <1>1, <1>2, <1>3, ForgetStep, LocalStep DEF OnlyLocal, dbVars

\* LockPending returns the rows it has locked.
LEMMA OInvLockPending ==
  ASSUME OInv, NEW p \in Publishers, LockPending(p)
  PROVE  OInv'
<1>1. /\ TypeOK /\ PubInv(p)
      /\ pc[p] = "lock" /\ pc'[p] = AfterEvent(todo[p])
      /\ UNCHANGED <<status, attempts, locked, session, marks, conn, todo, current,
                     outcome, gauge, kafka, faults>>
      /\ \A q \in Publishers \ {p} : pc'[q] = pc[q]
      /\ pc' \in [Publishers -> Steps]
      /\ scan' \in [Publishers -> SUBSET Events]
  BY DEF OInv, TypeOK, LockPending, Goto, Steps, dbVars, AfterEvent
<1>2. TypeOK'
  BY <1>1 DEF TypeOK
<1>3. PubInv(p)'
  BY <1>1 DEF PubInv, AfterEvent
<1> QED
  BY <1>1, <1>2, <1>3, LocalStep DEF OnlyLocal, dbVars

\* A lost ROLLBACK leaves the transaction to the server.
LEMMA OInvRollbackLost ==
  ASSUME OInv, NEW p \in Publishers, RollbackLost(p)
  PROVE  OInv'
<1>1. /\ TypeOK /\ PubInv(p)
      /\ pc[p] = "rollback" /\ pc'[p] = "count" /\ conn'[p] = NoSession
      /\ UNCHANGED <<status, attempts, locked, session, marks, scan, todo, current,
                     outcome, gauge, kafka>>
      /\ \A q \in Publishers \ {p} : UNCHANGED <<pc[q], conn[q]>>
  BY DEF OInv, TypeOK, RollbackLost, Leave, Goto, dbVars
<1>2. /\ pc' \in [Publishers -> Steps]
      /\ conn' \in [Publishers -> Sessions \cup {NoSession}]
  BY <1>1 DEF TypeOK, RollbackLost, Leave, Goto, Steps
<1>3. faults' \in Nat
  BY <1>1, FaultType DEF RollbackLost
<1>4. TypeOK'
  BY <1>1, <1>2, <1>3 DEF TypeOK
<1>5. PubInv(p)'
  BY <1>1, NoneAssumption DEF PubInv, TypeOK
<1> QED
  BY <1>1, <1>4, <1>5, LocalStep DEF OnlyLocal, dbVars

----------------------------------------------------------------------------
(* Sending and marking *)

\* The event at hand is settled with "result", and Kafka has it if it is "sent".
LEMMA OInvHandle ==
  ASSUME OInv, NEW p \in Publishers, NEW e \in Events, NEW result \in {"sent", "failed"},
         Handle(p, e, result), Goto(p, "mark"),
         UNCHANGED dbVars,
         kafka' \in [Events -> Nat], \A f \in Events : kafka'[f] >= kafka[f],
         \A f \in Events \ {e} : kafka'[f] = kafka[f],
         result = "sent" => kafka'[e] > 0,
         faults' \in Nat
  PROVE  OInv'
<1>1. /\ TypeOK /\ PubInv(p)
      /\ pc[p] = "send" /\ pc'[p] = "mark" /\ e \in todo[p]
      /\ todo'[p] = todo[p] \ {e} /\ current'[p] = e /\ outcome'[p] = result
      /\ UNCHANGED <<status, attempts, locked, session, marks, conn, scan, gauge>>
      /\ \A q \in Publishers \ {p} :
           UNCHANGED <<pc[q], todo[q], current[q], outcome[q]>>
  BY DEF OInv, TypeOK, Handle, Goto, dbVars, Oldest
<1>2. /\ pc' \in [Publishers -> Steps]
      /\ todo' \in [Publishers -> SUBSET Events]
      /\ current' \in [Publishers -> Events \cup {NoEvent}]
      /\ outcome' \in [Publishers -> Marks]
  BY <1>1 DEF TypeOK, Handle, Goto, Steps, Marks
<1>3. TypeOK'
  BY <1>1, <1>2 DEF TypeOK
<1>4. status[e] \in {"pending", "sent"}
  BY <1>1 DEF PubInv
<1>5. /\ kafka \in [Events -> Nat]
      /\ \A f \in Events : kafka[f] > 0 => kafka'[f] > 0
  BY <1>1 DEF TypeOK
<1>6. ASSUME NEW f \in Events PROVE RowInv(f)'
  <2>1. RowInv(f)
    BY DEF OInv
  <2> QED
    BY <1>1, <1>4, <1>5, <2>1 DEF RowInv
<1>7. \A s \in Sessions : MarkInv(s)'
  BY <1>1, <1>5 DEF OInv, MarkInv
<1>8. PubInv(p)'
  BY <1>1, NoneAssumption DEF PubInv
<1>9. ASSUME NEW q \in Publishers \ {p} PROVE PubInv(q)'
  <2>1. PubInv(q) /\ current[q] \in Events \cup {NoEvent}
    BY <1>1 DEF OInv, TypeOK
  <2> QED
    BY <1>1, <1>5, <2>1 DEF PubInv
<1>10. Separate'
  BY <1>1 DEF OInv, Separate
<1> QED
  BY <1>3, <1>6, <1>7, <1>8, <1>9, <1>10 DEF OInv

\* Every way a message is sent, or not.
LEMMA OInvSend ==
  ASSUME OInv, NEW p \in Publishers,
         \/ Send(p) \/ SendRepeated(p) \/ SendFails(p) \/ SendUnacknowledged(p)
         \/ DecodeFails(p)
  PROVE  OInv'
<1>1. TypeOK /\ kafka \in [Events -> Nat] /\ faults \in Nat /\ Poison \subseteq Events
  BY EventsAssumption DEF OInv, TypeOK
<1>2. WriterAttempts \in Nat
  BY BoundsAssumption
<1>3. CASE Send(p)
  <2>1. PICK e \in Events \ Poison :
          Handle(p, e, "sent") /\ kafka' = [kafka EXCEPT ![e] = @ + 1]
    BY <1>3 DEF Send
  <2> QED
    BY <1>1, <1>3, <2>1, OInvHandle DEF Send
<1>4. CASE SendRepeated(p)
  <2>1. PICK e \in Events \ Poison, n \in 2 .. WriterAttempts :
          Faults(n - 1) /\ Handle(p, e, "sent") /\ kafka' = [kafka EXCEPT ![e] = @ + n]
    BY <1>4 DEF SendRepeated
  <2>2. n \in Nat /\ n > 0 /\ n - 1 \in Nat
    BY <1>2
  <2> QED
    BY <1>1, <1>4, <2>1, <2>2, OInvHandle, FaultType DEF SendRepeated
<1>5. CASE SendFails(p)
  <2>1. PICK e \in Events \ Poison : Handle(p, e, "failed")
    BY <1>5 DEF SendFails, ResultOfError
  <2> QED
    BY <1>1, <1>5, <2>1, OInvHandle, FaultType DEF SendFails, AfterFailure
<1>6. CASE SendUnacknowledged(p)
  <2>1. PICK e \in Events \ Poison, n \in 1 .. WriterAttempts :
          Faults(n) /\ Handle(p, e, "failed") /\ kafka' = [kafka EXCEPT ![e] = @ + n]
    BY <1>6 DEF SendUnacknowledged, ResultOfError
  <2>2. n \in Nat
    BY <1>2
  <2> QED
    BY <1>1, <1>6, <2>1, <2>2, OInvHandle, FaultType DEF SendUnacknowledged, AfterFailure
<1>7. CASE DecodeFails(p)
  <2>1. PICK e \in Poison : Handle(p, e, "failed")
    BY <1>7 DEF DecodeFails, ResultOfError
  <2> QED
    BY <1>1, <1>7, <2>1, OInvHandle DEF DecodeFails, AfterFailure
<1> QED
  BY <1>3, <1>4, <1>5, <1>6, <1>7

\* A mark is on a row the session has locked.
LEMMA OInvMark ==
  ASSUME OInv, NEW p \in Publishers, Mark(p)
  PROVE  OInv'
<1> DEFINE s == conn[p]
           e == current[p]
<1>1. /\ TypeOK /\ PubInv(p) /\ Alive(p)
      /\ pc[p] = "mark" /\ pc'[p] = AfterEvent(todo[p])
      /\ current'[p] = NoEvent /\ outcome'[p] = "none"
      /\ UNCHANGED <<status, attempts, locked, session, conn, scan, todo, gauge, kafka,
                     faults>>
      /\ \A q \in Publishers \ {p} : UNCHANGED <<pc[q], current[q], outcome[q]>>
  BY DEF OInv, TypeOK, Mark, Goto
<1>2. /\ s \in Sessions /\ e \in Events
      /\ outcome[p] \in {"sent", "failed"}
      /\ outcome[p] = "sent" => kafka[e] > 0
      /\ locked[e] = s
  <2>1. s # NoSession /\ e # NoEvent /\ outcome[p] # "none"
    BY <1>1 DEF PubInv
  <2>2. s \in Sessions /\ e \in Events /\ outcome[p] \in {"sent", "failed"}
    BY <1>1, <2>1 DEF TypeOK, Marks
  <2> QED
    BY <1>1, <2>2 DEF PubInv, Alive
<1>3. /\ marks' = [marks EXCEPT ![s][e] = outcome[p]]
      /\ marks' \in [Sessions -> [Events -> Marks]]
  BY <1>1, <1>2 DEF TypeOK, Mark, Marks
<1>4. TypeOK'
  <2>1. AfterEvent(todo[p]) \in Steps
    BY DEF AfterEvent, Steps
  <2>2. /\ pc' \in [Publishers -> Steps]
        /\ current' \in [Publishers -> Events \cup {NoEvent}]
        /\ outcome' \in [Publishers -> Marks]
    BY <1>1, <2>1 DEF TypeOK, Mark, Goto, Marks
  <2> QED
    BY <1>1, <1>3, <2>2 DEF TypeOK
<1>5. \A f \in Events : RowInv(f)'
  BY <1>1 DEF OInv, RowInv
<1>6. ASSUME NEW r \in Sessions PROVE MarkInv(r)'
  <2>1. MarkInv(r) /\ marks \in [Sessions -> [Events -> Marks]]
    BY DEF OInv, TypeOK
  <2>2. CASE r # s
    BY <1>1, <1>2, <1>3, <2>1, <2>2 DEF MarkInv
  <2>3. CASE r = s
    <3>1. \A f \in Events : marks'[r][f] = IF f = e THEN outcome[p] ELSE marks[r][f]
      BY <1>2, <1>3, <2>1, <2>3
    <3> QED
      BY <1>1, <1>2, <2>1, <2>3, <3>1 DEF MarkInv
  <2> QED
    BY <2>2, <2>3
<1>7. PubInv(p)'
  BY <1>1, NoneAssumption DEF PubInv, AfterEvent
<1>8. \A q \in Publishers \ {p} : PubInv(q)'
  BY <1>1 DEF OInv, PubInv
<1>9. Separate'
  BY <1>1 DEF OInv, Separate
<1> QED
  BY <1>4, <1>5, <1>6, <1>7, <1>8, <1>9 DEF OInv

----------------------------------------------------------------------------
(* A new row, a new batch *)

\* A new row is pending, unlocked and unknown to Kafka.
LEMMA OInvInsert ==
  ASSUME OInv, NEW e \in Events, Insert(e)
  PROVE  OInv'
<1>1. /\ TypeOK /\ RowInv(e) /\ status[e] = "none"
      /\ UNCHANGED <<attempts, locked, session, marks, pc, conn, scan, todo, current,
                     outcome, gauge, kafka, faults>>
      /\ status'[e] = "pending"
      /\ \A f \in Events \ {e} : status'[f] = status[f]
      /\ status' \in [Events -> Statuses]
  BY DEF OInv, TypeOK, Insert, localVars, Statuses
<1>2. TypeOK'
  BY <1>1 DEF TypeOK
<1>3. \A f \in Events : RowInv(f)'
  BY <1>1 DEF OInv, RowInv
<1>4. \A s \in Sessions : MarkInv(s)'
  BY <1>1 DEF OInv, MarkInv
<1>5. ASSUME NEW p \in Publishers PROVE PubInv(p)'
  <2>1. PubInv(p)
    BY DEF OInv
  <2> QED
    BY <1>1, <2>1 DEF PubInv
<1>6. Separate'
  BY <1>1 DEF OInv, Separate
<1> QED
  BY <1>2, <1>3, <1>4, <1>5, <1>6 DEF OInv

\* An idle session has no rows, no marks and no publisher.
LEMMA IdleIsFree ==
  ASSUME OInv, NEW s \in Sessions, session[s] = "idle"
  PROVE  /\ \A e \in Events : locked[e] # s /\ marks[s][e] = "none"
         /\ \A p \in Publishers : conn[p] # s
<1>1. ASSUME NEW e \in Events PROVE locked[e] # s
  BY <1>1, NoneAssumption DEF OInv, RowInv
<1>2. \A e \in Events : marks[s][e] = "none"
  BY <1>1 DEF OInv, MarkInv
<1>3. \A p \in Publishers : conn[p] # s
  BY NoneAssumption DEF OInv, PubInv
<1> QED
  BY <1>1, <1>2, <1>3

\* A publisher keeps its part when sessions it does not use change and its own
\* keeps its state.
LEMMA SessionFrame ==
  ASSUME OInv, NEW q \in Publishers,
         UNCHANGED <<status, locked, kafka>>,
         UNCHANGED <<pc[q], conn[q], todo[q], current[q], outcome[q]>>,
         conn[q] # NoSession => session'[conn[q]] = session[conn[q]]
  PROVE  PubInv(q)'
<1>1. PubInv(q) /\ current[q] \in Events \cup {NoEvent}
  BY DEF OInv, TypeOK
<1> QED
  BY <1>1, NoneAssumption DEF PubInv

\* A transaction begins, in a session that was free.
LEMMA OInvOpenBatch ==
  ASSUME OInv, NEW p \in Publishers, OpenBatch(p)
  PROVE  OInv'
<1>1. PICK s \in Sessions :
        /\ session[s] = "idle"
        /\ session' = [session EXCEPT ![s] = "open"]
        /\ conn' = [conn EXCEPT ![p] = s]
  BY DEF OpenBatch
<1>2. /\ TypeOK /\ PubInv(p) /\ s # NoSession
      /\ pc[p] = "waiting" /\ pc'[p] = "lock" /\ conn'[p] = s
      /\ session'[s] = "open" /\ \A r \in Sessions \ {s} : session'[r] = session[r]
      /\ UNCHANGED <<status, attempts, locked, marks, todo, current, outcome, gauge,
                     kafka, faults>>
      /\ \A q \in Publishers \ {p} : UNCHANGED <<pc[q], conn[q]>>
  BY <1>1, NoneAssumption DEF OInv, TypeOK, OpenBatch, Goto
<1>3. /\ \A e \in Events : locked[e] # s
      /\ \A q \in Publishers : conn[q] # s
  BY <1>1, IdleIsFree
<1>4. TypeOK'
  <2>1. /\ pc' \in [Publishers -> Steps]
        /\ conn' \in [Publishers -> Sessions \cup {NoSession}]
        /\ session' \in [Sessions -> {"idle", "open", "committing", "broken"}]
        /\ scan' \in [Publishers -> SUBSET Events]
    BY <1>1, <1>2 DEF TypeOK, OpenBatch, Goto, Steps
  <2> QED
    BY <1>2, <2>1 DEF TypeOK
<1>5. ASSUME NEW e \in Events PROVE RowInv(e)'
  <2>1. RowInv(e) /\ locked[e] \in Sessions \cup {NoSession}
    BY <1>2 DEF OInv, TypeOK
  <2> QED
    BY <1>2, <1>3, <2>1 DEF RowInv
<1>6. \A r \in Sessions : MarkInv(r)'
  BY <1>2 DEF OInv, MarkInv
<1>7. PubInv(p)'
  BY <1>2, NoneAssumption DEF PubInv
<1>8. ASSUME NEW q \in Publishers \ {p} PROVE PubInv(q)'
  <2>1. conn[q] # NoSession => conn[q] \in Sessions \ {s}
    BY <1>2, <1>3 DEF TypeOK
  <2> QED
    BY <1>2, <2>1, SessionFrame
<1>9. Separate'
  BY <1>2, <1>3 DEF OInv, Separate
<1> QED
  BY <1>4, <1>5, <1>6, <1>7, <1>8, <1>9 DEF OInv

\* The SELECT comes to a row, and locks it if it is pending and nobody else's.
LEMMA OInvLockRow ==
  ASSUME OInv, NEW p \in Publishers, LockRow(p)
  PROVE  OInv'
<1> DEFINE s == conn[p]
<1>1. /\ TypeOK /\ PubInv(p) /\ pc[p] = "lock" /\ Alive(p)
      /\ UNCHANGED <<status, attempts, session, marks, pc, conn, current, outcome,
                     gauge, kafka, faults>>
  BY DEF OInv, LockRow
<1>2. PICK e \in Events :
        /\ scan' = [scan EXCEPT ![p] = @ \ {e}]
        /\ \/ /\ status[e] = "pending" /\ locked[e] = NoSession
              /\ todo' = [todo EXCEPT ![p] = @ \cup {e}]
              /\ locked' = [locked EXCEPT ![e] = s]
           \/ UNCHANGED <<todo, locked>>
  <2>1. scan[p] \subseteq Events
    BY <1>1 DEF TypeOK
  <2> QED
    BY <2>1 DEF LockRow, Oldest, Selectable, Unlocked
<1>3. s \in Sessions /\ s # NoSession /\ session[s] = "open"
  BY <1>1 DEF PubInv, TypeOK, Alive
<1>4. /\ scan' \in [Publishers -> SUBSET Events]
      /\ todo' \in [Publishers -> SUBSET Events]
      /\ locked' \in [Events -> Sessions \cup {NoSession}]
  <2>1. /\ scan \in [Publishers -> SUBSET Events]
        /\ todo \in [Publishers -> SUBSET Events]
        /\ locked \in [Events -> Sessions \cup {NoSession}]
    BY <1>1 DEF TypeOK
  <2>2. scan' \in [Publishers -> SUBSET Events]
    <3>1. scan[p] \ {e} \in SUBSET Events
      BY <2>1
    <3> QED
      BY <1>2, <2>1, <3>1
  <2>3. todo' \in [Publishers -> SUBSET Events]
    <3>1. todo[p] \cup {e} \in SUBSET Events
      BY <2>1
    <3> QED
      BY <1>2, <2>1, <3>1
  <2>4. locked' \in [Events -> Sessions \cup {NoSession}]
    BY <1>2, <1>3, <2>1
  <2> QED
    BY <2>2, <2>3, <2>4
<1>5. /\ \A q \in Publishers \ {p} : todo'[q] = todo[q]
      /\ \A f \in Events \ {e} : locked'[f] = locked[f] /\ (f \in todo'[p] => f \in todo[p])
      /\ locked[e] # NoSession => locked'[e] = locked[e]
      /\ \/ status[e] = "pending" /\ locked'[e] = s
         \/ locked'[e] = locked[e] /\ (e \in todo'[p] => e \in todo[p])
  BY <1>1, <1>2, <1>3 DEF TypeOK
<1>6. TypeOK'
  BY <1>1, <1>4 DEF TypeOK
<1>7. ASSUME NEW f \in Events PROVE RowInv(f)'
  <2>1. RowInv(f)
    BY DEF OInv
  <2> QED
    BY <1>1, <1>3, <1>5, <2>1 DEF RowInv
<1>8. \A r \in Sessions : MarkInv(r)'
  BY <1>1, <1>5, NoneAssumption DEF OInv, MarkInv
<1>9. PubInv(p)'
  <2>1. current[p] = NoEvent
    BY <1>1 DEF PubInv
  <2> QED
    BY <1>1, <1>3, <1>5, <2>1, NoneAssumption DEF PubInv
<1>10. ASSUME NEW q \in Publishers \ {p} PROVE PubInv(q)'
  <2>1. PubInv(q)
    BY DEF OInv
  <2>2. conn[q] = NoSession => todo[q] = {} /\ current[q] = NoEvent
    BY <2>1 DEF PubInv
  <2> QED
    BY <1>1, <1>5, <2>1, <2>2, NoneAssumption DEF PubInv
<1>11. Separate'
  BY <1>1 DEF OInv, Separate
<1> QED
  BY <1>6, <1>7, <1>8, <1>9, <1>10, <1>11 DEF OInv

----------------------------------------------------------------------------
(* The end of a transaction *)

\* What COMMIT makes of the rows: the marked ones were pending, and the ones that
\* become "sent" are in Kafka.
LEMMA ApplyStep ==
  ASSUME OInv, NEW s \in Sessions, Apply(s)
  PROVE  /\ status' \in [Events -> Statuses] /\ attempts' \in [Events -> Nat]
         /\ \A e \in Events :
              \/ /\ marks[s][e] = "sent" /\ status[e] = "pending" /\ kafka[e] > 0
                 /\ status'[e] = "sent" /\ attempts'[e] = attempts[e]
              \/ /\ marks[s][e] = "failed" /\ status[e] = "pending"
                 /\ status'[e] = "pending"
                 /\ attempts'[e] \in {attempts[e], attempts[e] + 1}
              \/ status'[e] = status[e] /\ attempts'[e] = attempts[e]
<1>1. TypeOK
  BY DEF OInv
<1>2. status' \in [Events -> Statuses]
  BY <1>1 DEF TypeOK, Apply, StatusAfter, Statuses
<1>3. attempts' \in [Events -> Nat]
  BY <1>1 DEF TypeOK, Apply, AttemptsAfter
<1>4. ASSUME NEW e \in Events
      PROVE  \/ /\ marks[s][e] = "sent" /\ status[e] = "pending" /\ kafka[e] > 0
                /\ status'[e] = "sent" /\ attempts'[e] = attempts[e]
             \/ /\ marks[s][e] = "failed" /\ status[e] = "pending"
                /\ status'[e] = "pending"
                /\ attempts'[e] \in {attempts[e], attempts[e] + 1}
             \/ status'[e] = status[e] /\ attempts'[e] = attempts[e]
  <2>1. marks[s][e] \in Marks
    BY <1>1 DEF TypeOK
  <2>2. marks[s][e] # "none" => status[e] = "pending"
    BY NoneAssumption DEF OInv, MarkInv, RowInv
  <2>3. marks[s][e] = "sent" => kafka[e] > 0
    BY DEF OInv, MarkInv
  <2>4. /\ status'[e] = StatusAfter(marks[s][e], status[e])
        /\ attempts'[e] = AttemptsAfter(marks[s][e], attempts[e])
    BY DEF Apply
  <2> QED
    BY <2>1, <2>2, <2>3, <2>4 DEF Marks, StatusAfter, AttemptsAfter
<1> QED
  BY <1>2, <1>3, <1>4

\* The server ends session s, after a COMMIT or not.
EndsSession(s, state) ==
  /\ End(s, state)
  /\ Apply(s) \/ UNCHANGED <<status, attempts>>
  /\ UNCHANGED kafka

\* What that does to the rows and the sessions.
LEMMA EndStep ==
  ASSUME OInv, NEW s \in Sessions, NEW state \in {"idle", "broken"},
         EndsSession(s, state)
  PROVE  /\ status' \in [Events -> Statuses] /\ attempts' \in [Events -> Nat]
         /\ locked' \in [Events -> Sessions \cup {NoSession}]
         /\ session' \in [Sessions -> {"idle", "open", "committing", "broken"}]
         /\ marks' \in [Sessions -> [Events -> Marks]]
         /\ session'[s] = state
         /\ \A r \in Sessions \ {s} : session'[r] = session[r]
         /\ \A e \in Events : locked[e] # s => locked'[e] = locked[e]
         /\ \A e \in Events : status[e] \in {"pending", "sent"}
                                => status'[e] \in {"pending", "sent"}
         /\ \A e \in Events : RowInv(e)'
         /\ \A r \in Sessions : MarkInv(r)'
<1>1. /\ TypeOK /\ s # NoSession
      /\ locked' = [e \in Events |-> IF locked[e] = s THEN NoSession ELSE locked[e]]
      /\ session' = [session EXCEPT ![s] = state]
      /\ marks' = [marks EXCEPT ![s] = NoMarks]
      /\ UNCHANGED kafka
  BY NoneAssumption DEF OInv, EndsSession, End, Unlock
<1>2. /\ locked' \in [Events -> Sessions \cup {NoSession}]
      /\ session' \in [Sessions -> {"idle", "open", "committing", "broken"}]
      /\ marks' \in [Sessions -> [Events -> Marks]]
      /\ session'[s] = state /\ marks'[s] = NoMarks
      /\ \A r \in Sessions \ {s} : session'[r] = session[r] /\ marks'[r] = marks[r]
      /\ \A e \in Events : locked[e] # s => locked'[e] = locked[e]
      /\ \A e \in Events : locked[e] = s => locked'[e] = NoSession
  BY <1>1 DEF TypeOK, NoMarks, Marks
<1>3. /\ status' \in [Events -> Statuses] /\ attempts' \in [Events -> Nat]
      /\ \A e \in Events :
           \/ status[e] = "pending" /\ kafka[e] > 0 /\ status'[e] = "sent" /\ locked[e] = s
           \/ status[e] = "pending" /\ status'[e] = "pending"
           \/ status'[e] = status[e] /\ attempts'[e] = attempts[e]
  <2>1. CASE Apply(s)
    <3>1. \A e \in Events : marks[s][e] = "sent" => locked[e] = s
      BY DEF OInv, MarkInv
    <3> QED
      BY <2>1, <3>1, ApplyStep
  <2>2. CASE UNCHANGED <<status, attempts>>
    BY <1>1, <2>2 DEF TypeOK
  <2> QED
    BY <2>1, <2>2 DEF EndsSession
<1>4. ASSUME NEW e \in Events PROVE RowInv(e)'
  <2>1. RowInv(e) /\ locked[e] \in Sessions \cup {NoSession}
    BY <1>1 DEF OInv, TypeOK
  <2>2. CASE locked[e] = s
    BY <1>1, <1>2, <1>3, <2>1, <2>2 DEF RowInv
  <2>3. CASE locked[e] # s
    BY <1>1, <1>2, <1>3, <2>1, <2>3 DEF RowInv
  <2> QED
    BY <2>2, <2>3
<1>5. ASSUME NEW r \in Sessions PROVE MarkInv(r)'
  <2>1. MarkInv(r)
    BY DEF OInv
  <2>2. CASE r = s
    BY <1>2, <2>2 DEF MarkInv, NoMarks
  <2>3. CASE r # s
    BY <1>1, <1>2, <2>1, <2>3 DEF MarkInv
  <2> QED
    BY <2>2, <2>3
<1>6. \A e \in Events : status[e] \in {"pending", "sent"} => status'[e] \in {"pending", "sent"}
  BY <1>3
<1> QED
  BY <1>2, <1>3, <1>4, <1>5, <1>6

\* A publisher that has another session, or whose session is now broken.
LEMMA EndOthers ==
  ASSUME OInv, NEW s \in Sessions, NEW state \in {"idle", "broken"},
         EndsSession(s, state),
         NEW q \in Publishers, conn[q] # s \/ state = "broken",
         UNCHANGED <<pc[q], conn[q], todo[q], current[q], outcome[q]>>
  PROVE  PubInv(q)'
<1>1. TypeOK /\ PubInv(q) /\ conn[q] \in Sessions \cup {NoSession} /\ UNCHANGED kafka
  BY DEF OInv, TypeOK, EndsSession
<1>2. /\ conn[q] # s => conn[q] = NoSession \/ session'[conn[q]] = session[conn[q]]
      /\ conn[q] = s => session'[conn[q]] = "broken"
  BY <1>1, EndStep
<1>3. ASSUME NEW e \in Events, e \in todo[q] \/ e = current[q]
      PROVE  /\ status'[e] \in {"pending", "sent"}
             /\ session'[conn[q]] = "open" => locked'[e] = conn[q]
  <2>1. /\ conn[q] # NoSession
        /\ status[e] \in {"pending", "sent"}
        /\ session[conn[q]] = "open" => locked[e] = conn[q]
    BY <1>1, <1>3, NoneAssumption DEF PubInv
  <2>2. status'[e] \in {"pending", "sent"}
    BY <2>1, EndStep
  <2>3. session'[conn[q]] = "open" => conn[q] # s /\ locked[e] = conn[q]
    BY <1>2, <2>1
  <2> QED
    BY <2>2, <2>3, EndStep
<1> QED
  BY <1>1, <1>2, <1>3, NoneAssumption DEF PubInv

\* A publisher that has left its session.
LEMMA Left ==
  ASSUME OInv, NEW p \in Publishers, pc[p] \in {"commit", "rollback"}, Leave(p),
         UNCHANGED <<todo, current, outcome>>
  PROVE  /\ PubInv(p)' /\ Separate'
         /\ conn[p] \in Sessions
         /\ \A q \in Publishers \ {p} : conn[q] # conn[p] /\ UNCHANGED <<pc[q], conn[q]>>
         /\ pc' \in [Publishers -> Steps]
         /\ conn' \in [Publishers -> Sessions \cup {NoSession}]
<1>1. /\ TypeOK /\ PubInv(p)
      /\ pc'[p] = "count" /\ conn'[p] = NoSession
      /\ \A q \in Publishers \ {p} : UNCHANGED <<pc[q], conn[q]>>
      /\ pc' \in [Publishers -> Steps]
      /\ conn' \in [Publishers -> Sessions \cup {NoSession}]
  BY DEF OInv, TypeOK, Leave, Goto, Steps
<1>2. conn[p] \in Sessions
  BY <1>1 DEF PubInv, TypeOK
<1>3. \A q \in Publishers \ {p} : conn[q] # conn[p]
  BY <1>2, NoneAssumption DEF OInv, Separate
<1>4. PubInv(p)'
  BY <1>1, NoneAssumption DEF PubInv, TypeOK
<1>5. Separate'
  BY <1>1 DEF OInv, Separate
<1> QED
  BY <1>1, <1>2, <1>3, <1>4, <1>5

\* COMMIT and ROLLBACK.
LEMMA OInvCommit ==
  ASSUME OInv, NEW p \in Publishers, Commit(p) \/ Rollback(p)
  PROVE  OInv'
<1>1. /\ pc[p] \in {"commit", "rollback"} /\ Leave(p) /\ EndsSession(conn[p], "idle")
      /\ UNCHANGED <<scan, todo, current, outcome, gauge, kafka, faults>>
  BY DEF Commit, Rollback, EndsSession
<1>2. conn[p] \in Sessions
  BY <1>1, Left
<1>3. TypeOK'
  BY <1>1, <1>2, Left, EndStep DEF OInv, TypeOK
<1>4. \A q \in Publishers \ {p} : PubInv(q)'
  BY <1>1, <1>2, Left, EndOthers
<1> QED
  BY <1>1, <1>2, <1>3, <1>4, Left, EndStep DEF OInv

\* The server ends a session.
LEMMA OInvEndSession ==
  ASSUME OInv, NEW s \in Sessions, Break(s) \/ EndSession(s)
  PROVE  OInv'
<1>1. PICK state \in {"idle", "broken"} :
        /\ EndsSession(s, state)
        /\ state = "broken" \/ Orphaned(s)
        /\ UNCHANGED <<pc, conn, scan, todo, current, outcome, gauge>>
  BY DEF Break, EndSession, SessionAborts, SessionCommits, EndsSession, localVars
<1>2. faults' \in Nat
  BY FaultType DEF OInv, TypeOK, Break, EndSession, SessionAborts, SessionCommits
<1>3. TypeOK'
  BY <1>1, <1>2, EndStep DEF OInv, TypeOK, EndsSession
<1>4. \A q \in Publishers : PubInv(q)'
  BY <1>1, EndOthers DEF Orphaned
<1>5. Separate'
  BY <1>1 DEF OInv, Separate
<1> QED
  BY <1>1, <1>3, <1>4, <1>5, EndStep DEF OInv

\* The session of a lost COMMIT goes on without its publisher; a broken session
\* is given back.
LEMMA OInvLeave ==
  ASSUME OInv, NEW p \in Publishers, CommitLost(p) \/ FindBroken(p)
  PROVE  OInv'
<1> DEFINE s == conn[p]
<1>1. /\ TypeOK /\ Leave(p) /\ pc[p] \in {"commit", "rollback"}
      /\ UNCHANGED <<status, attempts, locked, marks, scan, todo, current, outcome,
                     gauge, kafka>>
  BY DEF OInv, CommitLost, FindBroken
<1>2. s \in Sessions
  BY <1>1, Left
<1>3. /\ session' \in [Sessions -> {"idle", "open", "committing", "broken"}]
      /\ \A r \in Sessions \ {s} : session'[r] = session[r]
      /\ \/ session[s] = "open" /\ session'[s] = "committing"
         \/ session[s] = "broken"
  BY <1>1, <1>2 DEF TypeOK, CommitLost, FindBroken, Alive
<1>4. faults' \in Nat
  BY <1>1, FaultType DEF TypeOK, CommitLost, FindBroken
<1>5. TypeOK'
  BY <1>1, <1>3, <1>4, Left DEF TypeOK
<1>6. ASSUME NEW e \in Events PROVE RowInv(e)'
  <2>1. RowInv(e) /\ locked[e] \in Sessions \cup {NoSession}
    BY <1>1 DEF OInv, TypeOK
  <2> QED
    BY <1>1, <1>3, <2>1 DEF RowInv
<1>7. \A r \in Sessions : MarkInv(r)'
  BY <1>1 DEF OInv, MarkInv
<1>8. ASSUME NEW q \in Publishers \ {p} PROVE PubInv(q)'
  <2>1. conn[q] # s /\ UNCHANGED <<pc[q], conn[q]>>
    BY <1>1, Left
  <2>2. conn[q] # NoSession => session'[conn[q]] = session[conn[q]]
    BY <1>1, <1>3, <2>1 DEF TypeOK
  <2> QED
    BY <1>1, <2>1, <2>2, SessionFrame
<1> QED
  BY <1>1, <1>5, <1>6, <1>7, <1>8, Left DEF OInv

\* The end of a process: its session is left alone, or has a COMMIT to finish.
LEMMA OInvCrash ==
  ASSUME OInv, NEW p \in Publishers, Crash(p)
  PROVE  OInv'
<1>1. /\ TypeOK /\ PubInv(p)
      /\ pc'[p] = "down" /\ conn'[p] = NoSession
      /\ todo'[p] = {} /\ current'[p] = NoEvent /\ outcome'[p] = "none"
      /\ UNCHANGED <<status, attempts, locked, marks, kafka>>
      /\ \A q \in Publishers \ {p} :
           UNCHANGED <<pc[q], conn[q], todo[q], current[q], outcome[q]>>
  BY DEF OInv, TypeOK, Crash, Forget, Goto
<1>2. /\ pc' \in [Publishers -> Steps]
      /\ conn' \in [Publishers -> Sessions \cup {NoSession}]
      /\ scan' \in [Publishers -> SUBSET Events]
      /\ todo' \in [Publishers -> SUBSET Events]
      /\ current' \in [Publishers -> Events \cup {NoEvent}]
      /\ outcome' \in [Publishers -> Marks]
      /\ gauge' \in [Publishers -> Nat]
  BY <1>1 DEF TypeOK, Crash, Forget, Goto, Steps, Marks
<1>3. /\ session' \in [Sessions -> {"idle", "open", "committing", "broken"}]
      /\ \A r \in Sessions :
           \/ session'[r] = session[r]
           \/ r = conn[p] /\ session[r] = "open" /\ session'[r] = "committing"
  BY <1>1 DEF TypeOK, Crash
<1>4. TypeOK'
  BY <1>1, <1>2, <1>3, FaultType DEF TypeOK, Crash
<1>5. ASSUME NEW e \in Events PROVE RowInv(e)'
  <2>1. RowInv(e) /\ locked[e] \in Sessions \cup {NoSession}
    BY <1>1 DEF OInv, TypeOK
  <2> QED
    BY <1>1, <1>3, <2>1 DEF RowInv
<1>6. \A r \in Sessions : MarkInv(r)'
  BY <1>1 DEF OInv, MarkInv
<1>7. PubInv(p)'
  BY <1>1, NoneAssumption DEF PubInv
<1>8. ASSUME NEW q \in Publishers \ {p} PROVE PubInv(q)'
  <2>1. conn[q] # NoSession => conn[q] # conn[p] /\ conn[q] \in Sessions
    BY <1>1 DEF OInv, Separate, TypeOK
  <2> QED
    BY <1>1, <1>3, <2>1, SessionFrame
<1>9. Separate'
  BY <1>1 DEF OInv, Separate
<1> QED
  BY <1>4, <1>5, <1>6, <1>7, <1>8, <1>9 DEF OInv

----------------------------------------------------------------------------
(* The safety properties *)

\* Every step keeps the inductive invariant.
THEOREM OInvNext == OInv /\ [Next]_vars => OInv'
<1> SUFFICES ASSUME OInv, [Next]_vars PROVE OInv'
  OBVIOUS
<1>1. ASSUME NEW e \in Events, Insert(e) PROVE OInv'
  BY <1>1, OInvInsert
<1>2. ASSUME NEW p \in Publishers, Proceed(p) PROVE OInv'
  BY <1>2, OInvOpenBatch, OInvLockRow, OInvLockPending, OInvSend, OInvMark, OInvMarkFails,
     OInvCommit, OInvLeave, OInvIdle DEF Proceed
<1>3. ASSUME NEW p \in Publishers, Fail(p) PROVE OInv'
  BY <1>3, OInvIdle, OInvLockPendingLost, OInvSend, OInvLeave, OInvRollbackLost,
     OInvCrash DEF Fail
<1>4. ASSUME NEW s \in Sessions, Break(s) \/ EndSession(s) PROVE OInv'
  BY <1>4, OInvEndSession
<1>5. CASE UNCHANGED vars
  BY <1>5, OInvStutter
<1> QED
  BY <1>1, <1>2, <1>3, <1>4, <1>5 DEF Next

\* OInv is an invariant of the outbox publishers.
THEOREM OutboxInvariance == Spec => []OInv
  BY OInvInit, OInvNext, PTL DEF Spec

\* Every variable of the outbox publishers keeps its type.
THEOREM OutboxTypeCorrect == Spec => []TypeOK
<1>1. OInv => TypeOK
  BY DEF OInv
<1> QED
  BY <1>1, OutboxInvariance, PTL

\* A row is "sent" only if Kafka has its event.
THEOREM SentImpliesDeliveredHolds == Spec => []SentImpliesDelivered
<1>1. OInv => SentImpliesDelivered
  BY DEF OInv, RowInv, SentImpliesDelivered
<1> QED
  BY <1>1, OutboxInvariance, PTL

\* Nothing but committed rows of this version is delivered.
THEOREM OnlyPublishedIsDeliveredHolds == Spec => []OnlyPublishedIsDelivered
<1>1. OInv => OnlyPublishedIsDelivered
  BY EventsAssumption DEF OInv, RowInv, OnlyPublishedIsDelivered
<1> QED
  BY <1>1, OutboxInvariance, PTL

\* The batch of a live transaction is locked by it, every row of it pending.
THEOREM BatchesAreExclusiveHolds == Spec => []BatchesAreExclusive
<1>1. ASSUME OInv, NEW p \in Publishers, conn[p] # NoSession, session[conn[p]] = "open",
             NEW e \in Events,
             e \in todo[p] \/ e = current[p] \/ marks[conn[p]][e] # "none"
      PROVE  locked[e] = conn[p] /\ status[e] = "pending"
  <2>1. conn[p] \in Sessions
    BY <1>1 DEF OInv, TypeOK
  <2>2. locked[e] = conn[p]
    BY <1>1, <2>1 DEF OInv, PubInv, MarkInv
  <2> QED
    BY <1>1, <2>2 DEF OInv, RowInv
<1>2. OInv => BatchesAreExclusive
  <2> SUFFICES ASSUME OInv, NEW p \in Publishers, conn[p] # NoSession,
                      session[conn[p]] = "open",
                      NEW e \in todo[p] \cup {f \in Events : f = current[p]
                                                 \/ marks[conn[p]][f] # "none"}
               PROVE  locked[e] = conn[p] /\ status[e] = "pending"
    BY DEF BatchesAreExclusive
  <2>1. e \in Events
    BY DEF OInv, TypeOK
  <2> QED
    BY <1>1, <2>1
<1> QED
  BY <1>2, OutboxInvariance, PTL

----------------------------------------------------------------------------
(* The refinement of OutboxDelivery *)

\* Sending is a delivery, or nothing at all.
LEMMA SendRefines ==
  ASSUME OInv, NEW p \in Publishers,
         \/ Send(p) \/ SendRepeated(p) \/ SendFails(p) \/ SendUnacknowledged(p)
         \/ DecodeFails(p)
  PROVE  [Delivery!Next]_(Delivery!vars)
<1>1. UNCHANGED <<status, attempts>>
  BY DEF Send, SendRepeated, SendFails, SendUnacknowledged, DecodeFails, dbVars
<1>2. CASE UNCHANGED kafka
  BY <1>1, <1>2 DEF Delivery!vars
<1>3. CASE \E e \in Events \ Poison, n \in 1 .. WriterAttempts :
             e \in todo[p] /\ kafka' = [kafka EXCEPT ![e] = @ + n]
  <2>1. PICK e \in Events \ Poison, n \in 1 .. WriterAttempts :
          e \in todo[p] /\ kafka' = [kafka EXCEPT ![e] = @ + n]
    BY <1>3
  <2>2. status[e] \in {"pending", "sent"}
    BY <2>1 DEF OInv, PubInv
  <2>3. Delivery!Deliver(e)
    BY <1>1, <2>1, <2>2 DEF Delivery!Deliver
  <2> QED
    BY <2>1, <2>3 DEF Delivery!Next
<1>4. UNCHANGED kafka \/ \E e \in Events \ Poison, n \in 1 .. WriterAttempts :
        e \in todo[p] /\ kafka' = [kafka EXCEPT ![e] = @ + n]
  <2>1. WriterAttempts \in Nat \ {0}
    BY BoundsAssumption
  <2>2. CASE Send(p)
    <3>1. 1 \in 1 .. WriterAttempts
      BY <2>1
    <3> QED
      BY <2>2, <3>1 DEF Send, Handle, Oldest
  <2>3. CASE SendRepeated(p)
    <3>1. 2 .. WriterAttempts \subseteq 1 .. WriterAttempts
      BY <2>1
    <3> QED
      BY <2>3, <3>1 DEF SendRepeated, Handle, Oldest
  <2>4. CASE SendUnacknowledged(p)
    BY <2>4 DEF SendUnacknowledged, Handle, Oldest
  <2>5. CASE SendFails(p) \/ DecodeFails(p)
    BY <2>5 DEF SendFails, DecodeFails
  <2> QED
    BY <2>2, <2>3, <2>4, <2>5
<1> QED
  BY <1>2, <1>3, <1>4

\* A COMMIT settles the marked rows.
LEMMA ApplyRefines ==
  ASSUME OInv, NEW s \in Sessions, Apply(s), UNCHANGED kafka
  PROVE  [Delivery!Next]_(Delivery!vars)
<1> DEFINE sent == {e \in Events : status'[e] # status[e]}
           failed == {e \in Events : attempts'[e] # attempts[e]}
<1>1. /\ status \in [Events -> Statuses] /\ attempts \in [Events -> Nat]
      /\ status' \in [Events -> Statuses] /\ attempts' \in [Events -> Nat]
  BY ApplyStep DEF OInv, TypeOK
<1>2. /\ \A e \in sent : /\ status[e] = "pending" /\ kafka[e] > 0
                         /\ status'[e] = "sent" /\ attempts'[e] = attempts[e]
      /\ \A e \in failed : status[e] = "pending" /\ attempts'[e] = attempts[e] + 1
  BY ApplyStep
<1>3. /\ status' = [e \in Events |-> IF e \in sent THEN "sent" ELSE status[e]]
      /\ attempts' = [e \in Events |-> IF e \in failed THEN attempts[e] + 1 ELSE attempts[e]]
  BY <1>1, <1>2
<1>4. Delivery!Settle(sent, failed)
  BY <1>2, <1>3 DEF Delivery!Settle
<1> QED
  BY <1>4 DEF Delivery!Next

\* Every step is a step of OutboxDelivery or changes nothing there.
THEOREM StepRefines == OInv /\ [Next]_vars => [Delivery!Next]_(Delivery!vars)
<1> SUFFICES ASSUME OInv, [Next]_vars PROVE [Delivery!Next]_(Delivery!vars)
  OBVIOUS
<1>1. CASE UNCHANGED <<status, attempts, kafka>>
  BY <1>1 DEF Delivery!vars
<1>2. ASSUME NEW e \in Events, Insert(e) PROVE Delivery!Publish(e)
  BY <1>2 DEF Insert, Delivery!Publish
<1>3. ASSUME NEW p \in Publishers, Proceed(p) \/ Fail(p)
      PROVE  [Delivery!Next]_(Delivery!vars)
  <2>1. CASE \/ Send(p) \/ SendRepeated(p) \/ SendFails(p) \/ SendUnacknowledged(p)
             \/ DecodeFails(p)
    BY <2>1, SendRefines
  <2>2. CASE Commit(p)
    <3>1. conn[p] \in Sessions
      <4>1. pc[p] = "commit" /\ PubInv(p) /\ TypeOK
        BY <2>2 DEF Commit, OInv
      <4> QED
        BY <4>1 DEF PubInv, TypeOK
    <3> QED
      BY <2>2, <3>1, ApplyRefines DEF Commit
  <2>3. CASE UNCHANGED <<status, attempts, kafka>>
    BY <1>1, <2>3
  <2> QED
    BY <1>3, <2>1, <2>2, <2>3
    DEF Proceed, Fail, OpenBatch, LockRow, BeginFails, LockPending, LockPendingFails,
        LockPendingLost, Mark, MarkFails, Rollback, FindBroken, CountPending, Restart, CommitLost, RollbackLost, CountFails,
        Crash, dbVars
<1>4. ASSUME NEW s \in Sessions, Break(s) \/ EndSession(s)
      PROVE  [Delivery!Next]_(Delivery!vars)
  <2>1. CASE SessionCommits(s)
    BY <2>1, ApplyRefines DEF SessionCommits
  <2>2. CASE Break(s) \/ SessionAborts(s)
    BY <1>1, <2>2 DEF Break, SessionAborts
  <2> QED
    BY <1>4, <2>1, <2>2 DEF EndSession
<1>5. CASE UNCHANGED vars
  BY <1>1, <1>5 DEF vars
<1> QED
  BY <1>2, <1>3, <1>4, <1>5 DEF Next, Delivery!Next

\* The publishers deliver at least once, as OutboxDelivery promises.
THEOREM ImplementsDeliveryHolds == Spec => ImplementsDelivery
<1>1. Init => Delivery!Init
  BY DEF Init, Delivery!Init
<1> QED
  BY <1>1, OutboxInvariance, StepRefines, PTL
  DEF Spec, ImplementsDelivery, Delivery!Spec
=============================================================================
