----------------------- MODULE OutboxDuplicatesProofs -----------------------
(***************************************************************************)
(* How often an event can be in Kafka: once more than there were faults.   *)
(*                                                                         *)
(* The argument is an account.  A fault pays for one more delivery of any  *)
(* event.  What may still be delivered without another fault is: a late    *)
(* delivery by each publisher whose session the server has ended (the end  *)
(* of the session was the fault), and one delivery of an event that is not *)
(* on course to become "sent".  Budget says that deliveries made and       *)
(* deliveries to come never exceed faults plus one.                        *)
(***************************************************************************)
EXTENDS OutboxPublisherProofs

----------------------------------------------------------------------------
(* The account of an event *)

\* p may still deliver e although the server has ended its transaction.
IsLate(p, e) == conn[p] # NoSession /\ session[conn[p]] = "broken" /\ e \in todo[p]

Late(e) == {p \in Publishers : IsLate(p, e)}

Live(p) == conn[p] # NoSession /\ session[conn[p]] = "open"

\* The transaction of p is live and will make e "sent" if nothing fails.
Settles(p, e) ==
  /\ Live(p) /\ pc[p] # "rollback"
  /\ marks[conn[p]][e] = "sent" \/ (current[p] = e /\ outcome[p] = "sent")

OnCourse(e) == status[e] = "sent" \/ \E p \in Publishers : Settles(p, e)

Due(e) == kafka[e] + Cardinality(Late(e))

Budget(e) ==
  /\ IsFiniteSet(Late(e))
  /\ Due(e) <= faults \/ (OnCourse(e) /\ Due(e) <= faults + 1)

\* A live transaction comes to each event of its batch once.
Fresh(p) ==
  Live(p) =>
    /\ current[p] \notin todo[p]
    /\ \A e \in Events : e \in todo[p] \/ e = current[p] => marks[conn[p]][e] = "none"

DInv ==
  /\ OInv
  /\ \A p \in Publishers : Fresh(p)
  /\ \A e \in Events : Budget(e)

\* The account is balanced initially.
LEMMA DInvInit == Init => DInv
<1> SUFFICES ASSUME Init PROVE DInv
  OBVIOUS
<1>1. \A p \in Publishers : Fresh(p)
  BY DEF Init, Fresh, Live
<1>2. ASSUME NEW e \in Events PROVE Budget(e)
  <2>1. Late(e) = {} /\ kafka[e] = 0 /\ faults = 0
    BY DEF Init, Late, IsLate
  <2>2. IsFiniteSet({}) /\ Cardinality({}) = 0
    BY FS_EmptySet
  <2> QED
    BY <2>1, <2>2 DEF Budget, Due
<1> QED
  BY <1>1, <1>2, OInvInit DEF DInv

\* The numbers of an account.
LEMMA Numbers ==
  ASSUME DInv, NEW e \in Events
  PROVE  kafka[e] \in Nat /\ Cardinality(Late(e)) \in Nat /\ faults \in Nat
  BY FS_CardinalityType DEF DInv, OInv, TypeOK, Budget

\* A publisher that will settle e has locked it.
LEMMA SettlesLocks ==
  ASSUME OInv, NEW p \in Publishers, NEW e \in Events, Settles(p, e)
  PROVE  conn[p] \in Sessions /\ locked[e] = conn[p]
<1>1. PubInv(p) /\ conn[p] \in Sessions /\ session[conn[p]] = "open"
  BY DEF OInv, TypeOK, Settles, Live
<1>2. MarkInv(conn[p])
  BY <1>1 DEF OInv
<1> QED
  BY <1>1, <1>2 DEF Settles, PubInv, MarkInv

\* While e is on course, no live transaction is going to deliver it.
LEMMA OnCourseIsExclusive ==
  ASSUME DInv, NEW e \in Events, OnCourse(e), NEW p \in Publishers, e \in todo[p]
  PROVE  IsLate(p, e)
<1>1. OInv /\ PubInv(p) /\ RowInv(e) /\ TypeOK
  BY DEF DInv, OInv
<1>2. pc[p] \in {"lock", "send", "mark"}
  BY <1>1 DEF PubInv
<1>3. conn[p] # NoSession /\ conn[p] \in Sessions
  BY <1>1, <1>2 DEF PubInv, TypeOK
<1>4. session[conn[p]] \in {"open", "broken"}
  BY <1>1, <1>3 DEF PubInv
<1>5. ASSUME session[conn[p]] = "open" PROVE FALSE
  <2>1. locked[e] = conn[p]
    BY <1>1, <1>5 DEF PubInv
  <2>2. status[e] = "pending"
    BY <1>1, <1>3, <2>1 DEF RowInv
  <2>3. PICK q \in Publishers : Settles(q, e)
    BY <2>2 DEF OnCourse
  <2>4. q = p
    BY <1>1, <1>3, <2>1, <2>3, SettlesLocks DEF OInv, Separate
  <2>5. Fresh(p) /\ Live(p)
    BY <1>3, <1>5 DEF DInv, Live
  <2> QED
    BY <2>3, <2>4, <2>5 DEF Settles, Fresh
<1> QED
  BY <1>3, <1>4, <1>5 DEF IsLate

----------------------------------------------------------------------------
(* Steps that deliver nothing *)

\* What such a step does to a publisher: it is fresh, late for nothing new, and
\* without a fault what it will settle stays so or is settled.
Keeps(q) ==
  /\ Fresh(q)'
  /\ \A e \in Events :
       /\ IsLate(q, e)' => IsLate(q, e)
       /\ Settles(q, e) /\ faults' = faults => Settles(q, e)' \/ status'[e] = "sent"

\* The step is not the publisher's, nor about its session.
Untouched(q) ==
  /\ UNCHANGED <<pc[q], conn[q], todo[q], current[q], outcome[q]>>
  /\ conn[q] # NoSession =>
       session'[conn[q]] = session[conn[q]] /\ marks'[conn[q]] = marks[conn[q]]

\* A publisher keeps what nobody touches.
LEMMA UntouchedKeeps ==
  ASSUME NEW q, Fresh(q), Untouched(q)
  PROVE  Keeps(q)
<1>1. /\ pc'[q] = pc[q] /\ conn'[q] = conn[q] /\ todo'[q] = todo[q]
      /\ current'[q] = current[q] /\ outcome'[q] = outcome[q]
      /\ conn[q] # NoSession =>
           session'[conn[q]] = session[conn[q]] /\ marks'[conn[q]] = marks[conn[q]]
  BY DEF Untouched
<1>2. Fresh(q)'
  BY <1>1 DEF Fresh, Live
<1>3. ASSUME NEW e \in Events
      PROVE  (IsLate(q, e)' => IsLate(q, e)) /\ (Settles(q, e) => Settles(q, e)')
  BY <1>1 DEF IsLate, Settles, Live
<1> QED
  BY <1>2, <1>3 DEF Keeps

\* A publisher without a session keeps everything.
LEMMA AbsentKeeps ==
  ASSUME NEW q, conn[q] = NoSession, conn'[q] = NoSession
  PROVE  Keeps(q)
  BY DEF Keeps, Fresh, IsLate, Settles, Live

\* The account stays balanced.
LEMMA QuietStep ==
  ASSUME DInv, \A q \in Publishers : Keeps(q), UNCHANGED kafka,
         faults' = faults \/ faults' = faults + 1,
         \A e \in Events : status[e] = "sent" => status'[e] = "sent",
         NEW e \in Events
  PROVE  Budget(e)'
<1>1. Budget(e) /\ kafka'[e] = kafka[e]
  BY DEF DInv
<1>2. Late(e)' \subseteq Late(e)
  BY DEF Keeps, Late
<1>3. /\ IsFiniteSet(Late(e)')
      /\ Cardinality(Late(e)') \in Nat
      /\ Cardinality(Late(e)') <= Cardinality(Late(e))
  BY <1>1, <1>2, FS_Subset, FS_CardinalityType DEF Budget
<1>4. kafka[e] \in Nat /\ Cardinality(Late(e)) \in Nat /\ faults \in Nat
  BY Numbers
<1>5. OnCourse(e) /\ faults' = faults => OnCourse(e)'
  BY DEF OnCourse, Keeps
<1>6. Due(e)' <= Due(e)
  BY <1>1, <1>3, <1>4 DEF Due
<1>7. Due(e) \in Nat /\ Due(e)' \in Nat
  BY <1>1, <1>3, <1>4 DEF Due
<1> QED
  BY <1>1, <1>3, <1>4, <1>5, <1>6, <1>7 DEF Budget

\* A quiet step: it delivers nothing, and no publisher is the worse for it.
Quiet ==
  /\ \A q \in Publishers : Keeps(q)
  /\ UNCHANGED kafka
  /\ faults' = faults \/ faults' = faults + 1
  /\ \A e \in Events : status[e] = "sent" => status'[e] = "sent"

\* No session changes, or marks: the other publishers are untouched.
LEMMA OthersUntouched ==
  ASSUME NEW p \in Publishers, OnlyLocal(p), NEW q \in Publishers \ {p}
  PROVE  Untouched(q)
  BY DEF OnlyLocal, dbVars, Untouched

\* A tick without a transaction, the count, a restart: the publisher has no session.
LEMMA QuietIdle ==
  ASSUME DInv, NEW p \in Publishers,
         BeginFails(p) \/ CountPending(p) \/ CountFails(p) \/ Restart(p)
  PROVE  Quiet
<1>1. /\ TypeOK /\ PubInv(p)
      /\ pc[p] \in {"waiting", "count", "down"}
      /\ UNCHANGED <<status, attempts, locked, session, marks, conn, todo, current, outcome, kafka>>
      /\ \A q \in Publishers \ {p} : pc'[q] = pc[q]
      /\ faults' = faults \/ faults' = faults + 1
  BY DEF DInv, OInv, TypeOK, BeginFails, CountPending, CountFails, Restart, Goto,
         Steps, dbVars, Fault
<1>2. Keeps(p)
  BY <1>1, AbsentKeeps DEF PubInv
<1>3. \A q \in Publishers \ {p} : Keeps(q)
  BY <1>1, UntouchedKeeps DEF DInv, Untouched
<1> QED
  BY <1>1, <1>2, <1>3 DEF Quiet

\* A new row.
LEMMA QuietInsert ==
  ASSUME DInv, NEW e \in Events, Insert(e)
  PROVE  Quiet
<1>1. /\ UNCHANGED <<session, marks, pc, conn, todo, current, outcome, kafka, faults>>
      /\ \A f \in Events : status[f] = "sent" => status'[f] = "sent"
  BY DEF DInv, OInv, TypeOK, Insert, localVars
<1>2. \A q \in Publishers : Keeps(q)
  BY <1>1, UntouchedKeeps DEF DInv, Untouched
<1> QED
  BY <1>1, <1>2 DEF Quiet

\* A new transaction has no marks and no batch.
LEMMA QuietOpenBatch ==
  ASSUME DInv, NEW p \in Publishers, OpenBatch(p)
  PROVE  Quiet
<1>1. PICK s \in Sessions :
        /\ session[s] = "idle"
        /\ session' = [session EXCEPT ![s] = "open"]
        /\ conn' = [conn EXCEPT ![p] = s]
  BY DEF OpenBatch
<1>2. /\ TypeOK /\ PubInv(p) /\ OInv /\ pc[p] = "waiting" /\ conn'[p] = s
      /\ session'[s] = "open" /\ \A r \in Sessions \ {s} : session'[r] = session[r]
      /\ UNCHANGED <<status, marks, todo, current, outcome, kafka, faults>>
      /\ \A q \in Publishers \ {p} : UNCHANGED <<pc[q], conn[q]>>
  BY <1>1 DEF DInv, OInv, TypeOK, OpenBatch, Goto
<1>3. /\ \A e \in Events : marks[s][e] = "none"
      /\ \A q \in Publishers : conn[q] # s
  BY <1>1, <1>2, IdleIsFree
<1>4. conn[p] = NoSession /\ current[p] = NoEvent /\ todo[p] = {}
  BY <1>2 DEF PubInv
<1>5. Keeps(p)
  BY <1>2, <1>3, <1>4, NoneAssumption DEF Keeps, Fresh, IsLate, Settles, Live
<1>6. ASSUME NEW q \in Publishers \ {p} PROVE Keeps(q)
  <2>1. Untouched(q)
    BY <1>2, <1>3 DEF TypeOK, Untouched
  <2> QED
    BY <2>1, UntouchedKeeps DEF DInv
<1> QED
  BY <1>2, <1>5, <1>6 DEF Quiet

\* A row that nobody has locked carries no mark.
LEMMA QuietLockRow ==
  ASSUME DInv, NEW p \in Publishers, LockRow(p)
  PROVE  Quiet
<1>1. /\ OInv /\ TypeOK /\ PubInv(p) /\ Fresh(p) /\ pc[p] = "lock" /\ Alive(p)
      /\ UNCHANGED <<status, session, marks, pc, conn, current, outcome, kafka, faults>>
  BY DEF DInv, OInv, LockRow
<1>2. conn[p] \in Sessions /\ current[p] = NoEvent
  BY <1>1 DEF PubInv, TypeOK
<1>3. \A q \in Publishers \ {p} : todo'[q] = todo[q]
  BY <1>1 DEF LockRow, TypeOK
<1>4. \A e \in todo'[p] : e \in todo[p] \/ locked[e] = NoSession
  BY <1>1 DEF LockRow, TypeOK, Unlocked
<1>5. \A e \in Events : locked[e] = NoSession => marks[conn[p]][e] = "none"
  BY <1>1, <1>2, NoneAssumption DEF OInv, MarkInv
<1>6. Live(p)
  BY <1>1, <1>2, NoneAssumption DEF Live, Alive
<1>7. /\ todo'[p] \subseteq Events
      /\ \A e \in todo[p] : marks[conn[p]][e] = "none"
  <2>1. todo'[p] \subseteq Events
    BY <1>1, OInvLockRow DEF OInv, TypeOK
  <2> QED
    BY <1>1, <1>6, <2>1 DEF Fresh, TypeOK
<1>8. Fresh(p)'
  BY <1>1, <1>2, <1>4, <1>5, <1>7, NoneAssumption DEF Fresh
<1>9. \A e \in Events : ~IsLate(p, e)'
  BY <1>1 DEF IsLate, Alive
<1>10. \A e \in Events : Settles(p, e) => Settles(p, e)'
  BY <1>1 DEF Settles, Live
<1>11. Keeps(p)
  BY <1>8, <1>9, <1>10 DEF Keeps
<1>12. \A q \in Publishers \ {p} : Keeps(q)
  BY <1>1, <1>3, UntouchedKeeps DEF DInv, Untouched
<1> QED
  BY <1>1, <1>11, <1>12 DEF Quiet

\* The SELECT returns.
LEMMA QuietLockPending ==
  ASSUME DInv, NEW p \in Publishers, LockPending(p)
  PROVE  Quiet
<1>1. /\ pc[p] = "lock" /\ pc'[p] # "rollback"
      /\ UNCHANGED <<status, session, marks, conn, todo, current, outcome, kafka, faults>>
      /\ \A q \in Publishers \ {p} : pc'[q] = pc[q]
  BY DEF DInv, OInv, TypeOK, LockPending, Goto, AfterEvent, dbVars
<1>2. Keeps(p)
  BY <1>1 DEF DInv, Keeps, Fresh, IsLate, Settles, Live
<1>3. \A q \in Publishers \ {p} : Keeps(q)
  BY <1>1, UntouchedKeeps DEF DInv, Untouched
<1> QED
  BY <1>1, <1>2, <1>3 DEF Quiet

\* A mark: what has just been sent is marked as sent.
LEMMA QuietMark ==
  ASSUME DInv, NEW p \in Publishers, Mark(p)
  PROVE  Quiet
<1> DEFINE s == conn[p]
<1>1. /\ TypeOK /\ PubInv(p) /\ Alive(p) /\ Fresh(p)
      /\ pc[p] = "mark" /\ pc'[p] # "rollback"
      /\ current'[p] = NoEvent
      /\ UNCHANGED <<status, session, conn, todo, kafka, faults>>
      /\ \A q \in Publishers \ {p} : UNCHANGED <<pc[q], current[q], outcome[q]>>
  BY DEF DInv, OInv, TypeOK, Mark, Goto, AfterEvent
<1>2. s \in Sessions /\ s # NoSession /\ current[p] \in Events
  BY <1>1 DEF PubInv, TypeOK
<1>3. /\ \A r \in Sessions \ {s} : marks'[r] = marks[r]
      /\ \A e \in Events : marks'[s][e] = IF e = current[p] THEN outcome[p] ELSE marks[s][e]
  BY <1>2 DEF DInv, OInv, TypeOK, Mark, Marks
<1>4. Keeps(p)
  <2>1. Live(p)
    BY <1>1, <1>2 DEF Live, Alive
  <2>2. /\ current[p] \notin todo[p]
        /\ \A e \in Events : e \in todo[p] \/ e = current[p] => marks[s][e] = "none"
    BY <1>1, <2>1 DEF Fresh
  <2>3. todo'[p] \subseteq Events /\ todo'[p] = todo[p] /\ conn'[p] = s
    BY <1>1 DEF TypeOK
  <2>4. Fresh(p)'
    BY <1>1, <1>3, <2>2, <2>3, NoneAssumption DEF Fresh
  <2>5. \A e \in Events : ~IsLate(p, e)'
    BY <1>1 DEF IsLate, Alive
  <2>6. ASSUME NEW e \in Events, Settles(p, e) PROVE Settles(p, e)'
    <3>1. marks'[s][e] = "sent"
      BY <1>3, <2>2, <2>6 DEF Settles
    <3>2. Live(p)'
      BY <1>1, <2>1 DEF Live
    <3> QED
      BY <1>1, <2>3, <3>1, <3>2 DEF Settles
  <2> QED
    BY <2>4, <2>5, <2>6 DEF Keeps
<1>5. ASSUME NEW q \in Publishers \ {p} PROVE Keeps(q)
  <2>1. conn[q] # s /\ conn[q] \in Sessions \cup {NoSession}
    BY <1>2 DEF DInv, OInv, Separate, TypeOK
  <2>2. Untouched(q)
    BY <1>1, <1>3, <2>1 DEF Untouched
  <2> QED
    BY <2>2, UntouchedKeeps DEF DInv
<1> QED
  BY <1>1, <1>4, <1>5 DEF Quiet

\* A SELECT or a mark that fails in a live transaction is a fault.
LEMMA QuietMarkFails ==
  ASSUME DInv, NEW p \in Publishers,
         MarkFails(p) \/ LockPendingFails(p) \/ LockPendingLost(p)
  PROVE  Quiet
<1>1. /\ TypeOK /\ Forget(p)
      /\ UNCHANGED <<status, session, marks, kafka>>
      /\ conn'[p] \in {conn[p], NoSession}
      /\ \A q \in Publishers \ {p} : UNCHANGED <<pc[q], conn[q]>>
      /\ faults' = faults \/ faults' = faults + 1
      /\ Live(p) => faults' = faults + 1
  BY DEF DInv, OInv, TypeOK, MarkFails, LockPendingFails, LockPendingLost, Goto, dbVars,
         Fault, Live, Alive
<1>2. /\ todo'[p] = {} /\ current'[p] = NoEvent
      /\ \A q \in Publishers \ {p} : UNCHANGED <<todo[q], current[q], outcome[q]>>
  BY <1>1, ForgetStep
<1>3. faults \in Nat
  BY <1>1 DEF TypeOK
<1>4. Keeps(p)
  BY <1>1, <1>2, <1>3, NoneAssumption DEF Keeps, Fresh, IsLate, Settles, Live
<1>5. \A q \in Publishers \ {p} : Keeps(q)
  BY <1>1, <1>2, UntouchedKeeps DEF DInv, Untouched
<1> QED
  BY <1>1, <1>4, <1>5 DEF Quiet

\* COMMIT and ROLLBACK, acknowledged or not, and the discovery of a broken session:
\* the publisher leaves it.  Without a fault, what it was to settle is settled.
LEMMA QuietLeave ==
  ASSUME DInv, NEW p \in Publishers,
         Commit(p) \/ Rollback(p) \/ CommitLost(p) \/ RollbackLost(p) \/ FindBroken(p)
  PROVE  Quiet
<1> DEFINE s == conn[p]
<1>1. /\ TypeOK /\ PubInv(p) /\ OInv
      /\ Leave(p) /\ pc[p] \in {"commit", "rollback"}
      /\ UNCHANGED <<todo, current, outcome, kafka>>
      /\ faults' = faults \/ faults' = faults + 1
  BY DEF DInv, OInv, Commit, Rollback, CommitLost, RollbackLost, FindBroken, Fault
<1>2. /\ s \in Sessions /\ conn'[p] = NoSession
      /\ \A q \in Publishers \ {p} : conn[q] # s /\ UNCHANGED <<pc[q], conn[q]>>
  BY <1>1, Left DEF Leave, TypeOK
<1>3. \A r \in Sessions \ {s} : session'[r] = session[r] /\ marks'[r] = marks[r]
  BY <1>1 DEF TypeOK, Commit, Rollback, CommitLost, RollbackLost, FindBroken, End, dbVars
<1>4. \A e \in Events :
        /\ status[e] = "sent" => status'[e] = "sent"
        /\ Commit(p) /\ marks[s][e] = "sent" => status'[e] = "sent"
  <2>1. CASE Commit(p)
    BY <2>1 DEF Commit, Apply, StatusAfter
  <2>2. CASE UNCHANGED status
    <3>1. ~Commit(p) \/ \A e \in Events : status'[e] = StatusAfter(marks[s][e], status[e])
      BY DEF Commit, Apply
    <3> QED
      BY <2>2, <3>1 DEF StatusAfter
  <2> QED
    BY <2>1, <2>2 DEF Rollback, CommitLost, RollbackLost, FindBroken, dbVars
<1>5. ASSUME NEW e \in Events, Settles(p, e), faults' = faults PROVE status'[e] = "sent"
  <2>1. pc[p] = "commit" /\ current[p] = NoEvent /\ session[s] = "open"
    BY <1>1, <1>5 DEF Settles, Live, PubInv
  <2>2. Commit(p)
    <3>1. faults \in Nat
      BY <1>1 DEF TypeOK
    <3> QED
      BY <1>5, <2>1, <3>1 DEF Rollback, CommitLost, RollbackLost, FindBroken, Fault
  <2>3. marks[s][e] = "sent"
    BY <1>5, <2>1, NoneAssumption DEF Settles
  <2> QED
    BY <1>4, <2>2, <2>3
<1>6. Keeps(p)
  BY <1>2, <1>5 DEF Keeps, Fresh, IsLate, Live
<1>7. ASSUME NEW q \in Publishers \ {p} PROVE Keeps(q)
  <2>1. conn[q] \in Sessions \cup {NoSession}
    BY <1>1 DEF TypeOK
  <2>2. Untouched(q)
    BY <1>1, <1>2, <1>3, <2>1 DEF Untouched
  <2> QED
    BY <2>2, UntouchedKeeps DEF DInv
<1> QED
  BY <1>1, <1>4, <1>6, <1>7 DEF Quiet

\* The end of a process is a fault.
LEMMA QuietCrash ==
  ASSUME DInv, NEW p \in Publishers, Crash(p)
  PROVE  Quiet
<1>1. /\ TypeOK /\ faults' = faults + 1 /\ faults \in Nat
      /\ conn'[p] = NoSession
      /\ UNCHANGED <<status, marks, kafka>>
      /\ \A q \in Publishers \ {p} :
           UNCHANGED <<pc[q], conn[q], todo[q], current[q], outcome[q]>>
      /\ \A r \in Sessions : r # conn[p] => session'[r] = session[r]
  BY DEF DInv, OInv, TypeOK, Crash, Forget, Goto, Fault
<1>2. Keeps(p)
  BY <1>1 DEF Keeps, Fresh, IsLate, Live
<1>3. ASSUME NEW q \in Publishers \ {p} PROVE Keeps(q)
  <2>1. conn[q] # NoSession => conn[q] # conn[p] /\ conn[q] \in Sessions
    BY <1>1 DEF DInv, OInv, Separate, TypeOK
  <2>2. Untouched(q)
    BY <1>1, <2>1 DEF Untouched
  <2> QED
    BY <2>2, UntouchedKeeps DEF DInv
<1> QED
  BY <1>1, <1>2, <1>3 DEF Quiet

\* The server ends a session that has no publisher.
LEMMA QuietEndSession ==
  ASSUME DInv, NEW s \in Sessions, EndSession(s)
  PROVE  Quiet
<1>1. /\ TypeOK /\ Orphaned(s)
      /\ UNCHANGED <<pc, conn, todo, current, outcome, kafka, faults>>
      /\ \A r \in Sessions \ {s} : session'[r] = session[r] /\ marks'[r] = marks[r]
  BY DEF DInv, OInv, TypeOK, EndSession, SessionAborts, SessionCommits, End, localVars
<1>2. \A e \in Events : status[e] = "sent" => status'[e] = "sent"
  BY DEF EndSession, SessionAborts, SessionCommits, Apply, StatusAfter
<1>3. ASSUME NEW q \in Publishers PROVE Keeps(q)
  <2>1. conn[q] # s /\ conn[q] \in Sessions \cup {NoSession}
    BY <1>1 DEF Orphaned, TypeOK
  <2>2. Untouched(q)
    BY <1>1, <2>1 DEF Untouched
  <2> QED
    BY <2>2, UntouchedKeeps DEF DInv
<1> QED
  BY <1>1, <1>2, <1>3 DEF Quiet

----------------------------------------------------------------------------
(* The steps that move the account *)

\* The server ends the session of a publisher at work.  The fault pays for the
\* late delivery this may lead to, or for the mark that is lost.
LEMMA BreakStep ==
  ASSUME DInv, NEW s \in Sessions, Break(s)
  PROVE  (\A q \in Publishers : Fresh(q)') /\ (\A e \in Events : Budget(e)')
<1>1. PICK p \in Publishers : conn[p] = s
  BY DEF Break
<1>2. /\ TypeOK /\ s # NoSession /\ session[s] = "open" /\ session'[s] = "broken"
      /\ UNCHANGED <<status, pc, conn, todo, current, outcome, kafka>>
      /\ faults' = faults + 1
      /\ \A r \in Sessions \ {s} : session'[r] = session[r] /\ marks'[r] = marks[r]
  BY NoneAssumption DEF DInv, OInv, TypeOK, Break, End, localVars, Fault
<1>3. ASSUME NEW q \in Publishers \ {p} PROVE Untouched(q)
  <2>1. conn[q] # s /\ conn[q] \in Sessions \cup {NoSession}
    BY <1>1, <1>2 DEF DInv, OInv, Separate, TypeOK
  <2> QED
    BY <1>2, <2>1 DEF Untouched
<1>4. \A q \in Publishers \ {p} : Keeps(q)
  BY <1>3, UntouchedKeeps DEF DInv
<1>5. Fresh(p)'
  BY <1>1, <1>2 DEF Fresh, Live
<1>6. ASSUME NEW e \in Events PROVE Budget(e)'
  <2>1. Budget(e) /\ kafka'[e] = kafka[e] /\ kafka[e] \in Nat /\ faults \in Nat
    BY <1>2 DEF DInv, TypeOK
  <2>2. Late(e)' \subseteq Late(e) \cup {p}
    BY <1>4 DEF Late, Keeps
  <2>3. OnCourse(e) => Late(e)' \subseteq Late(e)
    <3>1. OnCourse(e) => e \notin todo[p]
      <4>1. ~IsLate(p, e)
        BY <1>1, <1>2 DEF IsLate
      <4> QED
        BY <4>1, OnCourseIsExclusive
    <3>2. e \notin todo[p] => ~IsLate(p, e)'
      BY <1>2 DEF IsLate
    <3> QED
      BY <1>4, <3>1, <3>2 DEF Late, Keeps
  <2>4. /\ IsFiniteSet(Late(e) \cup {p})
        /\ Cardinality(Late(e) \cup {p}) <= Cardinality(Late(e)) + 1
    <3>1. IsFiniteSet(Late(e)) /\ Cardinality(Late(e)) \in Nat
      BY <2>1, Numbers DEF Budget
    <3>2. ASSUME NEW S, IsFiniteSet(S), Cardinality(S) \in Nat
          PROVE  IsFiniteSet(S \cup {p}) /\ Cardinality(S \cup {p}) <= Cardinality(S) + 1
      <4>1. Cardinality(S \cup {p}) \in {Cardinality(S), Cardinality(S) + 1}
        BY <3>2, FS_AddElement, Zenon
      <4> QED
        BY <3>2, <4>1, FS_AddElement
    <3> QED
      BY <3>1, <3>2
  <2>5. /\ IsFiniteSet(Late(e)') /\ Cardinality(Late(e)') \in Nat
        /\ Cardinality(Late(e) \cup {p}) \in Nat /\ Cardinality(Late(e)) \in Nat
        /\ Cardinality(Late(e)') <= Cardinality(Late(e) \cup {p})
        /\ OnCourse(e) => Cardinality(Late(e)') <= Cardinality(Late(e))
    BY <2>1, <2>2, <2>3, <2>4, FS_Subset, FS_CardinalityType DEF Budget
  <2>6. Due(e)' <= faults'
    BY <1>2, <2>1, <2>4, <2>5 DEF Budget, Due
  <2> QED
    BY <2>5, <2>6 DEF Budget
<1> QED
  BY <1>4, <1>5, <1>6 DEF Keeps

\* A delivery of e by p, if it is one, paid for by faults: the account of e.
LEMMA DeliverStep ==
  ASSUME DInv, NEW p \in Publishers, NEW e \in Events, NEW n \in Nat, NEW paid \in Nat,
         e \in todo[p], Live(p) \/ IsLate(p, e),
         kafka'[e] = kafka[e] + n, faults' = faults + paid,
         n <= paid + 1,
         \A q \in Publishers \ {p} : IsLate(q, e)' <=> IsLate(q, e),
         ~IsLate(p, e)',
         Live(p) /\ n > paid => OnCourse(e)',
         OnCourse(e) => OnCourse(e)'
  PROVE  Budget(e)'
<1>1. /\ Budget(e) /\ kafka[e] \in Nat /\ Cardinality(Late(e)) \in Nat /\ faults \in Nat
  BY Numbers DEF DInv
<1>2. Late(e)' = Late(e) \ {p}
  BY DEF Late
<1>3. IsFiniteSet(Late(e)) /\ IsFiniteSet(Late(e)')
  BY <1>1, <1>2, FS_Subset DEF Budget
<1>4. Due(e) = kafka[e] + Cardinality(Late(e)) /\ Due(e)' = kafka'[e] + Cardinality(Late(e)')
  BY DEF Due
<1>5. CASE Live(p)
  <2>1. ~IsLate(p, e)
    BY <1>5 DEF Live, IsLate
  <2>2. ~OnCourse(e)
    BY <2>1, OnCourseIsExclusive
  <2>3. Late(e)' = Late(e)
    BY <1>2, <2>1 DEF Late
  <2>4. Due(e) \in Nat /\ Due(e)' = Due(e) + n /\ Due(e) <= faults
    BY <1>1, <1>4, <2>2, <2>3 DEF Budget
  <2>5. Due(e)' <= faults + paid \/ (n > paid /\ Due(e)' <= faults + paid + 1)
    BY <1>1, <2>4
  <2> QED
    BY <1>3, <1>5, <2>5 DEF Budget
<1>6. CASE IsLate(p, e)
  <2>1. p \in Late(e)
    BY <1>6 DEF Late
  <2>2. Cardinality(Late(e)') \in Nat /\ Cardinality(Late(e)) = Cardinality(Late(e)') + 1
    BY <1>2, <1>3, <2>1, FS_RemoveElement, FS_CardinalityType
  <2>3. Due(e) \in Nat /\ Due(e)' \in Nat /\ Due(e)' + 1 = Due(e) + n
    BY <1>1, <1>4, <2>2
  <2>4. /\ Due(e) <= faults => Due(e)' <= faults + paid
        /\ Due(e) <= faults + 1 => Due(e)' <= faults + paid + 1
    BY <1>1, <2>3
  <2> QED
    BY <1>1, <1>3, <2>4 DEF Budget
<1> QED
  BY <1>5, <1>6

\* The publisher comes to e, of which n copies reach Kafka.  One copy is paid for
\* if e is now on course, every other one by a fault.
LEMMA HandleStep ==
  ASSUME DInv, NEW p \in Publishers, NEW e \in Events, NEW n \in Nat, NEW paid \in Nat,
         NEW result \in {"sent", "failed"},
         Handle(p, e, result), Goto(p, "mark"), UNCHANGED dbVars,
         kafka' = [kafka EXCEPT ![e] = @ + n],
         faults' = faults + paid,
         n <= paid + 1,
         n > paid => result = "sent"
  PROVE  (\A q \in Publishers : Fresh(q)') /\ (\A f \in Events : Budget(f)')
<1>1. /\ TypeOK /\ PubInv(p) /\ Fresh(p)
      /\ pc[p] = "send" /\ pc'[p] = "mark" /\ e \in todo[p]
      /\ todo'[p] = todo[p] \ {e} /\ current'[p] = e /\ outcome'[p] = result
      /\ UNCHANGED <<status, session, marks, conn>>
      /\ \A q \in Publishers \ {p} :
           UNCHANGED <<pc[q], todo[q], current[q], outcome[q]>>
      /\ kafka'[e] = kafka[e] + n
      /\ \A f \in Events \ {e} : kafka'[f] = kafka[f]
  BY DEF DInv, OInv, TypeOK, Handle, Goto, dbVars, Oldest
<1>2. /\ current[p] = NoEvent
      /\ Live(p) \/ IsLate(p, e)
  BY <1>1, NoneAssumption DEF PubInv, IsLate, Live
<1>3. ASSUME NEW q \in Publishers \ {p} PROVE Untouched(q)
  BY <1>1 DEF Untouched
<1>4. \A q \in Publishers \ {p} : Keeps(q)
  BY <1>3, UntouchedKeeps DEF DInv
<1>5. Fresh(p)'
  BY <1>1 DEF Fresh, Live
<1>6. \A f \in Events : Settles(p, f) => Settles(p, f)'
  BY <1>1, <1>2, NoneAssumption DEF Settles, Live
<1>7. \A q \in Publishers \ {p}, f \in Events :
        (IsLate(q, f)' <=> IsLate(q, f)) /\ (Settles(q, f) <=> Settles(q, f)')
  BY <1>1 DEF IsLate, Settles, Live
<1>8. \A f \in Events : OnCourse(f) => OnCourse(f)'
  BY <1>1, <1>6, <1>7 DEF OnCourse
<1>9. Budget(e)'
  <2>1. ~IsLate(p, e)'
    BY <1>1 DEF IsLate
  <2>2. Live(p) /\ n > paid => OnCourse(e)'
    BY <1>1 DEF OnCourse, Settles, Live
  <2> QED
    BY <1>1, <1>2, <1>7, <1>8, <2>1, <2>2, DeliverStep
<1>10. ASSUME NEW f \in Events \ {e} PROVE Budget(f)'
  <2>1. Late(f)' = Late(f)
    <3>1. IsLate(p, f)' <=> IsLate(p, f)
      BY <1>1 DEF IsLate
    <3> QED
      BY <1>7, <3>1 DEF Late
  <2>2. Due(f)' = Due(f) /\ Due(f) \in Nat /\ faults \in Nat
    BY <1>1, <2>1, Numbers DEF Due
  <2>3. Budget(f) /\ (OnCourse(f) => OnCourse(f)')
    BY <1>8 DEF DInv
  <2> QED
    BY <2>1, <2>2, <2>3 DEF Budget
<1> QED
  BY <1>4, <1>5, <1>9, <1>10 DEF Keeps

\* Every way a message is sent, or not.
LEMMA SendStep ==
  ASSUME DInv, NEW p \in Publishers,
         \/ Send(p) \/ SendRepeated(p) \/ SendFails(p) \/ SendUnacknowledged(p)
         \/ DecodeFails(p)
  PROVE  (\A q \in Publishers : Fresh(q)') /\ (\A f \in Events : Budget(f)')
<1>1. /\ TypeOK /\ kafka \in [Events -> Nat] /\ faults \in Nat /\ Poison \subseteq Events
      /\ WriterAttempts \in Nat
  BY EventsAssumption, BoundsAssumption DEF DInv, OInv, TypeOK
<1>2. CASE Send(p)
  <2>1. PICK e \in Events \ Poison :
          Handle(p, e, "sent") /\ kafka' = [kafka EXCEPT ![e] = @ + 1]
    BY <1>2 DEF Send
  <2>2. Goto(p, "mark") /\ UNCHANGED dbVars /\ faults' = faults
    BY <1>2 DEF Send
  <2>3. PICK n \in Nat, paid \in Nat : n = 1 /\ paid = 0
    OBVIOUS
  <2>4. kafka' = [kafka EXCEPT ![e] = @ + n] /\ faults' = faults + paid /\ n <= paid + 1
    BY <1>1, <2>1, <2>2, <2>3
  <2> QED
    BY <2>1, <2>2, <2>4, HandleStep
<1>3. CASE SendRepeated(p)
  <2>1. PICK e \in Events \ Poison, n \in 2 .. WriterAttempts :
          /\ Faults(n - 1)
          /\ Handle(p, e, "sent") /\ kafka' = [kafka EXCEPT ![e] = @ + n]
    BY <1>3 DEF SendRepeated
  <2>2. Goto(p, "mark") /\ UNCHANGED dbVars
    BY <1>3 DEF SendRepeated
  <2>3. n \in Nat /\ n - 1 \in Nat /\ faults' = faults + (n - 1) /\ n <= (n - 1) + 1
    BY <1>1, <2>1 DEF Faults
  <2> QED
    BY <2>1, <2>2, <2>3, HandleStep
<1>4. CASE SendUnacknowledged(p)
  <2>1. PICK e \in Events \ Poison, n \in 1 .. WriterAttempts :
          /\ Faults(n)
          /\ Handle(p, e, "failed") /\ kafka' = [kafka EXCEPT ![e] = @ + n]
    BY <1>4 DEF SendUnacknowledged, ResultOfError
  <2>2. Goto(p, "mark") /\ UNCHANGED dbVars
    BY <1>4 DEF SendUnacknowledged, AfterFailure
  <2>3. n \in Nat /\ faults' = faults + n /\ n <= n + 1 /\ ~(n > n)
    BY <1>1, <2>1 DEF Faults
  <2> QED
    BY <2>1, <2>2, <2>3, HandleStep
<1>5. CASE SendFails(p) \/ DecodeFails(p)
  <2>1. PICK e \in Events : Handle(p, e, "failed")
    BY <1>1, <1>5 DEF SendFails, DecodeFails, ResultOfError
  <2>2. /\ Goto(p, "mark") /\ UNCHANGED dbVars /\ kafka' = kafka
        /\ \E paid \in {0, 1} : faults' = faults + paid
    BY <1>1, <1>5 DEF SendFails, DecodeFails, AfterFailure, Fault
  <2>3. PICK n \in Nat, paid \in Nat : n = 0 /\ faults' = faults + paid
    BY <2>2
  <2>4. kafka' = [kafka EXCEPT ![e] = @ + n]
    BY <1>1, <2>2, <2>3
  <2>5. n <= paid + 1 /\ ~(n > paid)
    BY <2>3
  <2> QED
    BY <2>1, <2>2, <2>3, <2>4, <2>5, HandleStep
<1> QED
  BY <1>2, <1>3, <1>4, <1>5

----------------------------------------------------------------------------
(* The theorem *)

\* Every step keeps the account balanced.
THEOREM DInvNext == DInv /\ [Next]_vars => DInv'
<1> SUFFICES ASSUME DInv, [Next]_vars
             PROVE  (\A q \in Publishers : Fresh(q)') /\ (\A e \in Events : Budget(e)')
  BY OInvNext DEF DInv
<1>1. ASSUME Quiet
      PROVE  (\A q \in Publishers : Fresh(q)') /\ (\A e \in Events : Budget(e)')
  BY <1>1, QuietStep DEF Quiet, Keeps
<1>2. ASSUME NEW p \in Publishers, Proceed(p) \/ Fail(p)
      PROVE  \/ Quiet
             \/ Send(p) \/ SendRepeated(p) \/ SendFails(p) \/ SendUnacknowledged(p)
             \/ DecodeFails(p)
  BY <1>2, QuietIdle, QuietOpenBatch, QuietLockRow, QuietLockPending, QuietMark,
     QuietMarkFails, QuietLeave, QuietCrash DEF Proceed, Fail
<1>3. CASE UNCHANGED vars
  <2>1. UNCHANGED <<status, session, marks, pc, conn, todo, current, outcome, kafka, faults>>
    BY <1>3 DEF vars
  <2>2. \A q \in Publishers : Keeps(q)
    BY <2>1, UntouchedKeeps DEF DInv, Untouched
  <2> QED
    BY <1>1, <2>1, <2>2 DEF Quiet
<1> QED
  BY <1>1, <1>2, <1>3, QuietInsert, QuietEndSession, BreakStep, SendStep DEF Next

\* However publishers, sessions and acknowledgements fail, an event is in Kafka at
\* most once more than there were faults: without a fault, at most once.
THEOREM DuplicatesNeedFaultsHolds == Spec => []DuplicatesNeedFaults
<1>1. DInv => DuplicatesNeedFaults
  <2> SUFFICES ASSUME DInv, NEW e \in Events PROVE kafka[e] <= 1 + faults
    BY DEF DuplicatesNeedFaults
  <2> QED
    BY Numbers DEF DInv, Budget, Due
<1> QED
  BY <1>1, DInvInit, DInvNext, PTL DEF Spec
=============================================================================
