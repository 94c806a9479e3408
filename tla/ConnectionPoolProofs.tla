------------------------ MODULE ConnectionPoolProofs ------------------------
(***************************************************************************)
(* Proofs about ConnectionPool, for any size of the pool above one and any *)
(* set of handlers, finite or not.                                         *)
(*                                                                         *)
(* The inductive invariant adds to TypeOK and NoConnectionLost that those  *)
(* who hold a connection are finitely many, which counting them needs, and *)
(* what each user may be doing.                                            *)
(***************************************************************************)
EXTENDS ConnectionPool, SequenceTheorems, FiniteSetTheorems, TLAPS

(* Facts about queues: sequences in which nobody stands twice. *)

\* Joining the queue at its end.
LEMMA JoinQueue ==
  ASSUME NEW S, NEW s \in Seq(S), IsInjective(s), NEW u \in S, u \notin ToSet(s)
  PROVE  /\ Append(s, u) \in Seq(S) /\ IsInjective(Append(s, u))
         /\ ToSet(Append(s, u)) = ToSet(s) \cup {u}
<1> DEFINE new == Append(s, u)
<1>1. /\ new \in Seq(S) /\ Len(new) = Len(s) + 1 /\ Len(s) \in Nat
      /\ \A i \in 1 .. Len(s) : new[i] = s[i]
      /\ new[Len(s) + 1] = u
  BY AppendProperties
<1>2. DOMAIN s = 1 .. Len(s) /\ DOMAIN new = 1 .. Len(s) + 1
  BY <1>1
<1> HIDE DEF new
<1>3. IsInjective(new)
  <2> SUFFICES ASSUME NEW i \in 1 .. Len(s) + 1, NEW j \in 1 .. Len(s) + 1,
                      new[i] = new[j]
               PROVE  i = j
    BY <1>2 DEF IsInjective
  <2>1. CASE i \in 1 .. Len(s) /\ j \in 1 .. Len(s)
    BY <1>1, <1>2, <2>1 DEF IsInjective
  <2>2. CASE i \in 1 .. Len(s) /\ j = Len(s) + 1
    BY <1>1, <1>2, <2>2 DEF ToSet
  <2>3. CASE j \in 1 .. Len(s) /\ i = Len(s) + 1
    BY <1>1, <1>2, <2>3 DEF ToSet
  <2> QED
    BY <1>1, <2>1, <2>2, <2>3
<1>4. ToSet(new) = ToSet(s) \cup {u}
  <2>1. ASSUME NEW x \in ToSet(new) PROVE x \in ToSet(s) \cup {u}
    <3>1. PICK i \in 1 .. Len(s) + 1 : x = new[i]
      BY <1>2 DEF ToSet
    <3>2. i \in 1 .. Len(s) \/ i = Len(s) + 1
      BY <1>1
    <3> QED
      BY <1>1, <1>2, <3>1, <3>2 DEF ToSet
  <2>2. ASSUME NEW x \in ToSet(s) PROVE x \in ToSet(new)
    <3>1. PICK i \in 1 .. Len(s) : x = s[i]
      BY <1>2 DEF ToSet
    <3>2. i \in 1 .. Len(s) + 1
      BY <1>1
    <3> QED
      BY <1>1, <1>2, <3>1, <3>2 DEF ToSet
  <2>3. u \in ToSet(new)
    <3>1. Len(s) + 1 \in 1 .. Len(s) + 1
      BY <1>1
    <3> QED
      BY <1>1, <1>2, <3>1 DEF ToSet
  <2> QED
    BY <2>1, <2>2, <2>3
<1> QED
  BY <1>1, <1>3, <1>4 DEF new

\* Leaving it from any place.
LEMMA LeaveQueue ==
  ASSUME NEW S, NEW s \in Seq(S), IsInjective(s), NEW k \in 1 .. Len(s)
  PROVE  /\ RemoveAt(s, k) \in Seq(S) /\ IsInjective(RemoveAt(s, k))
         /\ ToSet(RemoveAt(s, k)) = ToSet(s) \ {s[k]}
<1> DEFINE before == SubSeq(s, 1, k - 1)
           after == SubSeq(s, k + 1, Len(s))
           new == RemoveAt(s, k)
           old(i) == IF i < k THEN i ELSE i + 1
<1>1. Len(s) \in Nat /\ k \in Int /\ 1 <= k /\ k <= Len(s) /\ DOMAIN s = 1 .. Len(s)
      /\ \A i \in 1 .. Len(s) : s[i] \in S
  OBVIOUS
<1>2. /\ before \in Seq(S) /\ Len(before) = k - 1
      /\ \A i \in 1 .. k - 1 : before[i] = s[i]
  <2>1. \A i \in 1 .. k - 1 : s[i] \in S
    BY <1>1
  <2>2. /\ before \in Seq(S) /\ Len(before) = IF 1 <= k - 1 THEN k - 1 - 1 + 1 ELSE 0
        /\ \A i \in 1 .. k - 1 - 1 + 1 : before[i] = s[1 + i - 1]
    <3>1. 1 \in Int /\ k - 1 \in Int
      BY <1>1
    <3> QED
      BY <2>1, <3>1, SubSeqProperties
  <2> HIDE DEF before
  <2> QED
    BY <1>1, <2>2
<1>3. /\ after \in Seq(S) /\ Len(after) = Len(s) - k
      /\ \A i \in 1 .. Len(s) - k : after[i] = s[k + i]
  <2>1. \A i \in k + 1 .. Len(s) : s[i] \in S
    BY <1>1
  <2>2. /\ after \in Seq(S)
        /\ Len(after) = IF k + 1 <= Len(s) THEN Len(s) - (k + 1) + 1 ELSE 0
        /\ \A i \in 1 .. Len(s) - (k + 1) + 1 : after[i] = s[k + 1 + i - 1]
    <3>1. k + 1 \in Int /\ Len(s) \in Int
      BY <1>1
    <3> QED
      BY <2>1, <3>1, SubSeqProperties
  <2>3. Len(s) - (k + 1) + 1 = Len(s) - k
    BY <1>1
  <2>4. \A i \in 1 .. Len(s) - k : k + 1 + i - 1 = k + i
    BY <1>1
  <2>5. Len(after) = Len(s) - k
    <3>1. Len(after) = IF k + 1 <= Len(s) THEN Len(s) - (k + 1) + 1 ELSE 0
      BY <2>2
    <3> HIDE DEF after
    <3>2. CASE k + 1 <= Len(s)
      BY <2>3, <3>1, <3>2
    <3>3. CASE k = Len(s)
      <4>1. ~(k + 1 <= Len(s)) /\ Len(s) - k = 0
        BY <1>1, <3>3
      <4> QED
        BY <3>1, <4>1
    <3>4. \A n \in Nat : \A i \in 1 .. n : i = n \/ i + 1 <= n
      OBVIOUS
    <3>5. k = Len(s) \/ k + 1 <= Len(s)
      BY <1>1, <3>4
    <3> QED
      BY <3>2, <3>3, <3>5
  <2>6. \A i \in 1 .. Len(s) - k : after[i] = s[k + i]
    <3> HIDE DEF after
    <3> QED
      BY <2>2, <2>3, <2>4
  <2> QED
    BY <2>2, <2>5, <2>6
<1>4. new = before \o after
  BY DEF RemoveAt
<1> HIDE DEF before, after, new
<1>5. /\ new \in Seq(S) /\ Len(new) = Len(s) - 1
      /\ \A i \in 1 .. Len(s) - 1 :
           new[i] = IF i <= k - 1 THEN before[i] ELSE after[i - (k - 1)]
  <2>1. /\ new \in Seq(S) /\ Len(new) = Len(before) + Len(after)
        /\ \A i \in 1 .. Len(before) + Len(after) :
             new[i] = IF i <= Len(before) THEN before[i] ELSE after[i - Len(before)]
    BY <1>2, <1>3, <1>4, ConcatProperties
  <2>2. Len(before) + Len(after) = Len(s) - 1
    BY <1>1, <1>2, <1>3
  <2> QED
    BY <1>2, <2>1, <2>2
<1>6. \A i \in 1 .. Len(s) - 1 : new[i] = s[old(i)] /\ old(i) \in (1 .. Len(s)) \ {k}
  BY <1>1, <1>2, <1>3, <1>5
<1>7. \A i \in (1 .. Len(s)) \ {k} : \E j \in 1 .. Len(s) - 1 : i = old(j)
  <2> SUFFICES ASSUME NEW i \in (1 .. Len(s)) \ {k}
               PROVE  \E j \in 1 .. Len(s) - 1 : i = old(j)
    OBVIOUS
  <2>1. CASE i < k
    BY <1>1, <2>1
  <2>2. CASE i > k
    <3>1. i - 1 \in 1 .. Len(s) - 1 /\ i = old(i - 1)
      BY <1>1, <2>2
    <3> QED
      BY <3>1
  <2> QED
    BY <1>1, <2>1, <2>2
<1>8. \A i, j \in 1 .. Len(s) - 1 : old(i) = old(j) => i = j
  BY <1>1
<1> HIDE DEF old
<1>9. DOMAIN new = 1 .. Len(s) - 1
  BY <1>5
<1>10. IsInjective(new)
  BY <1>1, <1>6, <1>8, <1>9 DEF IsInjective
<1>11. ToSet(new) = ToSet(s) \ {s[k]}
  <2>1. ASSUME NEW x \in ToSet(new) PROVE x \in ToSet(s) \ {s[k]}
    <3>1. PICK i \in 1 .. Len(s) - 1 : x = new[i]
      BY <1>9 DEF ToSet
    <3> QED
      BY <1>1, <1>6, <3>1 DEF ToSet, IsInjective
  <2>2. ASSUME NEW x \in ToSet(s) \ {s[k]} PROVE x \in ToSet(new)
    <3>1. PICK i \in (1 .. Len(s)) \ {k} : x = s[i]
      BY <1>1 DEF ToSet
    <3>2. PICK j \in 1 .. Len(s) - 1 : i = old(j)
      BY <1>7
    <3> QED
      BY <1>6, <1>9, <3>1, <3>2 DEF ToSet
  <2> QED
    BY <2>1, <2>2
<1> QED
  BY <1>5, <1>10, <1>11 DEF new

\* Being served: the first in the queue leaves it.
LEMMA ServeQueue ==
  ASSUME NEW S, NEW s \in Seq(S), IsInjective(s), s # <<>>
  PROVE  /\ Tail(s) \in Seq(S) /\ IsInjective(Tail(s))
         /\ ToSet(Tail(s)) = ToSet(s) \ {Head(s)}
         /\ Head(s) \in ToSet(s)
<1>1. Len(s) \in Nat /\ DOMAIN s = 1 .. Len(s) /\ Head(s) = s[1] /\ Len(s) # 0
  BY EmptySeq
<1>2. 1 \in 1 .. Len(s)
  BY <1>1
<1>3. Tail(s) = RemoveAt(s, 1)
  <2>1. Tail(s) = SubSeq(s, 2, Len(s)) /\ Tail(s) \in Seq(S)
    BY TailIsSubSeq, HeadTailProperties
  <2>2. SubSeq(s, 1, 1 - 1) = <<>>
    BY SubSeqEmpty
  <2>3. RemoveAt(s, 1) = <<>> \o Tail(s)
    BY <2>1, <2>2 DEF RemoveAt
  <2> QED
    BY <2>1, <2>3, ConcatEmptySeq
<1>4. Head(s) \in ToSet(s)
  BY <1>1, <1>2 DEF ToSet
<1>5. /\ RemoveAt(s, 1) \in Seq(S) /\ IsInjective(RemoveAt(s, 1))
      /\ ToSet(RemoveAt(s, 1)) = ToSet(s) \ {s[1]}
  BY <1>2, LeaveQueue
<1> QED
  BY <1>1, <1>3, <1>4, <1>5

-----------------------------------------------------------------------------
(* The inductive invariant *)

Waiters == {u \in Users : pc[u] \in Waiting}

Doing == {"idle", "checking", "counts"} \cup Holding \cup Waiting

\* What each user may be doing.
RoleInv ==
  /\ \A h \in Handlers : pc[h] \in {"idle", "checking", "waiting", "using", "written"}
  /\ pc[Publisher] \in {"idle", "waiting", "using", "sending", "marking",
                        "counts", "waitingToCount", "counting"}
  /\ pc[Probe] \in {"idle", "waiting", "using"}

\* What the pool counts and keeps in order.
Accounted == TypeOK /\ NoConnectionLost

PoolInv == Accounted /\ IsFiniteSet(Holders)

IInv == PoolInv /\ RoleInv

\* A user that goes on joins or leaves those who hold and those who wait.
LEMMA GotoSets ==
  ASSUME pc \in [Users -> Doing], NEW u \in Users, NEW step \in Doing, Goto(u, step)
  PROVE  /\ pc' \in [Users -> Doing]
         /\ Holders' = IF step \in Holding THEN Holders \cup {u} ELSE Holders \ {u}
         /\ Waiters' = IF step \in Waiting THEN Waiters \cup {u} ELSE Waiters \ {u}
<1>1. pc' \in [Users -> Doing] /\ \A v \in Users : pc'[v] = IF v = u THEN step ELSE pc[v]
  BY DEF Goto
<1>2. Holders' = {v \in Users : pc'[v] \in Holding}
  BY DEF Holders, Holding
<1>3. Waiters' = {v \in Users : pc'[v] \in Waiting}
  BY DEF Waiters, Waiting
<1> HIDE DEF Holding, Waiting
<1>4. Holders' = IF step \in Holding THEN Holders \cup {u} ELSE Holders \ {u}
  BY <1>1, <1>2 DEF Holders
<1>5. Waiters' = IF step \in Waiting THEN Waiters \cup {u} ELSE Waiters \ {u}
  BY <1>1, <1>3 DEF Waiters
<1> QED
  BY <1>1, <1>4, <1>5

\* The accounts by these sets.
LEMMA TypeBySets ==
  Accounted <=> /\ pc \in [Users -> Doing]
                /\ inUse \in 0 .. MaxConns /\ inUse = Cardinality(Holders)
                /\ queue \in Seq(Users) /\ IsInjective(queue) /\ ToSet(queue) = Waiters
  BY DEF Accounted, TypeOK, NoConnectionLost, Doing, Waiters

\* The same after a step.
LEMMA TypeBySetsNext ==
  Accounted' <=> /\ pc' \in [Users -> Doing]
                 /\ inUse' \in 0 .. MaxConns /\ inUse' = Cardinality(Holders')
                 /\ queue' \in Seq(Users) /\ IsInjective(queue') /\ ToSet(queue') = Waiters'
  BY DEF Accounted, TypeOK, NoConnectionLost, Doing, Waiters, Holding, Waiting

\* Nobody both holds a connection and waits for one.
LEMMA Apart == Holding \cap Waiting = {} /\ Holders \cap Waiters = {}
  BY DEF Holders, Waiters, Holding, Waiting

\* Somebody who neither waits nor holds a connection joins the queue.
LEMMA WaitKeeps ==
  ASSUME PoolInv, NEW u \in Users, NEW step \in Waiting, Wait(u, step),
         pc[u] \in {"idle", "checking", "counts"}
  PROVE  PoolInv'
<1>1. step \in Doing /\ step \notin Holding /\ u \notin Holders /\ u \notin Waiters
  BY DEF Doing, Holders, Waiters, Holding, Waiting
<1>2. pc' \in [Users -> Doing] /\ Holders' = Holders /\ Waiters' = Waiters \cup {u}
  <2>1. pc \in [Users -> Doing] /\ Goto(u, step)
    BY <1>1, TypeBySets DEF PoolInv, Wait
  <2>2. /\ pc' \in [Users -> Doing]
        /\ Holders' = IF step \in Holding THEN Holders \cup {u} ELSE Holders \ {u}
        /\ Waiters' = IF step \in Waiting THEN Waiters \cup {u} ELSE Waiters \ {u}
    BY <1>1, <2>1, GotoSets
  <2> QED
    BY <1>1, <2>2
<1>3. queue' \in Seq(Users) /\ IsInjective(queue') /\ ToSet(queue') = Waiters'
  BY <1>1, <1>2, JoinQueue, TypeBySets DEF PoolInv, Wait
<1> QED
  BY <1>2, <1>3, TypeBySets, TypeBySetsNext DEF PoolInv, Wait

\* The first in the queue leaves it, with a connection or without.
LEMMA HeadLeaves ==
  ASSUME PoolInv, NEW u \in Users, queue # <<>>, Head(queue) = u, queue' = Tail(queue),
         NEW step \in Doing \ Waiting, Goto(u, step)
  PROVE  /\ u \notin Holders
         /\ pc' \in [Users -> Doing]
         /\ queue' \in Seq(Users) /\ IsInjective(queue') /\ ToSet(queue') = Waiters'
         /\ Holders' = IF step \in Holding THEN Holders \cup {u} ELSE Holders
<1>1. /\ u \in Waiters /\ queue' \in Seq(Users) /\ IsInjective(queue')
      /\ ToSet(queue') = Waiters \ {u}
  BY ServeQueue, TypeBySets DEF PoolInv
<1>2. u \notin Holders
  BY <1>1, Apart
<1>3. /\ pc' \in [Users -> Doing] /\ Waiters' = Waiters \ {u}
      /\ Holders' = IF step \in Holding THEN Holders \cup {u} ELSE Holders \ {u}
  BY GotoSets, TypeBySets DEF PoolInv
<1> QED
  BY <1>1, <1>2, <1>3

\* A connection is given out.
LEMMA AcquireKeeps ==
  ASSUME PoolInv, NEW u \in Users, Acquire(u)
  PROVE  PoolInv'
<1>1. Use(u) \in Doing \ Waiting /\ Use(u) \in Holding
  BY DEF Use, Doing, Holding, Waiting
<1>2. /\ u \notin Holders /\ pc' \in [Users -> Doing]
      /\ queue' \in Seq(Users) /\ IsInjective(queue') /\ ToSet(queue') = Waiters'
      /\ Holders' = Holders \cup {u}
  BY <1>1, HeadLeaves DEF Acquire
<1>3. IsFiniteSet(Holders') /\ Cardinality(Holders') = Cardinality(Holders) + 1
  BY <1>2, FS_AddElement DEF PoolInv
<1>4. inUse' \in 0 .. MaxConns /\ inUse' = Cardinality(Holders')
  BY <1>3, PoolAssumption, TypeBySets DEF PoolInv, Acquire
<1> QED
  BY <1>2, <1>3, <1>4, TypeBySetsNext DEF PoolInv

\* A connection could not be made.
LEMMA AcquireFailsKeeps ==
  ASSUME PoolInv, NEW u \in Users, AcquireFails(u)
  PROVE  PoolInv'
<1> DEFINE step == IF u = Publisher /\ pc[u] = "waiting" THEN "counts" ELSE "idle"
<1>1. step \in Doing \ Waiting /\ step \notin Holding
  BY DEF Doing, Holding, Waiting
<1>2. queue # <<>> /\ Head(queue) = u /\ queue' = Tail(queue) /\ Goto(u, step)
      /\ UNCHANGED inUse
  BY DEF AcquireFails
<1> HIDE DEF step
<1>3. /\ pc' \in [Users -> Doing] /\ Holders' = Holders
      /\ queue' \in Seq(Users) /\ IsInjective(queue') /\ ToSet(queue') = Waiters'
  BY <1>1, <1>2, HeadLeaves
<1> QED
  BY <1>2, <1>3, TypeBySets, TypeBySetsNext DEF PoolInv

\* A connection is given back, well or badly.
LEMMA ReleaseKeeps ==
  ASSUME PoolInv, NEW u \in Users, pc[u] \in Holding, NEW step \in {"idle", "counts"},
         NEW failed, Release(u, step, failed)
  PROVE  PoolInv'
<1>1. step \in Doing /\ step \notin Holding \cup Waiting /\ u \in Holders /\ u \notin Waiters
  BY DEF Doing, Holders, Waiters, Holding, Waiting
<1>2. pc' \in [Users -> Doing] /\ Holders' = Holders \ {u} /\ Waiters' = Waiters
  <2>1. pc \in [Users -> Doing] /\ Goto(u, step)
    BY <1>1, TypeBySets DEF PoolInv, Release
  <2>2. /\ pc' \in [Users -> Doing]
        /\ Holders' = IF step \in Holding THEN Holders \cup {u} ELSE Holders \ {u}
        /\ Waiters' = IF step \in Waiting THEN Waiters \cup {u} ELSE Waiters \ {u}
    BY <1>1, <2>1, GotoSets
  <2> QED
    BY <1>1, <2>2
<1>3. /\ IsFiniteSet(Holders') /\ Cardinality(Holders') = Cardinality(Holders) - 1
      /\ Cardinality(Holders') \in Nat
  BY <1>1, <1>2, FS_RemoveElement, FS_CardinalityType DEF PoolInv
<1>4. inUse' \in 0 .. MaxConns /\ inUse' = Cardinality(Holders')
  BY <1>3, PoolAssumption, TypeBySets DEF PoolInv, Release
<1>5. queue' = queue
  BY DEF Release
<1> QED
  BY <1>2, <1>3, <1>4, <1>5, TypeBySets, TypeBySetsNext DEF PoolInv

\* A step that neither takes nor gives back a connection.
LEMMA GotoKeeps ==
  ASSUME PoolInv, NEW u \in Users, NEW step \in Doing, Goto(u, step),
         UNCHANGED <<queue, inUse>>,
         pc[u] \notin Waiting, step \notin Waiting,
         pc[u] \in Holding <=> step \in Holding
  PROVE  PoolInv'
<1>1. /\ pc' \in [Users -> Doing]
      /\ Holders' = IF step \in Holding THEN Holders \cup {u} ELSE Holders \ {u}
      /\ Waiters' = Waiters \ {u}
  BY GotoSets, TypeBySets DEF PoolInv
<1>2. u \in Holders <=> step \in Holding
  BY DEF Holders
<1>3. u \notin Waiters
  BY DEF Waiters
<1>4. Holders' = Holders /\ Waiters' = Waiters
  BY <1>1, <1>2, <1>3
<1> QED
  BY <1>1, <1>4, TypeBySets, TypeBySetsNext DEF PoolInv

\* The probe gives up.
LEMMA TimesOutKeeps ==
  ASSUME PoolInv, TimesOut
  PROVE  PoolInv'
<1>1. PICK i \in 1 .. Len(queue) : queue[i] = Probe /\ queue' = RemoveAt(queue, i)
  BY DEF TimesOut
<1>2. /\ queue' \in Seq(Users) /\ IsInjective(queue')
      /\ ToSet(queue') = Waiters \ {Probe}
  BY <1>1, LeaveQueue, TypeBySets DEF PoolInv
<1>3. /\ Probe \in Users /\ Probe \notin Holders
      /\ "idle" \in Doing /\ "idle" \notin Holding \cup Waiting
  BY DEF TimesOut, Users, Holders, Doing, Holding, Waiting
<1>4. pc' \in [Users -> Doing] /\ Holders' = Holders /\ Waiters' = Waiters \ {Probe}
  <2>1. pc \in [Users -> Doing] /\ Goto(Probe, "idle")
    BY <1>3, TypeBySets DEF PoolInv, TimesOut
  <2>2. /\ pc' \in [Users -> Doing]
        /\ Holders' = IF "idle" \in Holding THEN Holders \cup {Probe} ELSE Holders \ {Probe}
        /\ Waiters' = IF "idle" \in Waiting THEN Waiters \cup {Probe} ELSE Waiters \ {Probe}
    BY <1>3, <2>1, GotoSets
  <2> QED
    BY <1>3, <2>2
<1>5. UNCHANGED inUse
  BY DEF TimesOut
<1> QED
  BY <1>2, <1>4, <1>5, TypeBySets, TypeBySetsNext DEF PoolInv

-----------------------------------------------------------------------------
(* Every step keeps it *)

\* Nobody has a connection to begin with.
LEMMA InvInit == Init => IInv
<1> SUFFICES ASSUME Init PROVE IInv
  OBVIOUS
<1>1. pc \in [Users -> Doing] /\ \A u \in Users : pc[u] = "idle"
  BY DEF Init, Doing
<1>2. Holders = {} /\ Waiters = {}
  BY <1>1 DEF Holders, Waiters, Holding, Waiting
<1>3. IsFiniteSet(Holders) /\ Cardinality(Holders) = 0
  BY <1>2, FS_EmptySet
<1>4. queue \in Seq(Users) /\ IsInjective(queue) /\ ToSet(queue) = Waiters
  <2>1. queue = <<>> /\ <<>> \in Seq(Users) /\ DOMAIN <<>> = {}
    BY DEF Init
  <2>2. IsInjective(queue)
    BY <2>1 DEF IsInjective
  <2>3. ToSet(queue) = {}
    BY <2>1 DEF ToSet
  <2> QED
    BY <1>2, <2>1, <2>2, <2>3
<1>5. Accounted
  BY <1>1, <1>3, <1>4, PoolAssumption, TypeBySets DEF Init
<1>6. RoleInv
  BY <1>1 DEF RoleInv, Users
<1> QED
  BY <1>3, <1>5, <1>6 DEF IInv, PoolInv

\* The connections given out stay those somebody holds.
LEMMA PoolNext == IInv /\ [Next]_vars => PoolInv'
<1> SUFFICES ASSUME IInv, [Next]_vars PROVE PoolInv'
  OBVIOUS
<1>1. PoolInv /\ RoleInv
  BY DEF IInv
<1>2. /\ Publisher \in Users /\ Probe \in Users
      /\ \A h \in Handlers : h \in Users
  BY DEF Users
<1>3. /\ Waiting \subseteq Doing /\ Holding \subseteq Doing
      /\ {"idle", "checking", "counts"} \subseteq Doing
      /\ "waiting" \in Waiting /\ "waitingToCount" \in Waiting
      /\ {"using", "written", "sending", "marking", "counting"} = Holding
      /\ {"idle", "checking", "counts"} \cap (Holding \cup Waiting) = {}
      /\ Holding \cap Waiting = {}
  BY DEF Doing, Holding, Waiting
<1>4. ASSUME NEW u \in Users, Acquire(u) \/ AcquireFails(u) PROVE PoolInv'
  BY <1>1, <1>4, AcquireKeeps, AcquireFailsKeeps
<1>5. ASSUME NEW h \in Handlers, Begin(h) \/ Checked(h) PROVE PoolInv'
  <2>1. pc[h] \in {"idle", "checking"}
    BY <1>5 DEF Begin, Checked
  <2>2. CASE Wait(h, "waiting")
    BY <1>1, <1>2, <1>3, <2>1, <2>2, WaitKeeps
  <2>3. ASSUME NEW step \in {"idle", "checking"}, Goto(h, step), UNCHANGED <<queue, inUse>>
        PROVE  PoolInv'
    BY <1>1, <1>2, <1>3, <2>1, <2>3, GotoKeeps
  <2> QED
    BY <1>5, <2>2, <2>3 DEF Begin, Checked
<1>6. ASSUME NEW h \in Handlers, Write(h) PROVE PoolInv'
  BY <1>1, <1>2, <1>3, <1>6, GotoKeeps DEF Write
<1>7. ASSUME NEW h \in Handlers, End(h) PROVE PoolInv'
  BY <1>1, <1>2, <1>3, <1>7, ReleaseKeeps DEF End
<1>8. CASE Batch \/ CountPending
  BY <1>1, <1>2, <1>3, <1>8, WaitKeeps DEF Batch, CountPending
<1>9. CASE SendNext \/ Sent
  BY <1>1, <1>2, <1>3, <1>9, GotoKeeps DEF SendNext, Sent
<1>10. CASE EndBatch \/ Counted
  BY <1>1, <1>2, <1>3, <1>10, ReleaseKeeps DEF EndBatch, Counted
<1>11. CASE Ready
  BY <1>1, <1>2, <1>3, <1>11, WaitKeeps DEF Ready
<1>12. CASE Pinged
  BY <1>1, <1>2, <1>3, <1>12, ReleaseKeeps DEF Pinged
<1>13. CASE TimesOut
  BY <1>1, <1>13, TimesOutKeeps
<1>14. CASE UNCHANGED vars
  BY <1>1, <1>14 DEF vars, PoolInv, Accounted, TypeOK, NoConnectionLost, Holders, Holding,
    Waiting
<1> QED
  BY <1>2, <1>4, <1>5, <1>6, <1>7, <1>8, <1>9, <1>10, <1>11, <1>12, <1>13, <1>14
     DEF Next, Handle, Publish, CheckReadiness

\* Each user goes through the steps of its own code.
LEMMA RoleNext == IInv /\ [Next]_vars => RoleInv'
<1> SUFFICES ASSUME IInv, [Next]_vars PROVE RoleInv'
  OBVIOUS
<1>1. RoleInv /\ pc \in [Users -> Doing]
  BY TypeBySets DEF IInv, PoolInv
<1>2. ASSUME NEW u \in Users, NEW step, Goto(u, step),
             u \in Handlers => step \in {"idle", "checking", "waiting", "using", "written"},
             u = Publisher => step \in {"idle", "waiting", "using", "sending", "marking",
                                        "counts", "waitingToCount", "counting"},
             u = Probe => step \in {"idle", "waiting", "using"}
      PROVE  RoleInv'
  <2>1. \A v \in Users : pc'[v] = IF v = u THEN step ELSE pc[v]
    BY <1>1, <1>2 DEF Goto
  <2> QED
    BY <1>1, <1>2, <2>1 DEF RoleInv, Users
<1>3. /\ Publisher \in Users /\ Probe \in Users /\ Publisher # Probe
      /\ \A h \in Handlers : h \in Users /\ h # Publisher /\ h # Probe
  BY UsersAssumption DEF Users
<1>4. ASSUME NEW u \in Users, Acquire(u) PROVE RoleInv'
  <2>1. u # Publisher => Use(u) = "using"
    BY <1>1, <1>4 DEF RoleInv, Use, Users
  <2>2. Use(u) \in {"using", "counting"} /\ Goto(u, Use(u))
    BY <1>4 DEF Use, Acquire
  <2> QED
    BY <1>2, <1>3, <2>1, <2>2
<1>5. ASSUME NEW u \in Users, AcquireFails(u) PROVE RoleInv'
  <2>1. PICK step \in {"idle", "counts"} : Goto(u, step) /\ (u # Publisher => step = "idle")
    BY <1>5 DEF AcquireFails
  <2> QED
    BY <1>2, <1>3, <2>1
<1>6. ASSUME NEW h \in Handlers, Begin(h) \/ Checked(h) \/ Write(h) \/ End(h) PROVE RoleInv'
  <2>1. PICK step \in {"idle", "checking", "waiting", "using", "written"} : Goto(h, step)
    BY <1>6 DEF Begin, Checked, Write, End, Wait, Release
  <2> QED
    BY <1>2, <1>3, <2>1
<1>7. CASE Batch \/ CountPending \/ SendNext \/ Sent \/ EndBatch \/ Counted
  <2>1. PICK step \in {"idle", "waiting", "using", "sending", "marking", "counts",
                       "waitingToCount", "counting"} : Goto(Publisher, step)
    BY <1>7 DEF Batch, CountPending, SendNext, Sent, EndBatch, Counted, Wait, Release
  <2> QED
    BY <1>2, <1>3, <2>1
<1>8. CASE Ready \/ Pinged \/ TimesOut
  <2>1. PICK step \in {"idle", "waiting", "using"} : Goto(Probe, step)
    BY <1>8 DEF Ready, Pinged, TimesOut, Wait, Release
  <2> QED
    BY <1>2, <1>3, <2>1
<1>9. CASE UNCHANGED vars
  BY <1>1, <1>9 DEF vars, RoleInv
<1> QED
  BY <1>3, <1>4, <1>5, <1>6, <1>7, <1>8, <1>9 DEF Next, Handle, Publish, CheckReadiness

\* IInv is an invariant of the pool.
THEOREM Invariance == Spec => []IInv
<1>1. IInv /\ [Next]_vars => IInv'
  BY PoolNext, RoleNext DEF IInv
<1> QED
  BY <1>1, InvInit, PTL DEF Spec

\* The connections given out stay within the size of the pool.
THEOREM TypeCorrect == Spec => []TypeOK
<1>1. IInv => TypeOK
  BY DEF IInv, PoolInv, Accounted
<1> QED
  BY <1>1, Invariance, PTL

\* No path through a handler, a batch or a probe loses a connection, whatever
\* fails: the connections given out are those somebody holds, and the queue is
\* made of those who wait, each of them once (transaction.go, the deferred
\* Rollback; outbox_publisher.go, BeginFunc).
THEOREM NoConnectionIsLost == Spec => []NoConnectionLost
<1>1. IInv => NoConnectionLost
  BY DEF IInv, PoolInv, Accounted
<1> QED
  BY <1>1, Invariance, PTL

\* Whoever waits for a connection finds one free, or one held by a handler or by
\* the probe, whose next steps give it back without Kafka: the publisher, which
\* keeps its own while Kafka is silent, never holds all there are.
WaitersDoNotNeedKafka ==
  queue # <<>> =>
    \/ inUse < MaxConns
    \/ \E u \in Handlers \cup {Probe} : pc[u] \in {"using", "written"}

\* The invariant behind RequestsDoNotNeedKafka, for any number of handlers.
THEOREM WaitersDoNotNeedKafkaHolds == Spec => []WaitersDoNotNeedKafka
<1>1. ASSUME IInv PROVE WaitersDoNotNeedKafka
  <2> SUFFICES ASSUME ~(inUse < MaxConns)
               PROVE  \E u \in Handlers \cup {Probe} : pc[u] \in {"using", "written"}
    BY DEF WaitersDoNotNeedKafka
  <2>1. TypeOK /\ NoConnectionLost /\ RoleInv /\ IsFiniteSet(Holders)
    BY <1>1 DEF IInv, PoolInv, Accounted
  <2>2. Cardinality(Holders) = MaxConns /\ Cardinality(Holders) \in Nat
    BY <2>1, PoolAssumption DEF TypeOK, NoConnectionLost
  <2>3. Holders \ {Publisher} # {}
    <3>1. /\ IsFiniteSet(Holders \ {Publisher})
          /\ Cardinality(Holders \ {Publisher}) \in {MaxConns - 1, MaxConns}
      BY <2>1, <2>2, FS_RemoveElement
    <3>2. Cardinality(Holders \ {Publisher}) # 0
      BY <3>1, PoolAssumption
    <3> QED
      BY <3>1, <3>2, FS_EmptySet
  <2>4. PICK u \in Holders : u # Publisher
    BY <2>3
  <2>5. u \in Handlers \cup {Probe} /\ pc[u] \in Holding
    BY <2>4 DEF Holders, Users
  <2>6. pc[u] \in {"using", "written"}
    BY <2>1, <2>5 DEF RoleInv, Holding
  <2> QED
    BY <2>5, <2>6
<1> QED
  BY <1>1, Invariance, PTL

=============================================================================
