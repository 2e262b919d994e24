--------------------------- MODULE AdmissionProofs ---------------------------
(***************************************************************************)
(* Proofs about the admission controller, for every set of principals and  *)
(* requests, every concurrency limit and every valid configuration.        *)
(***************************************************************************)
EXTENDS Admission, SequenceTheorems, FiniteSetTheorems, TLAPS

(* indexOf and splice on a list without duplicates: the entry goes, the    *)
(* others keep their order, and the list still has no duplicates.          *)
LEMMA RemoveFirstProperties ==
  ASSUME NEW S, NEW s \in Seq(S), IsInjective(s), NEW k \in 1..Len(s)
  PROVE  /\ RemoveFirst(s, s[k]) \in Seq(S)
         /\ Len(RemoveFirst(s, s[k])) = Len(s) - 1
         /\ \A j \in 1..(Len(s) - 1) :
              RemoveFirst(s, s[k])[j] = IF j < k THEN s[j] ELSE s[j + 1]
         /\ IsInjective(RemoveFirst(s, s[k]))
         /\ Range(RemoveFirst(s, s[k])) = Range(s) \ {s[k]}
<1> DEFINE e == s[k]
           t == SubSeq(s, 1, k - 1) \o SubSeq(s, k + 1, Len(s))
<1>1. {i \in 1..Len(s) : s[i] = e} = {k}
  BY DEF IsInjective
<1>2. SelectInSeq(s, LAMBDA v : v = e) = k
  BY <1>1 DEF SelectInSeq, Min
<1>3. RemoveFirst(s, e) = t
  BY <1>2 DEF RemoveFirst, RemoveAt
<1> DEFINE u == SubSeq(s, 1, k - 1)
           v == SubSeq(s, k + 1, Len(s))
<1>4. /\ u \in Seq(S) /\ Len(u) = k - 1
      /\ \A j \in 1..(k - 1) : u[j] = s[j]
  BY SubSeqProperties
<1>5. /\ v \in Seq(S) /\ Len(v) = Len(s) - k
      /\ \A j \in 1..(Len(s) - k) : v[j] = s[j + k]
  BY SubSeqProperties
<1>6. /\ t \in Seq(S)
      /\ Len(t) = Len(s) - 1
      /\ \A j \in 1..(Len(s) - 1) : t[j] = IF j < k THEN s[j] ELSE s[j + 1]
  <2> HIDE DEF u, v
  <2>1. /\ u \o v \in Seq(S)
        /\ Len(u \o v) = Len(u) + Len(v)
        /\ \A i \in 1..(Len(u) + Len(v)) :
             (u \o v)[i] = IF i <= Len(u) THEN u[i] ELSE v[i - Len(u)]
    BY <1>4, <1>5, ConcatProperties
  <2>2. Len(s) \in Nat /\ k \in 1..Len(s)
    BY LenProperties
  <2>3. Len(u \o v) = Len(s) - 1
    BY <1>4, <1>5, <2>1, <2>2
  <2>4. ASSUME NEW j \in 1..(Len(s) - 1)
        PROVE  (u \o v)[j] = IF j < k THEN s[j] ELSE s[j + 1]
    <3>1. CASE j < k
      BY <1>4, <1>5, <2>1, <2>2, <3>1
    <3>2. CASE ~(j < k)
      <4>1. (u \o v)[j] = v[j - (k - 1)]
        BY <1>4, <1>5, <2>1, <2>2, <3>2
      <4>2. j - (k - 1) \in 1..(Len(s) - k) /\ (j - (k - 1)) + k = j + 1
        BY <2>2, <3>2
      <4> QED
        BY <1>5, <3>2, <4>1, <4>2
    <3> QED
      BY <3>1, <3>2
  <2> QED
    BY <2>1, <2>3, <2>4 DEF u, v
<1>7. IsInjective(t)
  <2>1. DOMAIN t = 1..(Len(s) - 1)
    BY <1>6, LenProperties
  <2>2. \A i, j \in 1..Len(s) : s[i] = s[j] => i = j
    BY LenProperties DEF IsInjective
  <2> HIDE DEF t
  <2> SUFFICES ASSUME NEW a \in 1..(Len(s) - 1), NEW b \in 1..(Len(s) - 1),
                      t[a] = t[b]
               PROVE  a = b
    BY <2>1 DEF IsInjective
  <2> DEFINE Old(j) == IF j < k THEN j ELSE j + 1
  <2>3. t[a] = s[Old(a)] /\ t[b] = s[Old(b)]
    BY <1>6
  <2>4. Len(s) \in Nat /\ k \in Int
    BY LenProperties
  <2>5. Old(a) \in 1..Len(s) /\ Old(b) \in 1..Len(s)
    BY <2>4
  <2>6. Old(a) = Old(b)
    BY <2>2, <2>3, <2>5
  <2> QED
    BY <2>4, <2>6
<1>8. Range(t) = Range(s) \ {e}
  <2>1. /\ DOMAIN t = 1..(Len(s) - 1) /\ DOMAIN s = 1..Len(s)
        /\ Len(s) \in Nat /\ k \in Int
    <3>1. DOMAIN t = 1..(Len(s) - 1)
      BY <1>6, LenProperties
    <3>2. DOMAIN s = 1..Len(s) /\ Len(s) \in Nat /\ k \in Int
      BY LenProperties
    <3> QED
      BY <3>1, <3>2
  <2> HIDE DEF t
  <2>2. ASSUME NEW x \in Range(t)
        PROVE  x \in Range(s) \ {e}
    <3>1. PICK j \in 1..(Len(s) - 1) : t[j] = x
      BY <2>1 DEF Range
    <3> DEFINE i == IF j < k THEN j ELSE j + 1
    <3>2. i \in 1..Len(s) /\ i # k /\ s[i] = x
      BY <1>6, <2>1, <3>1
    <3> HIDE DEF i
    <3> QED
      BY <2>1, <3>2 DEF Range, IsInjective
  <2>3. ASSUME NEW x \in Range(s) \ {e}
        PROVE  x \in Range(t)
    <3>1. PICK i \in 1..Len(s) : s[i] = x /\ i # k
      BY <2>1 DEF Range
    <3> DEFINE j == IF i < k THEN i ELSE i - 1
    <3>2. j \in 1..(Len(s) - 1) /\ t[j] = x
      BY <1>6, <2>1, <3>1
    <3> HIDE DEF j
    <3> QED
      BY <2>1, <3>2 DEF Range
  <2> QED
    BY <2>2, <2>3
<1> QED
  BY <1>3, <1>6, <1>7, <1>8

(* push of a new element on a list without duplicates. *)
LEMMA AppendNewProperties ==
  ASSUME NEW S, NEW s \in Seq(S), IsInjective(s), NEW e \in S, e \notin Range(s)
  PROVE  /\ IsInjective(Append(s, e))
         /\ Range(Append(s, e)) = Range(s) \union {e}
<1> DEFINE t == Append(s, e)
<1>1. /\ Len(s) \in Nat /\ DOMAIN s = 1..Len(s) /\ DOMAIN t = 1..(Len(s) + 1)
      /\ \A i \in 1..Len(s) : t[i] = s[i]
      /\ t[Len(s) + 1] = e
  BY LenProperties, AppendProperties
<1> HIDE DEF t
<1>2. \A i \in 1..Len(s) : t[i] # e
  BY <1>1 DEF Range
<1>3. IsInjective(t)
  BY <1>1, <1>2 DEF IsInjective
<1>4. Range(t) = Range(s) \union {e}
  BY <1>1 DEF Range
<1> QED
  BY <1>3, <1>4 DEF t

(* A list is empty when nothing is in it. *)
LEMMA EmptyRange ==
  ASSUME NEW S, NEW s \in Seq(S)
  PROVE  /\ s = <<>> <=> Range(s) = {}
         /\ s = <<>> <=> Len(s) = 0
BY EmptySeq, LenProperties DEF Range

-----------------------------------------------------------------------------
(* The inductive invariant.  None of its parts is inductive alone: the     *)
(* counters stay natural only because they count sets, a waiter that       *)
(* settles is found because the queues are exact, and a freed slot is not  *)
(* wasted because the rotation knows every principal that waits.           *)
IInv ==
  /\ TypeOK
  /\ CountersExact
  /\ QueuesExact
  /\ RotationExact
  /\ WorkConserving

(* What each state that satisfies IInv says of one waiter. *)
LEMMA WaiterPlace ==
  ASSUME IInv, NEW r \in Waiting
  PROVE  /\ Owner[r] \in Principals
         /\ waiters[Owner[r]] # <<>>
         /\ \E k \in 1..Len(waiters[Owner[r]]) : waiters[Owner[r]][k] = r
         /\ \E k \in 1..Len(order) : order[k] = Owner[r]
<1>1. Owner[r] \in Principals
  BY OwnerAssumption DEF Waiting
<1>2. r \in Range(waiters[Owner[r]])
  BY <1>1 DEF IInv, QueuesExact
<1>3. waiters[Owner[r]] \in Seq(Requests) /\ order \in Seq(Principals)
  BY <1>1 DEF IInv, TypeOK
<1>4. waiters[Owner[r]] # <<>>
  BY <1>2, <1>3, EmptyRange
<1>5. Owner[r] \in Range(order)
  BY <1>1, <1>4 DEF IInv, RotationExact
<1> QED
  BY <1>1, <1>2, <1>3, <1>4, <1>5, LenProperties DEF Range

LEMMA InitIInv == Init => IInv
<1> SUFFICES ASSUME Init PROVE IInv
  OBVIOUS
<1>1. Running = {} /\ Waiting = {}
  BY DEF Init, Running, Waiting
<1>2. TypeOK
  BY LimitAssumption, ConfigAssumption
  DEF Init, TypeOK, Statuses, ValidConfig
<1>3. CountersExact
  BY <1>1, FS_EmptySet DEF Init, CountersExact
<1>4. QueuesExact
  BY <1>1 DEF Init, QueuesExact, IsInjective, Range
<1>5. RotationExact
  BY DEF Init, RotationExact, IsInjective, Range
<1> QED
  BY <1>1, <1>2, <1>3, <1>4, <1>5 DEF IInv, WorkConserving

(* A request that is told something final, without waiting or running. *)
LEMMA SettleOutside ==
  ASSUME IInv, NEW r \in Requests, Fresh(r),
         NEW outcome \in {"cancelled", "rejected"},
         status' = [status EXCEPT ![r] = outcome],
         UNCHANGED <<active, queued, waiters, order>>
  PROVE  IInv'
<1>1. Running' = Running /\ Waiting' = Waiting
  BY DEF IInv, TypeOK, Fresh, Running, Waiting
<1>2. TypeOK'
  BY DEF IInv, TypeOK, Statuses
<1> QED
  BY <1>1, <1>2
  DEF IInv, CountersExact, QueuesExact, RotationExact, WorkConserving

LEMMA AdmittedIInv ==
  ASSUME IInv, NEW r \in Requests, AcquireAdmitted(r)
  PROVE  IInv'
<1>1. Running' = Running \union {r} /\ r \notin Running /\ Waiting' = Waiting
  BY DEF IInv, TypeOK, AcquireAdmitted, Fresh, Running, Waiting
<1>2. TypeOK'
  BY LimitAssumption DEF IInv, TypeOK, AcquireAdmitted, Statuses
<1>3. CountersExact'
  BY <1>1, FS_AddElement DEF IInv, CountersExact, AcquireAdmitted
<1>4. QueuesExact' /\ RotationExact'
  BY <1>1 DEF IInv, QueuesExact, RotationExact, AcquireAdmitted
<1>5. Waiting = {}
  BY LimitAssumption DEF IInv, TypeOK, WorkConserving, AcquireAdmitted
<1> QED
  BY <1>1, <1>2, <1>3, <1>4, <1>5 DEF IInv, WorkConserving

LEMMA QueuedIInv ==
  ASSUME IInv, NEW r \in Requests, AcquireQueued(r)
  PROVE  IInv'
<1> DEFINE p == Owner[r]
<1> USE DEF AcquireQueued
<1>1. p \in Principals
  BY OwnerAssumption
<1>2. waiters[p] \in Seq(Requests) /\ order \in Seq(Principals)
  BY <1>1 DEF IInv, TypeOK
<1>3. /\ Running' = Running
      /\ Waiting' = Waiting \union {r} /\ r \notin Waiting
  BY DEF IInv, TypeOK, Fresh, Running, Waiting
<1>4. /\ waiters'[p] = Append(waiters[p], r)
      /\ \A q \in Principals \ {p} : waiters'[q] = waiters[q]
  BY <1>1 DEF IInv, TypeOK
<1>5. /\ waiters'[p] \in Seq(Requests)
      /\ Len(waiters'[p]) = Len(waiters[p]) + 1
      /\ waiters'[p] # <<>>
      /\ Len(waiters[p]) \in Nat
  BY <1>2, <1>4, AppendProperties, LenProperties
<1>6. TypeOK'
  <2>1. active' \in 0..ConcurrencyLimit /\ status' \in [Requests -> Statuses]
    BY DEF IInv, TypeOK, Statuses
  <2>2. queued' \in 0..MaxQueued
    BY ConfigAssumption DEF IInv, TypeOK, QueueFull, ValidConfig
  <2>3. waiters' \in [Principals -> Seq(Requests)]
    BY <1>2, AppendProperties DEF IInv, TypeOK
  <2>4. Len(waiters'[p]) <= MaxQueuedPerPrincipal
    BY <1>5, ConfigAssumption DEF QueueFull, ValidConfig
  <2>5. \A q \in Principals : Len(waiters'[q]) <= MaxQueuedPerPrincipal
    BY <1>4, <2>4 DEF IInv, TypeOK
  <2>6. order' \in Seq(Principals)
    BY <1>1, <1>2, AppendProperties
  <2> QED
    BY <2>1, <2>2, <2>3, <2>5, <2>6 DEF TypeOK
<1>7. CountersExact'
  BY <1>3, FS_AddElement DEF IInv, CountersExact
<1>8. r \notin Range(waiters[p])
  BY <1>1, <1>3 DEF IInv, QueuesExact
<1>9. QueuesExact'
  <2>1. IsInjective(waiters'[p]) /\ Range(waiters'[p]) = Range(waiters[p]) \union {r}
    BY <1>1, <1>2, <1>4, <1>8, AppendNewProperties DEF IInv, QueuesExact
  <2>2. ASSUME NEW q \in Principals
        PROVE  IsInjective(waiters'[q]) /\ Range(waiters'[q]) = {x \in Waiting' : Owner[x] = q}
    BY <1>1, <1>3, <1>4, <2>1 DEF IInv, QueuesExact
  <2> QED
    BY <2>2 DEF QueuesExact
<1>10. RotationExact'
  <2>1. {q \in Principals : waiters'[q] # <<>>}
           = {q \in Principals : waiters[q] # <<>>} \union {p}
    BY <1>1, <1>4, <1>5
  <2>2. CASE waiters[p] = <<>>
    <3>1. p \notin Range(order)
      BY <2>2 DEF IInv, RotationExact
    <3> QED
      BY <1>1, <1>2, <2>1, <2>2, <3>1, AppendNewProperties DEF IInv, RotationExact
  <2>3. CASE waiters[p] # <<>>
    BY <1>1, <2>1, <2>3 DEF IInv, RotationExact
  <2> QED
    BY <2>2, <2>3
<1>11. WorkConserving'
  BY LimitAssumption DEF IInv, TypeOK, WorkConserving
<1> QED
  BY <1>6, <1>7, <1>9, <1>10, <1>11 DEF IInv

(* removeWaiter() of one waiter, as the queues see it. *)
LEMMA WaiterRemoved ==
  ASSUME IInv, NEW r \in Waiting,
         waiters' = [waiters EXCEPT ![Owner[r]] = RemoveFirst(@, r)],
         Waiting' = Waiting \ {r}
  PROVE  /\ waiters' \in [Principals -> Seq(Requests)]
         /\ \A q \in Principals : Len(waiters'[q]) <= MaxQueuedPerPrincipal
         /\ QueuesExact'
<1> DEFINE p == Owner[r]
<1>1. /\ p \in Principals
      /\ waiters[p] \in Seq(Requests)
      /\ IsInjective(waiters[p])
      /\ Len(waiters[p]) \in Nat
  BY WaiterPlace, LenProperties DEF IInv, TypeOK, QueuesExact
<1>2. PICK k \in 1..Len(waiters[p]) : waiters[p][k] = r
  BY WaiterPlace
<1>3. /\ RemoveFirst(waiters[p], r) \in Seq(Requests)
      /\ Len(RemoveFirst(waiters[p], r)) = Len(waiters[p]) - 1
      /\ IsInjective(RemoveFirst(waiters[p], r))
      /\ Range(RemoveFirst(waiters[p], r)) = Range(waiters[p]) \ {r}
  <2> DEFINE s == waiters[p]
  <2>1. s \in Seq(Requests) /\ IsInjective(s) /\ k \in 1..Len(s) /\ s[k] = r
    BY <1>1, <1>2
  <2> HIDE DEF s
  <2>2. /\ RemoveFirst(s, s[k]) \in Seq(Requests)
        /\ Len(RemoveFirst(s, s[k])) = Len(s) - 1
        /\ IsInjective(RemoveFirst(s, s[k]))
        /\ Range(RemoveFirst(s, s[k])) = Range(s) \ {s[k]}
    BY <2>1, RemoveFirstProperties
  <2> QED
    BY <2>1, <2>2 DEF s
<1>4. /\ waiters'[p] = RemoveFirst(waiters[p], r)
      /\ \A q \in Principals \ {p} : waiters'[q] = waiters[q]
  BY <1>1 DEF IInv, TypeOK
<1>5. waiters' \in [Principals -> Seq(Requests)]
  BY <1>1, <1>3 DEF IInv, TypeOK
<1>6. ASSUME NEW q \in Principals
      PROVE  Len(waiters'[q]) <= MaxQueuedPerPrincipal
  <2>1. CASE q = p
    <3>1. Len(waiters[p]) <= MaxQueuedPerPrincipal
      BY <1>1 DEF IInv, TypeOK
    <3> QED
      BY <1>1, <1>3, <1>4, <2>1, <3>1, ConfigAssumption DEF ValidConfig
  <2>2. CASE q # p
    BY <1>4, <2>2 DEF IInv, TypeOK
  <2> QED
    BY <2>1, <2>2
<1>7. ASSUME NEW q \in Principals
      PROVE  /\ IsInjective(waiters'[q])
             /\ Range(waiters'[q]) = {x \in Waiting' : Owner[x] = q}
  BY <1>1, <1>3, <1>4 DEF IInv, QueuesExact
<1> QED
  BY <1>5, <1>6, <1>7 DEF QueuesExact

LEMMA WithdrawIInv ==
  ASSUME IInv, NEW r \in Requests, NEW outcome \in {"timed_out", "cancelled"},
         Withdraw(r, outcome)
  PROVE  IInv'
<1> DEFINE p == Owner[r]
           remaining == RemoveFirst(waiters[p], r)
<1>1. /\ r \in Waiting
      /\ waiters' = [waiters EXCEPT ![p] = RemoveFirst(@, r)]
      /\ order' = OrderWithoutIdle(order, p, remaining)
      /\ queued' = queued - 1
      /\ active' = active
  BY DEF Withdraw, Waiting
<1>2. Running' = Running /\ Waiting' = Waiting \ {r}
  BY DEF IInv, TypeOK, Withdraw, Running, Waiting
<1>3. /\ waiters' \in [Principals -> Seq(Requests)]
      /\ \A q \in Principals : Len(waiters'[q]) <= MaxQueuedPerPrincipal
      /\ QueuesExact'
  BY <1>1, <1>2, WaiterRemoved
<1>4. /\ p \in Principals /\ waiters[p] # <<>>
      /\ order \in Seq(Principals) /\ IsInjective(order)
      /\ Range(order) = {q \in Principals : waiters[q] # <<>>}
  BY <1>1, WaiterPlace DEF IInv, TypeOK, RotationExact
<1>5. /\ waiters'[p] = remaining
      /\ \A q \in Principals \ {p} : waiters'[q] = waiters[q]
  BY <1>1, <1>4 DEF IInv, TypeOK
<1>6. PICK k \in 1..Len(order) : order[k] = p
  BY <1>1, WaiterPlace
<1>7. /\ order' \in Seq(Principals)
      /\ IsInjective(order')
      /\ Range(order') = {q \in Principals : waiters'[q] # <<>>}
  <2>1. CASE remaining = <<>>
    <3>1. order' = RemoveFirst(order, p)
      BY <1>1, <2>1 DEF OrderWithoutIdle
    <3>2. /\ order' \in Seq(Principals)
          /\ IsInjective(order')
          /\ Range(order') = Range(order) \ {p}
      BY <1>4, <1>6, <3>1, RemoveFirstProperties
    <3> QED
      BY <1>4, <1>5, <2>1, <3>2
  <2>2. CASE remaining # <<>>
    BY <1>1, <1>4, <1>5, <2>2 DEF OrderWithoutIdle
  <2> QED
    BY <2>1, <2>2
<1>8. CountersExact'
  BY <1>1, <1>2, FS_RemoveElement DEF IInv, CountersExact
<1>9. queued' \in 0..MaxQueued
  <2>1. Cardinality(Waiting') \in Nat
    BY <1>8, FS_CardinalityType DEF CountersExact
  <2> QED
    BY <1>1, <1>8, <2>1, ConfigAssumption DEF IInv, TypeOK, CountersExact, ValidConfig
<1>10. TypeOK'
  BY <1>1, <1>3, <1>7, <1>9 DEF IInv, TypeOK, Withdraw, Statuses
<1>11. WorkConserving'
  BY <1>1, <1>2 DEF IInv, WorkConserving
<1> QED
  BY <1>3, <1>7, <1>8, <1>10, <1>11 DEF IInv, RotationExact

(* When a holder releases, the counter is positive, so dispatchNext is     *)
(* stopped by nothing but an empty rotation.                               *)
LEMMA ReleaseDispatches ==
  ASSUME IInv, NEW r \in Running
  PROVE  /\ active \in 1..ConcurrencyLimit
         /\ CanDispatch <=> order # <<>>
         /\ \A k \in DOMAIN order : NextTurn(k) <=> k = 1
<1>1. order \in Seq(Principals)
  BY DEF IInv, TypeOK
<1>2. DOMAIN order = 1..Len(order) /\ Len(order) \in Nat
  BY <1>1, LenProperties
<1>3. \A k \in DOMAIN order : waiters[order[k]] # <<>>
  BY DEF IInv, RotationExact, Range
<1>4. \A k \in DOMAIN order : NextTurn(k) <=> k = 1
  BY <1>2, <1>3 DEF NextTurn
<1>5. active \in 1..ConcurrencyLimit
  <2>1. Cardinality(Running) \in Nat /\ Cardinality(Running) # 0
    BY FS_EmptySet, FS_CardinalityType DEF IInv, CountersExact
  <2> QED
    BY <2>1, LimitAssumption DEF IInv, TypeOK, CountersExact
<1>6. CanDispatch <=> order # <<>>
  <2>1. active - 1 < ConcurrencyLimit
    BY <1>5, LimitAssumption
  <2>2. (\E k \in DOMAIN order : NextTurn(k)) <=> order # <<>>
    <3>1. order # <<>> <=> 1 \in DOMAIN order
      BY <1>1, <1>2, EmptyRange
    <3> QED
      BY <1>4, <3>1
  <2> QED
    BY <2>1, <2>2 DEF CanDispatch
<1> QED
  BY <1>4, <1>5, <1>6

LEMMA ReleaseIdleIInv ==
  ASSUME IInv, NEW r \in Requests, ReleaseIdle(r)
  PROVE  IInv'
<1>1. r \in Running /\ ~CanDispatch /\ active' = active - 1
  BY DEF ReleaseIdle, Running
<1>2. order = <<>> /\ active \in 1..ConcurrencyLimit
  BY <1>1, ReleaseDispatches
<1>3. order' = order /\ waiters' = waiters /\ queued' = queued
  BY <1>2 DEF ReleaseIdle
<1>4. Running' = Running \ {r} /\ Waiting' = Waiting
  BY DEF IInv, TypeOK, ReleaseIdle, Running, Waiting
<1>5. Waiting = {}
  BY <1>2, WaiterPlace, EmptySeq
<1>6. TypeOK'
  BY <1>1, <1>2, <1>3, LimitAssumption DEF IInv, TypeOK, ReleaseIdle, Statuses
<1>7. CountersExact'
  BY <1>1, <1>3, <1>4, FS_RemoveElement DEF IInv, CountersExact
<1>8. QueuesExact' /\ RotationExact'
  BY <1>3, <1>4 DEF IInv, QueuesExact, RotationExact
<1> QED
  BY <1>4, <1>5, <1>6, <1>7, <1>8 DEF IInv, WorkConserving

(* A release that dispatches tells exactly one waiter. *)
LEMMA ReleaseServesWaiter ==
  ASSUME IInv, NEW r \in Requests, ReleaseToNext(r)
  PROVE  \E w \in Waiting :
           /\ w = FirstWaiter(order[1])
           /\ Owner[w] = order[1]
           /\ status' = [status EXCEPT ![r] = "released", ![w] = "admitted"]
<1> DEFINE p == order[1]
           w == FirstWaiter(p)
<1>1. r \in Running /\ CanDispatch
  BY DEF ReleaseToNext, Running
<1>2. order # <<>> /\ order \in Seq(Principals) /\ 1 \in DOMAIN order
  <2>1. order # <<>> /\ order \in Seq(Principals)
    BY <1>1, ReleaseDispatches DEF IInv, TypeOK
  <2> QED
    BY <2>1, EmptySeq, LenProperties
<1>3. status' = [status EXCEPT ![r] = "released", ![w] = "admitted"]
  BY <1>1, <1>2, ReleaseDispatches DEF ReleaseToNext
<1>4. /\ p \in Principals
      /\ waiters[p] # <<>> /\ waiters[p] \in Seq(Requests)
  BY <1>2 DEF IInv, TypeOK, RotationExact, Range
<1>5. 1 \in DOMAIN waiters[p] /\ w = waiters[p][1]
  BY <1>4, EmptySeq, LenProperties DEF FirstWaiter
<1>6. w \in Waiting /\ Owner[w] = p
  BY <1>4, <1>5 DEF IInv, QueuesExact, Range
<1> QED
  BY <1>3, <1>6

LEMMA ReleaseToNextIInv ==
  ASSUME IInv, NEW r \in Requests, ReleaseToNext(r)
  PROVE  IInv'
<1> DEFINE p == order[1]
           w == FirstWaiter(p)
           remaining == RemoveFirst(waiters[p], w)
           rest == SubSeq(order, 2, Len(order))
<1>1. r \in Running /\ CanDispatch
  BY DEF ReleaseToNext, Running
<1>2. /\ order # <<>> /\ order \in Seq(Principals)
      /\ DOMAIN order = 1..Len(order) /\ Len(order) \in Nat
      /\ 1 \in DOMAIN order
  <2>1. order # <<>> /\ order \in Seq(Principals)
    BY <1>1, ReleaseDispatches DEF IInv, TypeOK
  <2> QED
    BY <2>1, EmptySeq, LenProperties
<1>3. /\ waiters' = [waiters EXCEPT ![p] = remaining]
      /\ order' = Rotated(1, remaining)
      /\ status' = [status EXCEPT ![r] = "released", ![w] = "admitted"]
      /\ queued' = queued - 1
      /\ active' = active
  BY <1>1, <1>2, ReleaseDispatches DEF ReleaseToNext
<1>4. /\ p \in Principals
      /\ waiters[p] # <<>> /\ waiters[p] \in Seq(Requests)
  BY <1>2 DEF IInv, TypeOK, RotationExact, Range
<1>5. w \in Waiting /\ Owner[w] = p
  BY ReleaseServesWaiter
<1>6. /\ Running' = (Running \ {r}) \union {w}
      /\ Waiting' = Waiting \ {w}
      /\ w \notin Running
  BY <1>1, <1>3, <1>5 DEF IInv, TypeOK, Running, Waiting
<1>7. /\ waiters' \in [Principals -> Seq(Requests)]
      /\ \A q \in Principals : Len(waiters'[q]) <= MaxQueuedPerPrincipal
      /\ QueuesExact'
  BY <1>3, <1>5, <1>6, WaiterRemoved
<1>8. /\ waiters'[p] = remaining
      /\ \A q \in Principals \ {p} : waiters'[q] = waiters[q]
  BY <1>3, <1>4 DEF IInv, TypeOK
<1>9. /\ rest \in Seq(Principals)
      /\ IsInjective(rest)
      /\ Range(rest) = Range(order) \ {p}
  <2>1. /\ rest \in Seq(Principals)
        /\ Len(rest) = Len(order) - 1
        /\ \A i \in 1..(Len(order) - 1) : rest[i] = order[i + 1]
    BY <1>2, SubSeqProperties
  <2>2. DOMAIN rest = 1..(Len(order) - 1)
    BY <2>1, LenProperties
  <2>3. \A i, j \in 1..Len(order) : order[i] = order[j] => i = j
    BY <1>2 DEF IInv, RotationExact, IsInjective
  <2> HIDE DEF rest
  <2>4. IsInjective(rest)
    BY <1>2, <2>1, <2>2, <2>3 DEF IsInjective
  <2>5. ASSUME NEW x \in Range(rest)
        PROVE  x \in Range(order) \ {p}
    <3>1. PICK i \in 1..(Len(order) - 1) : x = order[i + 1]
      BY <2>1, <2>2 DEF Range
    <3>2. i + 1 \in 1..Len(order) /\ i + 1 # 1
      BY <1>2
    <3> QED
      BY <1>2, <2>3, <3>1, <3>2 DEF Range
  <2>6. ASSUME NEW x \in Range(order) \ {p}
        PROVE  x \in Range(rest)
    <3>1. PICK i \in 1..Len(order) : x = order[i] /\ i # 1
      BY <1>2 DEF Range
    <3>2. i - 1 \in 1..(Len(order) - 1) /\ (i - 1) + 1 = i
      BY <1>2, <3>1
    <3> QED
      BY <2>1, <2>2, <3>1, <3>2 DEF Range
  <2> QED
    BY <2>1, <2>4, <2>5, <2>6
<1>10. Range(order) = {q \in Principals : waiters[q] # <<>>}
  BY DEF IInv, RotationExact
<1>11. /\ order' \in Seq(Principals)
       /\ IsInjective(order')
       /\ Range(order') = {q \in Principals : waiters'[q] # <<>>}
  <2>1. CASE remaining = <<>>
    <3>1. p \notin Range(rest)
      BY <1>9
    <3>2. DOMAIN rest = 1..Len(rest)
      BY <1>9, LenProperties
    <3>3. order' = rest
      <4>1. order' = RemoveFirst(rest, p)
        BY <1>3, <2>1 DEF Rotated, OrderWithoutIdle
      <4> QED
        BY <3>1, <3>2, <4>1 DEF RemoveFirst, Range
    <3> QED
      BY <1>4, <1>8, <1>9, <1>10, <2>1, <3>3
  <2>2. CASE remaining # <<>>
    <3>1. order' = Append(rest, p)
      BY <1>3, <2>2 DEF Rotated
    <3>2. /\ order' \in Seq(Principals)
          /\ IsInjective(order')
          /\ Range(order') = Range(rest) \union {p}
      <4>1. p \notin Range(rest)
        BY <1>9
      <4> HIDE DEF rest
      <4>2. /\ Append(rest, p) \in Seq(Principals)
            /\ IsInjective(Append(rest, p))
            /\ Range(Append(rest, p)) = Range(rest) \union {p}
        BY <1>4, <1>9, <4>1, AppendProperties, AppendNewProperties
      <4> QED
        BY <3>1, <4>2
    <3> QED
      BY <1>4, <1>8, <1>9, <1>10, <2>2, <3>2
  <2> QED
    BY <2>1, <2>2
<1>12. CountersExact'
  <2>1. /\ IsFiniteSet(Running \ {r})
        /\ Cardinality(Running \ {r}) = active - 1
    BY <1>1, FS_RemoveElement DEF IInv, CountersExact
  <2>2. /\ IsFiniteSet((Running \ {r}) \union {w})
        /\ Cardinality((Running \ {r}) \union {w}) = (active - 1) + 1
    BY <1>6, <2>1, FS_AddElement
  <2>3. active \in Int
    BY <1>1, ReleaseDispatches, LimitAssumption
  <2> QED
    BY <1>3, <1>5, <1>6, <2>2, <2>3, FS_RemoveElement DEF IInv, CountersExact
<1>13. queued' \in 0..MaxQueued
  <2>1. Cardinality(Waiting') \in Nat
    BY <1>12, FS_CardinalityType DEF CountersExact
  <2> QED
    BY <1>3, <1>12, <2>1, ConfigAssumption DEF IInv, TypeOK, CountersExact, ValidConfig
<1>14. TypeOK'
  BY <1>3, <1>5, <1>7, <1>11, <1>13 DEF IInv, TypeOK, Statuses
<1>15. WorkConserving'
  BY <1>3, <1>5, <1>6 DEF IInv, WorkConserving
<1> QED
  BY <1>7, <1>11, <1>12, <1>14, <1>15 DEF IInv, RotationExact

LEMMA NextIInv == IInv /\ [Next]_vars => IInv'
<1> SUFFICES ASSUME IInv, [Next]_vars PROVE IInv'
  OBVIOUS
<1>1. ASSUME NEW r \in Requests, AcquireAborted(r) PROVE IInv'
  BY <1>1, SettleOutside DEF AcquireAborted
<1>2. ASSUME NEW r \in Requests, AcquireAdmitted(r) PROVE IInv'
  BY <1>2, AdmittedIInv
<1>3. ASSUME NEW r \in Requests, AcquireRejected(r) PROVE IInv'
  BY <1>3, SettleOutside DEF AcquireRejected
<1>4. ASSUME NEW r \in Requests, AcquireQueued(r) PROVE IInv'
  BY <1>4, QueuedIInv
<1>5. ASSUME NEW r \in Requests, Timeout(r) PROVE IInv'
  BY <1>5, WithdrawIInv DEF Timeout
<1>6. ASSUME NEW r \in Requests, Abort(r) PROVE IInv'
  BY <1>6, WithdrawIInv DEF Abort
<1>7. ASSUME NEW r \in Requests, Release(r) PROVE IInv'
  BY <1>7, ReleaseIdleIInv, ReleaseToNextIInv DEF Release
<1>8. CASE UNCHANGED vars
  <2>1. Running' = Running /\ Waiting' = Waiting
    BY <1>8 DEF vars, Running, Waiting
  <2> QED
    BY <1>8, <2>1
    DEF vars, IInv, TypeOK, CountersExact, QueuesExact, RotationExact, WorkConserving
<1> QED
  BY <1>1, <1>2, <1>3, <1>4, <1>5, <1>6, <1>7, <1>8 DEF Next

(* Counters, queues, rotation and slots agree in every reachable state.    *)
THEOREM Inductive == Spec => []IInv
BY InitIInv, NextIInv, PTL DEF Spec

(* Types, and the limits of the configuration: activeGenerations never     *)
(* exceeds the concurrency limit, nor a queue its own.                     *)
THEOREM TypeCorrect == Spec => []TypeOK
<1>1. IInv => TypeOK
  BY DEF IInv
<1> QED
  BY Inductive, <1>1, PTL

(* The two counters of the controller are exact.                           *)
THEOREM CountersCorrect == Spec => []CountersExact
<1>1. IInv => CountersExact
  BY DEF IInv
<1> QED
  BY Inductive, <1>1, PTL

(* The rotation of dispatchNext lists whoever waits, once.                 *)
THEOREM RotationCorrect == Spec => []RotationExact
<1>1. IInv => RotationExact
  BY DEF IInv
<1> QED
  BY Inductive, <1>1, PTL

(* Nobody waits while a slot is free.                                      *)
THEOREM NoIdleSlot == Spec => []WorkConserving
<1>1. IInv => WorkConserving
  BY DEF IInv
<1> QED
  BY Inductive, <1>1, PTL

(* Each principal's queue holds its unsettled waiters, once.               *)
THEOREM QueuesCorrect == Spec => []QueuesExact
<1>1. IInv => QueuesExact
  BY DEF IInv
<1> QED
  BY Inductive, <1>1, PTL

(* The three books of the controller agree, and keep its limits.           *)
THEOREM BooksCorrect == Spec => []BooksAgree
BY TypeCorrect, CountersCorrect, QueuesCorrect, RotationCorrect, PTL DEF BooksAgree

-----------------------------------------------------------------------------
(* Turns. *)

(* The place of an entry of a list without duplicates is where it is. *)
LEMMA PlaceOf ==
  ASSUME IInv, NEW p, NEW i \in DOMAIN order, order[i] = p
  PROVE  Place(p) = i
<1>1. \A j \in DOMAIN order : order[j] = p => j = i
  BY DEF IInv, RotationExact, IsInjective
<1> QED
  BY <1>1 DEF Place

LEMMA PlaceOfNext ==
  ASSUME IInv', NEW p, NEW i \in DOMAIN order', order'[i] = p
  PROVE  Place(p)' = i
<1>1. \A j \in DOMAIN order' : order'[j] = p => j = i
  BY DEF IInv, RotationExact, IsInjective
<1> QED
  BY <1>1 DEF Place

(* What RoundRobin says of one principal in one step. *)
ServedIn(p) == \E r \in Waiting : Owner[r] = p /\ status'[r] = "admitted"

OtherServedIn(p) == \E r \in Waiting : Owner[r] # p /\ status'[r] = "admitted"

LEMMA TurnKept ==
  ASSUME IInv, IInv', Next, NEW p \in Principals,
         waiters[p] # <<>>, waiters'[p] # <<>>, ~ServedIn(p)
  PROVE  /\ Place(p)' <= Place(p)
         /\ OtherServedIn(p) => Place(p)' < Place(p)
<1>1. order \in Seq(Principals) /\ DOMAIN order = 1..Len(order) /\ Len(order) \in Nat
  BY LenProperties DEF IInv, TypeOK
<1>2. PICK i \in 1..Len(order) : order[i] = p
  BY <1>1 DEF IInv, RotationExact, Range
<1>3. Place(p) = i
  BY <1>1, <1>2, PlaceOf
<1>4. ASSUME order' = order, ~OtherServedIn(p)
      PROVE  /\ Place(p)' <= Place(p)
             /\ OtherServedIn(p) => Place(p)' < Place(p)
  BY <1>1, <1>2, <1>3, <1>4, PlaceOfNext
<1>5. ASSUME NEW r \in Requests, AcquireAborted(r) \/ AcquireAdmitted(r) \/ AcquireRejected(r)
      PROVE  order' = order /\ ~OtherServedIn(p)
  <2>1. r \notin Waiting
    BY <1>5 DEF AcquireAborted, AcquireAdmitted, AcquireRejected, Fresh, Waiting
  <2> QED
    BY <1>5, <2>1
    DEF IInv, TypeOK, AcquireAborted, AcquireAdmitted, AcquireRejected, OtherServedIn, Waiting
<1>6. ASSUME NEW r \in Requests, AcquireQueued(r)
      PROVE  /\ Place(p)' <= Place(p)
             /\ OtherServedIn(p) => Place(p)' < Place(p)
  <2>1. ~OtherServedIn(p)
    BY <1>6 DEF IInv, TypeOK, AcquireQueued, Fresh, OtherServedIn, Waiting
  <2>2. order' = order \/ order' = Append(order, Owner[r])
    BY <1>6 DEF AcquireQueued
  <2>3. i \in DOMAIN order' /\ order'[i] = p
    BY <1>1, <1>2, <2>2, OwnerAssumption, AppendProperties
  <2> QED
    BY <1>3, <2>1, <2>3, PlaceOfNext
<1>7. ASSUME NEW r \in Requests, NEW outcome \in {"timed_out", "cancelled"},
             Withdraw(r, outcome)
      PROVE  /\ Place(p)' <= Place(p)
             /\ OtherServedIn(p) => Place(p)' < Place(p)
  <2>1. ~OtherServedIn(p)
    BY <1>7 DEF IInv, TypeOK, Withdraw, OtherServedIn, Waiting
  <2>2. CASE order' = order
    BY <1>4, <2>1, <2>2
  <2>3. CASE order' # order
    <3> DEFINE q == Owner[r]
    <3>1. r \in Waiting
      BY <1>7 DEF Withdraw, Waiting
    <3>2. PICK k \in 1..Len(order) : order[k] = q
      BY <3>1, WaiterPlace
    <3>3. /\ order' = RemoveFirst(order, q)
          /\ RemoveFirst(waiters[q], r) = <<>>
          /\ waiters' = [waiters EXCEPT ![q] = RemoveFirst(waiters[q], r)]
      BY <1>7, <2>3 DEF Withdraw, OrderWithoutIdle
    <3>4. p # q
      BY <3>3 DEF IInv, TypeOK
    <3>5. /\ \A j \in 1..(Len(order) - 1) : order'[j] = IF j < k THEN order[j] ELSE order[j + 1]
          /\ DOMAIN order' = 1..(Len(order) - 1)
      <4>1. IsInjective(order)
        BY DEF IInv, RotationExact
      <4>2. /\ order' \in Seq(Principals)
            /\ Len(order') = Len(order) - 1
            /\ \A j \in 1..(Len(order) - 1) : order'[j] = IF j < k THEN order[j] ELSE order[j + 1]
        <5> DEFINE o == RemoveFirst(order, order[k])
        <5>1. /\ o \in Seq(Principals)
              /\ Len(o) = Len(order) - 1
              /\ \A j \in 1..(Len(order) - 1) : o[j] = IF j < k THEN order[j] ELSE order[j + 1]
          BY <1>1, <3>2, <4>1, RemoveFirstProperties
        <5>2. o = order'
          BY <3>2, <3>3
        <5> HIDE DEF o
        <5> QED
          BY <5>1, <5>2
      <4> QED
        BY <4>2, LenProperties
    <3>6. i # k
      BY <1>2, <3>2, <3>4
    <3>7. CASE i < k
      <4>1. i \in DOMAIN order' /\ order'[i] = p
        BY <1>1, <1>2, <3>2, <3>5, <3>7
      <4> QED
        BY <1>3, <2>1, <4>1, PlaceOfNext
    <3>8. CASE i > k
      <4>1. i - 1 \in DOMAIN order' /\ order'[i - 1] = p
        BY <1>1, <1>2, <3>2, <3>5, <3>8
      <4> QED
        BY <1>3, <2>1, <4>1, PlaceOfNext
    <3> QED
      BY <1>1, <3>2, <3>6, <3>7, <3>8
  <2> QED
    BY <2>2, <2>3
<1>8. ASSUME NEW r \in Requests, ReleaseIdle(r)
      PROVE  FALSE
  BY <1>1, <1>2, <1>8, ReleaseDispatches, EmptySeq DEF ReleaseIdle, Running
<1>9. ASSUME NEW r \in Requests, ReleaseToNext(r)
      PROVE  Place(p)' < Place(p) /\ Place(p)' \in Int
  <2> DEFINE q == order[1]
             w == FirstWaiter(q)
             rest == SubSeq(order, 2, Len(order))
  <2>1. r \in Running /\ CanDispatch /\ 1 \in DOMAIN order
    BY <1>1, <1>2, <1>9 DEF ReleaseToNext, Running
  <2>2. /\ order' = Rotated(1, RemoveFirst(waiters[q], w))
        /\ status' = [status EXCEPT ![r] = "released", ![w] = "admitted"]
    BY <1>9, <2>1, ReleaseDispatches DEF ReleaseToNext
  <2>3. w \in Waiting /\ Owner[w] = q
    <3>1. q \in Principals /\ waiters[q] # <<>> /\ waiters[q] \in Seq(Requests)
      BY <1>1, <2>1 DEF IInv, TypeOK, RotationExact, Range
    <3>2. 1 \in DOMAIN waiters[q] /\ w = waiters[q][1]
      BY <3>1, EmptySeq, LenProperties DEF FirstWaiter
    <3> QED
      BY <3>1, <3>2 DEF IInv, QueuesExact, Range
  <2>4. p # q
    BY <2>2, <2>3 DEF IInv, TypeOK, ServedIn, Waiting
  <2>5. i - 1 \in 1..(Len(order) - 1)
    BY <1>1, <1>2, <2>4
  <2>6. /\ rest \in Seq(Principals)
        /\ Len(rest) = Len(order) - 1
        /\ \A j \in 1..(Len(order) - 1) : rest[j] = order[j + 1]
    BY <1>1, <2>1, SubSeqProperties
  <2>7. rest[i - 1] = p
    BY <1>1, <1>2, <2>5, <2>6
  <2>8. i - 1 \in DOMAIN order' /\ order'[i - 1] = p
    <3> DEFINE remaining == RemoveFirst(waiters[q], w)
    <3> HIDE DEF rest
    <3>1. CASE remaining # <<>>
      <4>1. order' = Append(rest, q)
        BY <2>2, <3>1 DEF Rotated, rest
      <4>2. q \in Principals
        BY <1>1, <2>1 DEF IInv, TypeOK
      <4>3. /\ DOMAIN Append(rest, q) = 1..(Len(rest) + 1)
            /\ \A j \in 1..Len(rest) : Append(rest, q)[j] = rest[j]
        BY <2>6, <4>2, AppendProperties, LenProperties
      <4>4. i - 1 \in 1..Len(rest) /\ i - 1 \in 1..(Len(rest) + 1)
        BY <1>1, <2>5, <2>6
      <4> QED
        BY <2>7, <4>1, <4>3, <4>4
    <3>2. CASE remaining = <<>>
      <4>1. order' = RemoveFirst(rest, q)
        BY <2>2, <3>2 DEF Rotated, OrderWithoutIdle, rest
      <4>2. \A j \in DOMAIN rest : rest[j] # q
        <5>1. DOMAIN rest = 1..(Len(order) - 1)
          BY <2>6, LenProperties
        <5>2. \A a, b \in 1..Len(order) : order[a] = order[b] => a = b
          BY <1>1 DEF IInv, RotationExact, IsInjective
        <5> QED
          BY <1>1, <2>1, <2>6, <5>1, <5>2
      <4>3. order' = rest
        BY <4>1, <4>2, <2>6, LenProperties DEF RemoveFirst
      <4> QED
        BY <2>5, <2>6, <2>7, <4>3, LenProperties
    <3> QED
      BY <3>1, <3>2
  <2>9. Place(p)' = i - 1
    BY <2>8, PlaceOfNext
  <2> QED
    BY <1>1, <1>3, <2>9
<1> DEFINE Goal == /\ Place(p)' <= Place(p)
                   /\ OtherServedIn(p) => Place(p)' < Place(p)
<1>10. ASSUME NEW r \in Requests, AcquireAborted(r) \/ AcquireAdmitted(r) \/ AcquireRejected(r)
       PROVE  Goal
  BY <1>4, <1>5, <1>10
<1>11. ASSUME NEW r \in Requests, Timeout(r) \/ Abort(r)
       PROVE  Goal
  BY <1>7, <1>11 DEF Timeout, Abort
<1>12. ASSUME NEW r \in Requests, Release(r)
       PROVE  Goal
  <2>1. CASE ReleaseIdle(r)
    BY <1>8, <2>1
  <2>2. CASE ReleaseToNext(r)
    <3>1. Place(p)' < Place(p)
      BY <1>9, <2>2
    <3>2. Place(p)' \in Int
      BY <2>2, <1>9
    <3> QED
      BY <1>1, <1>3, <3>1, <3>2
  <2> QED
    BY <1>12, <2>1, <2>2 DEF Release
<1>13. ASSUME NEW r \in Requests, AcquireQueued(r)
       PROVE  Goal
  BY <1>6, <1>13
<1> HIDE DEF Goal
<1>14. Goal
  BY <1>10, <1>11, <1>12, <1>13 DEF Next
<1> QED
  BY <1>14 DEF Goal

(* A waiting principal only moves forward in the rotation until it is      *)
(* served, and strictly when another one is served: between two turns of a *)
(* principal no other has two.                                             *)
THEOREM TurnsAreFair == Spec => RoundRobin
<1>1. IInv /\ IInv' /\ [Next]_vars
        => [\A p \in Principals :
              LET served == \E r \in Waiting : Owner[r] = p /\ status'[r] = "admitted"
                  otherServed == \E r \in Waiting : Owner[r] # p /\ status'[r] = "admitted"
              IN waiters[p] # <<>> /\ waiters'[p] # <<>> /\ ~served
                   => /\ Place(p)' <= Place(p)
                      /\ otherServed => Place(p)' < Place(p)]_vars
  BY TurnKept DEF ServedIn, OtherServedIn
<1> QED
  BY Inductive, <1>1, PTL DEF Spec, RoundRobin
-----------------------------------------------------------------------------
(* The controller implements FairSlots.  The mapping is the one of Promise *)
(* in Admission: an order is the set of pairs <<x, y>> with x before y in  *)
(* a list.                                                                 *)

(* x stands before y in s. *)
Before(s, x, y) == \E i, j \in DOMAIN s : i < j /\ s[i] = x /\ s[j] = y

(* Taking an entry out leaves the order of the others. *)
LEMMA BeforeRemoved ==
  ASSUME NEW S, NEW s \in Seq(S), IsInjective(s), NEW e \in Range(s), NEW x, NEW y
  PROVE  Before(RemoveFirst(s, e), x, y) <=> Before(s, x, y) /\ x # e /\ y # e
<1>1. /\ Len(s) \in Nat /\ DOMAIN s = 1..Len(s)
      /\ \A i, j \in 1..Len(s) : s[i] = s[j] => i = j
  BY LenProperties DEF IsInjective
<1>2. PICK k \in 1..Len(s) : s[k] = e
  BY <1>1 DEF Range
<1> DEFINE t == RemoveFirst(s, e)
           n == Len(s)
<1>3. /\ DOMAIN t = 1..(n - 1)
      /\ \A j \in 1..(n - 1) : t[j] = IF j < k THEN s[j] ELSE s[j + 1]
  <2> DEFINE u == RemoveFirst(s, s[k])
  <2>1. /\ u \in Seq(S) /\ Len(u) = n - 1
        /\ \A j \in 1..(n - 1) : u[j] = IF j < k THEN s[j] ELSE s[j + 1]
    BY <1>2, RemoveFirstProperties
  <2>2. u = t
    BY <1>2
  <2> HIDE DEF u, t
  <2> QED
    BY <2>1, <2>2, LenProperties
<1> HIDE DEF t
<1>4. ASSUME Before(t, x, y)
      PROVE  Before(s, x, y) /\ x # e /\ y # e
  <2>1. PICK i, j \in 1..(n - 1) : i < j /\ t[i] = x /\ t[j] = y
    BY <1>3, <1>4 DEF Before
  <2> DEFINE a == IF i < k THEN i ELSE i + 1
             b == IF j < k THEN j ELSE j + 1
  <2>2. /\ a \in 1..n /\ b \in 1..n /\ a < b /\ a # k /\ b # k
        /\ s[a] = x /\ s[b] = y
    BY <1>1, <1>2, <1>3, <2>1
  <2> HIDE DEF a, b
  <2> QED
    BY <1>1, <1>2, <2>2 DEF Before
<1>5. ASSUME Before(s, x, y), x # e, y # e
      PROVE  Before(t, x, y)
  <2>1. PICK i, j \in 1..n : i < j /\ s[i] = x /\ s[j] = y
    BY <1>1, <1>5 DEF Before
  <2> DEFINE a == IF i < k THEN i ELSE i - 1
             b == IF j < k THEN j ELSE j - 1
  <2>2. i # k /\ j # k
    BY <1>2, <1>5, <2>1
  <2>3. /\ a \in 1..(n - 1) /\ b \in 1..(n - 1) /\ a < b
        /\ t[a] = x /\ t[b] = y
    BY <1>1, <1>2, <1>3, <2>1, <2>2
  <2> HIDE DEF a, b
  <2> QED
    BY <1>3, <2>3 DEF Before
<1> QED
  BY <1>4, <1>5 DEF t

(* An entry that is pushed comes after all others. *)
LEMMA BeforeAppended ==
  ASSUME NEW S, NEW s \in Seq(S), NEW e \in S, NEW x, NEW y
  PROVE  Before(Append(s, e), x, y) <=> Before(s, x, y) \/ (x \in Range(s) /\ y = e)
<1> DEFINE t == Append(s, e)
           n == Len(s)
<1>1. /\ n \in Nat /\ DOMAIN s = 1..n /\ DOMAIN t = 1..(n + 1)
      /\ \A i \in 1..n : t[i] = s[i]
      /\ t[n + 1] = e
  BY LenProperties, AppendProperties
<1> HIDE DEF t, n
<1>2. ASSUME Before(t, x, y)
      PROVE  Before(s, x, y) \/ (x \in Range(s) /\ y = e)
  <2>1. PICK i, j \in 1..(n + 1) : i < j /\ t[i] = x /\ t[j] = y
    BY <1>1, <1>2 DEF Before
  <2>2. i \in 1..n /\ s[i] = x
    BY <1>1, <2>1
  <2>3. CASE j = n + 1
    BY <1>1, <2>1, <2>2, <2>3 DEF Range
  <2>4. CASE j # n + 1
    <3>1. j \in 1..n /\ s[j] = y
      BY <1>1, <2>1, <2>4
    <3> QED
      BY <1>1, <2>1, <2>2, <3>1 DEF Before
  <2> QED
    BY <2>3, <2>4
<1>3. ASSUME Before(s, x, y)
      PROVE  Before(t, x, y)
  <2>1. PICK i, j \in 1..n : i < j /\ s[i] = x /\ s[j] = y
    BY <1>1, <1>3 DEF Before
  <2>2. i \in 1..(n + 1) /\ j \in 1..(n + 1)
    BY <1>1
  <2> QED
    BY <1>1, <2>1, <2>2 DEF Before
<1>4. ASSUME x \in Range(s), y = e
      PROVE  Before(t, x, y)
  <2>1. PICK i \in 1..n : s[i] = x
    BY <1>1, <1>4 DEF Range
  <2>2. i \in 1..(n + 1) /\ n + 1 \in 1..(n + 1) /\ i < n + 1
    BY <1>1
  <2> QED
    BY <1>1, <1>4, <2>1, <2>2 DEF Before
<1> QED
  BY <1>2, <1>3, <1>4 DEF t

(* What is before something is an entry, and nothing is before the first. *)
LEMMA BeforeEntries ==
  ASSUME NEW S, NEW s \in Seq(S), IsInjective(s), NEW x, NEW y, Before(s, x, y)
  PROVE  x \in Range(s) /\ y \in Range(s) /\ x # y /\ y # s[1]
<1>1. Len(s) \in Nat /\ DOMAIN s = 1..Len(s)
  BY LenProperties
<1>2. PICK i, j \in 1..Len(s) : i < j /\ s[i] = x /\ s[j] = y
  BY <1>1 DEF Before
<1>3. 1 \in 1..Len(s) /\ j # 1 /\ i # j
  BY <1>1, <1>2
<1> QED
  BY <1>1, <1>2, <1>3 DEF Range, IsInjective

(* A list without its first entry is that entry removed. *)
LEMMA TailRemoves ==
  ASSUME NEW S, NEW s \in Seq(S), IsInjective(s), 1 \in DOMAIN s
  PROVE  SubSeq(s, 2, Len(s)) = RemoveFirst(s, s[1])
<1> DEFINE u == SubSeq(s, 2, Len(s))
           t == RemoveFirst(s, s[1])
           n == Len(s)
<1>1. n \in Nat /\ 1 \in 1..n
  BY LenProperties
<1>2. /\ u \in Seq(S) /\ Len(u) = n - 1
      /\ \A j \in 1..(n - 1) : u[j] = s[j + 1]
  <2>1. ASSUME NEW k \in 1..n
        PROVE  /\ SubSeq(s, k + 1, n) \in Seq(S)
               /\ Len(SubSeq(s, k + 1, n)) = n - k
               /\ \A j \in 1..(n - k) : SubSeq(s, k + 1, n)[j] = s[j + k]
    BY SubSeqProperties
  <2>2. u = SubSeq(s, 1 + 1, n)
    OBVIOUS
  <2> HIDE DEF u
  <2> QED
    BY <1>1, <2>1, <2>2
<1>3. /\ t \in Seq(S) /\ Len(t) = n - 1
      /\ \A j \in 1..(n - 1) : t[j] = IF j < 1 THEN s[j] ELSE s[j + 1]
  BY <1>1, RemoveFirstProperties
<1> HIDE DEF u, t
<1>4. \A j \in 1..(n - 1) : t[j] = u[j]
  BY <1>1, <1>2, <1>3
<1>5. u = t
  BY <1>2, <1>3, <1>4, SeqEqual
<1> QED
  BY <1>5 DEF u, t

-----------------------------------------------------------------------------
(* The mapping. *)

(* What the mapped orders contain, before and after a step. *)
LEMMA OrdersAre ==
  /\ \A e : e \in AheadInQueue <=>
              /\ e \in Requests \X Requests
              /\ Owner[e[1]] = Owner[e[2]]
              /\ Before(waiters[Owner[e[2]]], e[1], e[2])
  /\ \A e : e \in AheadInRotation <=>
              e \in Principals \X Principals /\ Before(order, e[1], e[2])
BY DEF AheadInQueue, AheadInRotation, Before

LEMMA OrdersWillBe ==
  /\ \A e : e \in AheadInQueue' <=>
              /\ e \in Requests \X Requests
              /\ Owner[e[1]] = Owner[e[2]]
              /\ Before(waiters'[Owner[e[2]]], e[1], e[2])
  /\ \A e : e \in AheadInRotation' <=>
              e \in Principals \X Principals /\ Before(order', e[1], e[2])
BY DEF AheadInQueue, AheadInRotation, Before

(* The principals that want a slot are those in the rotation. *)
LEMMA WantingIsRotation ==
  ASSUME IInv
  PROVE  Promise!Wanting(Waiting) = Range(order)
<1>1. \A p \in Principals : waiters[p] # <<>> <=> Range(waiters[p]) # {}
  <2> TAKE p \in Principals
  <2>1. waiters[p] \in Seq(Requests)
    BY DEF IInv, TypeOK
  <2> QED
    BY <2>1, EmptyRange
<1>2. \A r \in Waiting : Owner[r] \in Principals /\ r \in Range(waiters[Owner[r]])
  BY OwnerAssumption DEF IInv, QueuesExact, Waiting
<1>3. \A p \in Principals : \A r \in Range(waiters[p]) : r \in Waiting /\ Owner[r] = p
  BY DEF IInv, QueuesExact
<1>4. Promise!Wanting(Waiting) = {p \in Principals : Range(waiters[p]) # {}}
  BY <1>2, <1>3 DEF Promise!Wanting
<1> QED
  BY <1>1, <1>4 DEF IInv, RotationExact

LEMMA WantingWillBeRotation ==
  ASSUME IInv'
  PROVE  Promise!Wanting(Waiting') = Range(order')
<1>1. \A p \in Principals : waiters'[p] # <<>> <=> Range(waiters'[p]) # {}
  <2> TAKE p \in Principals
  <2>1. waiters'[p] \in Seq(Requests)
    BY DEF IInv, TypeOK
  <2> QED
    BY <2>1, EmptyRange
<1>2. \A r \in Waiting' : Owner[r] \in Principals /\ r \in Range(waiters'[Owner[r]])
  BY OwnerAssumption DEF IInv, QueuesExact, Waiting
<1>3. \A p \in Principals : \A r \in Range(waiters'[p]) : r \in Waiting' /\ Owner[r] = p
  BY DEF IInv, QueuesExact
<1>4. Promise!Wanting(Waiting') = {p \in Principals : Range(waiters'[p]) # {}}
  BY <1>2, <1>3 DEF Promise!Wanting
<1> QED
  BY <1>1, <1>4 DEF IInv, RotationExact

(* Everybody in an order of a queue waits; nobody is ahead of himself. *)
LEMMA AheadWait ==
  ASSUME IInv, NEW e \in AheadInQueue
  PROVE  e[1] \in Waiting /\ e[2] \in Waiting /\ e[1] # e[2]
<1> DEFINE p == Owner[e[2]]
<1>1. /\ e \in Requests \X Requests
      /\ Owner[e[1]] = p /\ p \in Principals
      /\ Before(waiters[p], e[1], e[2])
  BY OrdersAre, OwnerAssumption
<1>2. /\ waiters[p] \in Seq(Requests) /\ IsInjective(waiters[p])
      /\ Range(waiters[p]) = {r \in Waiting : Owner[r] = p}
  BY <1>1 DEF IInv, TypeOK, QueuesExact
<1> QED
  BY <1>1, <1>2, BeforeEntries

(* Removing r from its queue takes its pairs out of the order. *)
LEMMA QueueOrderRemoved ==
  ASSUME IInv, NEW r \in Waiting,
         waiters' = [waiters EXCEPT ![Owner[r]] = RemoveFirst(@, r)],
         Waiting' = Waiting \ {r}
  PROVE  AheadInQueue' = Promise!OlderWithin(AheadInQueue, Waiting')
<1> DEFINE p == Owner[r]
<1>1. /\ p \in Principals /\ waiters[p] \in Seq(Requests)
      /\ IsInjective(waiters[p]) /\ r \in Range(waiters[p])
  BY OwnerAssumption DEF IInv, TypeOK, QueuesExact, Waiting
<1>2. waiters'[p] = RemoveFirst(waiters[p], r)
  BY <1>1 DEF IInv, TypeOK
<1>3. \A q \in Principals : q # p => waiters'[q] = waiters[q]
  BY DEF IInv, TypeOK
<1>4. ASSUME NEW e \in Requests \X Requests, Owner[e[1]] = Owner[e[2]]
      PROVE  Before(waiters'[Owner[e[2]]], e[1], e[2])
               <=> Before(waiters[Owner[e[2]]], e[1], e[2]) /\ e[1] # r /\ e[2] # r
  <2>1. CASE Owner[e[2]] = p
    BY <1>1, <1>2, <2>1, BeforeRemoved
  <2>2. CASE Owner[e[2]] # p
    BY <1>3, <1>4, <2>2, OwnerAssumption
  <2> QED
    BY <2>1, <2>2
<1>5. \A e : e \in AheadInQueue' <=> e \in AheadInQueue /\ e[1] # r /\ e[2] # r
  BY <1>4, OrdersAre, OrdersWillBe
<1>6. \A e \in AheadInQueue : e[1] \in Waiting /\ e[2] \in Waiting
  BY AheadWait
<1> HIDE DEF p
<1>7. \A e : e \in AheadInQueue' <=> e \in Promise!OlderWithin(AheadInQueue, Waiting')
  BY <1>5, <1>6 DEF Promise!OlderWithin
<1> QED
  BY <1>7

-----------------------------------------------------------------------------
(* The steps. *)

(* FairSlots counts with the same operator. *)
LEMMA SameCardinality == \A set : Promise!Cardinality(set) = Cardinality(set)
BY DEF Promise!Cardinality, Cardinality, Promise!IsFiniteSet, IsFiniteSet

(* A step that leaves the lists, the leases and the waiters alone.         *)
LEMMA Stutters ==
  ASSUME UNCHANGED <<waiters, order>>, Running' = Running, Waiting' = Waiting
  PROVE  UNCHANGED Promise!vars
<1>1. AheadInQueue' = AheadInQueue /\ AheadInRotation' = AheadInRotation
  BY DEF AheadInQueue, AheadInRotation
<1> QED
  BY <1>1 DEF Promise!vars

LEMMA AdmittedStarts ==
  ASSUME IInv, NEW r \in Requests, AcquireAdmitted(r)
  PROVE  Promise!Start(r)
<1>1. Running' = Running \union {r} /\ Waiting' = Waiting
  BY DEF IInv, TypeOK, AcquireAdmitted, Fresh, Running, Waiting
<1>2. r \notin Running \union Waiting
  BY DEF AcquireAdmitted, Fresh, Running, Waiting
<1>3. Waiting = {}
  BY LimitAssumption DEF IInv, TypeOK, WorkConserving, AcquireAdmitted
<1>4. Cardinality(Running) < ConcurrencyLimit
  BY DEF IInv, CountersExact, AcquireAdmitted
<1>5. AheadInQueue' = AheadInQueue /\ AheadInRotation' = AheadInRotation
  BY DEF AcquireAdmitted, AheadInQueue, AheadInRotation
<1> QED
  BY <1>1, <1>2, <1>3, <1>4, <1>5, SameCardinality DEF Promise!Start

LEMMA QueuedWaits ==
  ASSUME IInv, NEW r \in Requests, AcquireQueued(r)
  PROVE  Promise!Wait(r)
<1> DEFINE p == Owner[r]
<1>1. Running' = Running /\ Waiting' = Waiting \union {r}
  BY DEF IInv, TypeOK, AcquireQueued, Fresh, Running, Waiting
<1>2. r \notin Running \union Waiting
  BY DEF AcquireQueued, Fresh, Running, Waiting
<1>3. Cardinality(Running) = ConcurrencyLimit
  BY LimitAssumption DEF IInv, TypeOK, CountersExact, AcquireQueued
<1>4. /\ p \in Principals /\ waiters[p] \in Seq(Requests)
      /\ Range(waiters[p]) = {s \in Waiting : Owner[s] = p}
  BY OwnerAssumption DEF IInv, TypeOK, QueuesExact
<1>5. /\ waiters'[p] = Append(waiters[p], r)
      /\ \A q \in Principals : q # p => waiters'[q] = waiters[q]
  BY <1>4 DEF IInv, TypeOK, AcquireQueued
<1>6. AheadInQueue' =
        AheadInQueue \union {<<s, r>> : s \in {s \in Waiting : Owner[s] = Owner[r]}}
  <2>1. ASSUME NEW e \in Requests \X Requests, Owner[e[1]] = Owner[e[2]]
        PROVE  Before(waiters'[Owner[e[2]]], e[1], e[2])
                 <=> \/ Before(waiters[Owner[e[2]]], e[1], e[2])
                     \/ e[2] = r /\ e[1] \in Waiting
    <3>1. CASE Owner[e[2]] = p
      <4>1. Before(Append(waiters[p], r), e[1], e[2])
              <=> Before(waiters[p], e[1], e[2]) \/ (e[1] \in Range(waiters[p]) /\ e[2] = r)
        BY <1>4, BeforeAppended
      <4> QED
        BY <1>4, <1>5, <2>1, <3>1, <4>1
    <3>2. CASE Owner[e[2]] # p
      <4>1. waiters'[Owner[e[2]]] = waiters[Owner[e[2]]] /\ e[2] # r
        BY <1>5, <3>2, OwnerAssumption
      <4> QED
        BY <4>1
    <3> QED
      BY <3>1, <3>2
  <2>2. \A e : e \in {<<s, r>> : s \in {s \in Waiting : Owner[s] = Owner[r]}}
               <=> /\ e \in Requests \X Requests /\ Owner[e[1]] = Owner[e[2]]
                   /\ e[2] = r /\ e[1] \in Waiting
    BY DEF Waiting
  <2> DEFINE new == {<<s, r>> : s \in {s \in Waiting : Owner[s] = Owner[r]}}
  <2> HIDE DEF p, new
  <2>3. \A e : e \in AheadInQueue' <=> e \in AheadInQueue \union new
    BY <2>1, <2>2, OrdersAre, OrdersWillBe DEF new
  <2>4. AheadInQueue' = AheadInQueue \union new
    BY <2>3
  <2> QED
    BY <2>4 DEF new
<1>7. AheadInRotation' = IF p \in Promise!Wanting(Waiting) THEN AheadInRotation
                         ELSE AheadInRotation \union (Promise!Wanting(Waiting) \X {p})
  <2>1. /\ order \in Seq(Principals)
        /\ Promise!Wanting(Waiting) = Range(order)
        /\ p \in Range(order) <=> waiters[p] # <<>>
        /\ Range(order) \subseteq Principals
    BY <1>4, WantingIsRotation DEF IInv, TypeOK, RotationExact
  <2>2. CASE p \in Range(order)
    <3>1. order' = order
      BY <2>1, <2>2 DEF AcquireQueued
    <3> QED
      BY <2>1, <2>2, <3>1 DEF AheadInRotation
  <2>3. CASE p \notin Range(order)
    <3>1. order' = Append(order, p)
      BY <2>1, <2>3 DEF AcquireQueued
    <3>2. ASSUME NEW e \in Principals \X Principals
          PROVE  Before(order', e[1], e[2])
                   <=> Before(order, e[1], e[2]) \/ (e[1] \in Range(order) /\ e[2] = p)
      BY <1>4, <2>1, <3>1, BeforeAppended
    <3>3. \A e : e \in Range(order) \X {p}
                 <=> e \in Principals \X Principals /\ e[1] \in Range(order) /\ e[2] = p
      BY <1>4, <2>1
    <3> HIDE DEF p
    <3>4. \A e : e \in AheadInRotation' <=> e \in AheadInRotation \union (Range(order) \X {p})
      BY <3>2, <3>3, OrdersAre, OrdersWillBe
    <3> QED
      BY <2>1, <2>3, <3>4
  <2> QED
    BY <2>2, <2>3
<1> QED
  BY <1>1, <1>2, <1>3, <1>6, <1>7, SameCardinality DEF Promise!Wait

LEMMA WithdrawGivesUp ==
  ASSUME IInv, IInv', NEW r \in Requests, NEW outcome \in {"timed_out", "cancelled"},
         Withdraw(r, outcome)
  PROVE  Promise!GiveUp(r)
<1> DEFINE p == Owner[r]
<1>1. r \in Waiting /\ Running' = Running /\ Waiting' = Waiting \ {r}
  BY DEF IInv, TypeOK, Withdraw, Running, Waiting
<1>2. AheadInQueue' = Promise!OlderWithin(AheadInQueue, Waiting')
  BY <1>1, QueueOrderRemoved DEF Withdraw
<1>3. AheadInRotation' = Promise!TurnWithin(AheadInRotation, Waiting')
  <2>1. /\ order \in Seq(Principals) /\ IsInjective(order)
        /\ Promise!Wanting(Waiting') = Range(order')
    BY WantingWillBeRotation DEF IInv, TypeOK, RotationExact
  <2>2. ASSUME NEW e \in AheadInRotation
        PROVE  e[1] \in Range(order) /\ e[2] \in Range(order)
    BY <2>1, OrdersAre, BeforeEntries
  <2>3. CASE order' = order
    <3>1. AheadInRotation' = AheadInRotation
      BY <2>3 DEF AheadInRotation
    <3> QED
      BY <2>1, <2>2, <2>3, <3>1 DEF Promise!TurnWithin
  <2>4. CASE order' # order
    <3>1. order' = RemoveFirst(order, p)
      BY <2>4 DEF Withdraw, OrderWithoutIdle
    <3>2. p \in Range(order)
      BY <1>1, <2>1, WantingIsRotation DEF Promise!Wanting
    <3>3. Range(order') = Range(order) \ {p}
      <4>1. PICK k \in 1..Len(order) : order[k] = p
        BY <2>1, <3>2, LenProperties DEF Range
      <4>2. Range(RemoveFirst(order, order[k])) = Range(order) \ {order[k]}
        BY <2>1, RemoveFirstProperties
      <4> QED
        BY <3>1, <4>1, <4>2
    <3>4. ASSUME NEW e \in Principals \X Principals
          PROVE  Before(order', e[1], e[2])
                   <=> Before(order, e[1], e[2]) /\ e[1] # p /\ e[2] # p
      BY <2>1, <3>1, <3>2, BeforeRemoved
    <3> HIDE DEF p
    <3>5. \A e : e \in AheadInRotation' <=> e \in AheadInRotation /\ e[1] # p /\ e[2] # p
      BY <3>4, OrdersAre, OrdersWillBe
    <3>6. \A e : e \in AheadInRotation' <=> e \in Promise!TurnWithin(AheadInRotation, Waiting')
      BY <2>1, <2>2, <3>3, <3>5 DEF Promise!TurnWithin
    <3> QED
      BY <3>6
  <2> QED
    BY <2>3, <2>4
<1> QED
  BY <1>1, <1>2, <1>3 DEF Promise!GiveUp

LEMMA ReleaseIdleFinishes ==
  ASSUME IInv, NEW r \in Requests, ReleaseIdle(r)
  PROVE  Promise!Finish(r)
<1>1. r \in Running /\ ~CanDispatch
  BY DEF ReleaseIdle, Running
<1>2. order = <<>>
  BY <1>1, ReleaseDispatches
<1>3. order' = order /\ waiters' = waiters
  BY <1>2 DEF ReleaseIdle
<1>4. Running' = Running \ {r} /\ Waiting' = Waiting
  BY DEF IInv, TypeOK, ReleaseIdle, Running, Waiting
<1>5. Waiting = {}
  BY <1>2, WaiterPlace, EmptySeq
<1>6. AheadInQueue' = AheadInQueue /\ AheadInRotation' = AheadInRotation
  BY <1>3 DEF AheadInQueue, AheadInRotation
<1> QED
  BY <1>1, <1>4, <1>5, <1>6 DEF Promise!Finish

(* The waiter that is served is the first of the first principal.          *)
LEMMA ReleaseToNextHandsOver ==
  ASSUME IInv, IInv', NEW r \in Requests, ReleaseToNext(r)
  PROVE  Promise!HandOver(r, FirstWaiter(order[1])) /\ FirstWaiter(order[1]) \in Requests
<1> DEFINE p == order[1]
           w == FirstWaiter(p)
           remaining == RemoveFirst(waiters[p], w)
           rest == SubSeq(order, 2, Len(order))
           left == Waiting \ {w}
<1>1. r \in Running /\ CanDispatch
  BY DEF ReleaseToNext, Running
<1>2. /\ order \in Seq(Principals) /\ IsInjective(order)
      /\ DOMAIN order = 1..Len(order) /\ 1 \in DOMAIN order
      /\ p \in Range(order) /\ p \in Principals
  <2>1. order # <<>> /\ order \in Seq(Principals)
    BY <1>1, ReleaseDispatches DEF IInv, TypeOK
  <2>2. DOMAIN order = 1..Len(order) /\ 1 \in DOMAIN order
    BY <2>1, EmptySeq, LenProperties
  <2> QED
    BY <2>1, <2>2 DEF IInv, RotationExact, Range
<1>3. /\ waiters' = [waiters EXCEPT ![p] = remaining]
      /\ order' = Rotated(1, remaining)
      /\ status' = [status EXCEPT ![r] = "released", ![w] = "admitted"]
  BY <1>1, ReleaseDispatches DEF ReleaseToNext
<1>4. /\ waiters[p] \in Seq(Requests) /\ IsInjective(waiters[p])
      /\ waiters[p] # <<>>
      /\ Range(waiters[p]) = {s \in Waiting : Owner[s] = p}
  BY <1>2 DEF IInv, TypeOK, QueuesExact, RotationExact
<1>5. w \in Waiting /\ w \in Requests /\ Owner[w] = p /\ w = waiters[p][1]
  <2>1. 1 \in DOMAIN waiters[p] /\ w = waiters[p][1]
    BY <1>4, EmptySeq, LenProperties DEF FirstWaiter
  <2> QED
    BY <1>4, <2>1 DEF Range, Waiting
<1>6. /\ Running' = (Running \ {r}) \union {w}
      /\ Waiting' = left
  BY <1>1, <1>3, <1>5 DEF IInv, TypeOK, Running, Waiting
<1>7. Promise!First(w)
  <2>1. \A e \in AheadInQueue : e[2] # w
    <3> SUFFICES ASSUME NEW e \in AheadInQueue, e[2] = w PROVE FALSE
      OBVIOUS
    <3>1. Before(waiters[p], e[1], e[2])
      BY <1>5, OrdersAre
    <3> QED
      BY <1>4, <1>5, <3>1, BeforeEntries
  <2>2. \A e \in AheadInRotation : e[2] # Owner[w]
    <3> SUFFICES ASSUME NEW e \in AheadInRotation, e[2] = p PROVE FALSE
      BY <1>5
    <3>1. Before(order, e[1], e[2])
      BY OrdersAre
    <3> QED
      BY <1>2, <3>1, BeforeEntries
  <2> QED
    BY <1>5, <2>1, <2>2 DEF Promise!First
<1>8. AheadInQueue' = Promise!OlderWithin(AheadInQueue, left)
  <2>1. waiters' = [waiters EXCEPT ![Owner[w]] = RemoveFirst(@, w)]
    BY <1>3, <1>5
  <2> HIDE DEF w
  <2> QED
    BY <1>5, <1>6, <2>1, QueueOrderRemoved
<1>9. /\ rest \in Seq(Principals)
      /\ Range(rest) = Range(order) \ {p}
      /\ \A x, y : Before(rest, x, y) <=> Before(order, x, y) /\ x # p /\ y # p
  <2>1. rest = RemoveFirst(order, order[1])
    BY <1>2, TailRemoves
  <2>2. /\ RemoveFirst(order, order[1]) \in Seq(Principals)
        /\ Range(RemoveFirst(order, order[1])) = Range(order) \ {order[1]}
    BY <1>2, RemoveFirstProperties
  <2>3. \A x, y : Before(RemoveFirst(order, p), x, y) <=> Before(order, x, y) /\ x # p /\ y # p
    BY <1>2, BeforeRemoved
  <2> HIDE DEF rest
  <2> QED
    BY <2>1, <2>2, <2>3
<1>10. order' = IF remaining = <<>> THEN rest ELSE Append(rest, p)
  <2>1. CASE remaining = <<>>
    <3>1. order' = RemoveFirst(rest, p)
      BY <1>3, <2>1 DEF Rotated, OrderWithoutIdle
    <3>2. \A j \in DOMAIN rest : rest[j] # p
      BY <1>9 DEF Range
    <3> HIDE DEF rest
    <3>3. RemoveFirst(rest, p) = rest
      BY <3>2, <1>9, LenProperties DEF RemoveFirst
    <3> QED
      BY <2>1, <3>1, <3>3
  <2>2. CASE remaining # <<>>
    BY <1>3, <2>2 DEF Rotated
  <2> QED
    BY <2>1, <2>2
<1>11. AheadInRotation' =
         {e \in Promise!TurnWithin(AheadInRotation, left) : e[1] # p}
           \union (IF p \in Promise!Wanting(left)
                   THEN (Promise!Wanting(left) \ {p}) \X {p} ELSE {})
  <2>1. Promise!Wanting(left) = Range(order')
    BY <1>6, WantingWillBeRotation
  <2>2. \A e \in AheadInRotation :
          e[1] \in Range(order) /\ e[2] \in Range(order) /\ e[2] # p
    BY <1>2, OrdersAre, BeforeEntries
  <2>3. Range(order) \subseteq Principals
    BY <1>2 DEF Range
  <2> HIDE DEF rest, remaining, left
  <2>4. CASE remaining = <<>>
    <3>1. order' = rest
      BY <1>10, <2>4
    <3>2. \A e : e \in AheadInRotation' <=> e \in AheadInRotation /\ e[1] # p
      BY <1>9, <2>2, <3>1, OrdersAre, OrdersWillBe
    <3> HIDE DEF p
    <3>3. \A e : e \in AheadInRotation'
                 <=> e \in {d \in Promise!TurnWithin(AheadInRotation, left) : d[1] # p}
      BY <1>9, <2>1, <2>2, <3>1, <3>2 DEF Promise!TurnWithin
    <3>4. p \notin Promise!Wanting(left)
      BY <1>9, <2>1, <3>1
    <3> QED
      BY <3>3, <3>4
  <2>5. CASE remaining # <<>>
    <3>1. order' = Append(rest, p)
      BY <1>10, <2>5
    <3>2. Range(order') = Range(order)
      <4>1. IsInjective(order') /\ Range(order') = Range(rest) \union {p}
        <5>1. p \notin Range(rest)
          BY <1>9
        <5>2. \A i \in DOMAIN Append(rest, p) :
                 \/ i \in DOMAIN rest /\ Append(rest, p)[i] = rest[i]
                 \/ i = Len(rest) + 1 /\ Append(rest, p)[i] = p
          BY <1>2, <1>9, AppendProperties, LenProperties
        <5>3. /\ \A i \in DOMAIN rest : i \in DOMAIN Append(rest, p) /\ Append(rest, p)[i] = rest[i]
              /\ Len(rest) + 1 \in DOMAIN Append(rest, p)
              /\ Append(rest, p)[Len(rest) + 1] = p
          BY <1>2, <1>9, AppendProperties, LenProperties
        <5>4. Range(Append(rest, p)) = Range(rest) \union {p}
          BY <5>2, <5>3 DEF Range
        <5>5. IsInjective(order')
          BY DEF IInv, RotationExact
        <5> QED
          BY <3>1, <5>4, <5>5
      <4> QED
        BY <1>2, <1>9, <4>1
    <3>3. ASSUME NEW e \in Principals \X Principals
          PROVE  Before(order', e[1], e[2])
                   <=> \/ Before(order, e[1], e[2]) /\ e[1] # p /\ e[2] # p
                       \/ e[1] \in Range(order) \ {p} /\ e[2] = p
      <4>1. Before(Append(rest, p), e[1], e[2])
              <=> Before(rest, e[1], e[2]) \/ (e[1] \in Range(rest) /\ e[2] = p)
        BY <1>2, <1>9, BeforeAppended
      <4> QED
        BY <1>9, <3>1, <4>1
    <3> HIDE DEF p
    <3>4. \A e : e \in (Range(order) \ {p}) \X {p}
                 <=> e \in Principals \X Principals /\ e[1] \in Range(order) \ {p} /\ e[2] = p
      BY <1>2, <2>3
    <3>5. \A e : e \in AheadInRotation'
                 <=> \/ e \in AheadInRotation /\ e[1] # p
                     \/ e \in (Range(order) \ {p}) \X {p}
      BY <2>2, <3>3, <3>4, OrdersAre, OrdersWillBe
    <3>6. \A e : e \in {d \in Promise!TurnWithin(AheadInRotation, left) : d[1] # p}
                 <=> e \in AheadInRotation /\ e[1] # p
      BY <2>1, <2>2, <3>2 DEF Promise!TurnWithin
    <3>7. p \in Promise!Wanting(left)
      BY <1>2, <2>1, <3>2
    <3>8. \A e : e \in AheadInRotation'
                 <=> e \in {d \in Promise!TurnWithin(AheadInRotation, left) : d[1] # p}
                             \union ((Promise!Wanting(left) \ {p}) \X {p})
      BY <2>1, <3>2, <3>5, <3>6
    <3> QED
      BY <3>7, <3>8
  <2> QED
    BY <2>4, <2>5
<1>12. Promise!HandOver(r, w)
  <2> HIDE DEF w, p
  <2> QED
    BY <1>1, <1>5, <1>6, <1>7, <1>8, <1>11 DEF Promise!HandOver
<1> QED
  BY <1>5, <1>12

LEMMA InitPromise == Init => Promise!Init
<1> SUFFICES ASSUME Init PROVE Promise!Init
  OBVIOUS
<1>1. Running = {} /\ Waiting = {}
  BY DEF Init, Running, Waiting
<1>2. AheadInRotation = {}
  BY DEF Init, AheadInRotation
<1>3. AheadInQueue = {}
  BY OwnerAssumption DEF Init, AheadInQueue
<1> QED
  BY <1>1, <1>2, <1>3 DEF Promise!Init

LEMMA NextPromise == IInv /\ IInv' /\ [Next]_vars => [Promise!Next]_(Promise!vars)
<1> SUFFICES ASSUME IInv, IInv', [Next]_vars PROVE [Promise!Next]_(Promise!vars)
  OBVIOUS
<1>1. ASSUME NEW r \in Requests, AcquireAborted(r) \/ AcquireRejected(r)
      PROVE  UNCHANGED Promise!vars
  <2>1. Running' = Running /\ Waiting' = Waiting
    BY <1>1 DEF IInv, TypeOK, AcquireAborted, AcquireRejected, Fresh, Running, Waiting
  <2> QED
    BY <1>1, <2>1, Stutters DEF AcquireAborted, AcquireRejected
<1>2. ASSUME NEW r \in Requests, AcquireAdmitted(r) PROVE Promise!Next
  BY <1>2, AdmittedStarts DEF Promise!Next
<1>3. ASSUME NEW r \in Requests, AcquireQueued(r) PROVE Promise!Next
  BY <1>3, QueuedWaits DEF Promise!Next
<1>4. ASSUME NEW r \in Requests, Timeout(r) \/ Abort(r) PROVE Promise!Next
  BY <1>4, WithdrawGivesUp DEF Timeout, Abort, Promise!Next
<1>5. ASSUME NEW r \in Requests, Release(r) PROVE Promise!Next
  BY <1>5, ReleaseIdleFinishes, ReleaseToNextHandsOver DEF Release, Promise!Next
<1>6. CASE UNCHANGED vars
  <2>1. Running' = Running /\ Waiting' = Waiting
    BY <1>6 DEF vars, Running, Waiting
  <2> QED
    BY <1>6, <2>1, Stutters DEF vars
<1> QED
  BY <1>1, <1>2, <1>3, <1>4, <1>5, <1>6 DEF Next

(* Whatever requests arrive, time out, are aborted or finish, the counters *)
(* and lists of the controller behave as slots handed out in fair order.   *)
THEOREM AdmissionIsFair == Spec => ImplementsFairSlots
<1> QED
  BY Inductive, InitPromise, NextPromise, PTL DEF Spec, ImplementsFairSlots, Promise!Spec

=============================================================================
