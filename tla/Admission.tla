------------------------------ MODULE Admission ------------------------------
(***************************************************************************)
(* The generation admission controller of the inference gateway            *)
(* (src/features/inference-gateway/admission.ts): a counter of running     *)
(* generations, one FIFO of waiters per principal, and a rotation of the   *)
(* principals that have waiters.                                           *)
(*                                                                         *)
(* Every action is one synchronous call of the controller, a lease release *)
(* or a callback (timer, abort listener); JavaScript runs each of them to  *)
(* completion.  A member of Requests stands for one request at a time: a   *)
(* settled or released one may stand for a later request of the same       *)
(* principal, so behaviours are unbounded.                                 *)
(***************************************************************************)
EXTENDS Integers, FiniteSets, SequencesExt

CONSTANTS Principals,               \* the callers the queues are keyed by
          Requests,                 \* request identities
          Owner,                    \* Owner[r]: the principal of request r
          ConcurrencyLimit,         \* GENERATION_CONCURRENCY_LIMIT
          MaxQueued,                \* config.maxQueuedGenerations
          MaxQueuedPerPrincipal     \* config.maxQueuedGenerationsPerPrincipal

ASSUME OwnerAssumption == Owner \in [Requests -> Principals]

ASSUME LimitAssumption == ConcurrencyLimit \in Nat \ {0}

(* What validateConfig demands before the controller exists. *)
ValidConfig(global, perPrincipal) ==
  /\ global \in Nat \ {0}
  /\ perPrincipal \in Nat \ {0}
  /\ perPrincipal <= global

ASSUME ConfigAssumption == ValidConfig(MaxQueued, MaxQueuedPerPrincipal)

VARIABLES active,     \* activeGenerations
          queued,     \* queuedGenerations
          waiters,    \* waitersByPrincipal; an absent key is <<>>
          order,      \* principalOrder
          status      \* what each request was told; "admitted" is an open lease

vars == <<active, queued, waiters, order, status>>

(* "queued" is a waiter with settled = FALSE, its timer armed and its abort *)
(* listener registered; "released" is a lease whose release() has run.      *)
Statuses == {"idle", "queued", "admitted", "rejected", "cancelled",
             "timed_out", "released"}

Init ==
  /\ active = 0
  /\ queued = 0
  /\ waiters = [p \in Principals |-> <<>>]
  /\ order = <<>>
  /\ status = [r \in Requests |-> "idle"]

-----------------------------------------------------------------------------
(* acquire(): a request identity that is not waiting and holds no lease. *)

Fresh(r) == status[r] \notin {"queued", "admitted"}

(* Mutant: each limit admits one more. *)
QueueFullLate(p) == queued > MaxQueued \/ Len(waiters[p]) > MaxQueuedPerPrincipal

QueueFull(p) ==
  \/ queued >= MaxQueued
  \/ Len(waiters[p]) >= MaxQueuedPerPrincipal

(* The signal was aborted before the call: a wait that is already resolved *)
(* as cancelled, and nothing recorded.                                     *)
AcquireAborted(r) ==
  /\ Fresh(r)
  /\ status' = [status EXCEPT ![r] = "cancelled"]
  /\ UNCHANGED <<active, queued, waiters, order>>

AcquireAdmitted(r) ==
  /\ Fresh(r)
  /\ active < ConcurrencyLimit
  /\ active' = active + 1
  /\ status' = [status EXCEPT ![r] = "admitted"]
  /\ UNCHANGED <<queued, waiters, order>>

AcquireRejected(r) ==
  /\ Fresh(r)
  /\ active >= ConcurrencyLimit
  /\ QueueFull(Owner[r])
  /\ status' = [status EXCEPT ![r] = "rejected"]
  /\ UNCHANGED <<active, queued, waiters, order>>

(* A principal joins the rotation with its first waiter. *)
AcquireQueued(r) ==
  /\ Fresh(r)
  /\ active >= ConcurrencyLimit
  /\ ~QueueFull(Owner[r])
  /\ waiters' = [waiters EXCEPT ![Owner[r]] = Append(@, r)]
  /\ order' = IF waiters[Owner[r]] = <<>> THEN Append(order, Owner[r])
                                          ELSE order
  /\ queued' = queued + 1
  /\ status' = [status EXCEPT ![r] = "queued"]
  /\ UNCHANGED active

-----------------------------------------------------------------------------
(* removeWaiter(), from the timer or the abort listener of a waiter.  Both *)
(* are disarmed when the waiter settles, so only a queued request has them.*)

OrderWithoutIdle(o, p, remaining) ==
  IF remaining = <<>> THEN RemoveFirst(o, p) ELSE o

Withdraw(r, outcome) ==
  LET p == Owner[r]
      remaining == RemoveFirst(waiters[p], r)
  IN /\ status[r] = "queued"
     /\ waiters' = [waiters EXCEPT ![p] = remaining]
     /\ order' = OrderWithoutIdle(order, p, remaining)
     /\ queued' = queued - 1
     /\ status' = [status EXCEPT ![r] = outcome]
     /\ UNCHANGED active

Timeout(r) == Withdraw(r, "timed_out")

Abort(r) == Withdraw(r, "cancelled")

-----------------------------------------------------------------------------
(* release() of a lease, and the dispatchNext() it calls.  A second        *)
(* release() of the same lease returns at once: a stuttering step.         *)

(* dispatchNext shifts principals without waiters off the rotation, by     *)
(* recursion, until it finds one it can serve.                             *)
NextTurn(k) ==
  /\ k \in DOMAIN order
  /\ waiters[order[k]] # <<>>
  /\ \A j \in 1..(k - 1) : waiters[order[j]] = <<>>

CanDispatch == active - 1 < ConcurrencyLimit /\ \E k \in DOMAIN order : NextTurn(k)

(* Mutant: the newest waiter of a principal is served. *)
LastWaiter(p) == waiters[p][Len(waiters[p])]

FirstWaiter(p) == Head(waiters[p])

(* Mutant: a principal that still has waiters keeps the next turn. *)
RotatedToFront(k, remaining) ==
  IF remaining = <<>> THEN SubSeq(order, k + 1, Len(order))
                      ELSE SubSeq(order, k, Len(order))

(* The rotation after the principal at its k-th place was served. *)
Rotated(k, remaining) ==
  LET rest == SubSeq(order, k + 1, Len(order))
  IN IF remaining = <<>> THEN OrderWithoutIdle(rest, order[k], remaining)
                         ELSE Append(rest, order[k])

(* Nobody can be served: the slot becomes free. *)
ReleaseIdle(r) ==
  /\ status[r] = "admitted"
  /\ ~CanDispatch
  /\ active' = active - 1
  /\ order' = IF active - 1 >= ConcurrencyLimit THEN order ELSE <<>>
  /\ status' = [status EXCEPT ![r] = "released"]
  /\ UNCHANGED <<queued, waiters>>

(* The slot passes, within the same call, to the first waiter of the       *)
(* principal whose turn it is: active goes down by one and up by one.      *)
ReleaseToNext(r) ==
  /\ status[r] = "admitted"
  /\ CanDispatch
  /\ \E k \in DOMAIN order :
       LET p == order[k]
           remaining == RemoveFirst(waiters[p], FirstWaiter(p))
       IN /\ NextTurn(k)
          /\ waiters' = [waiters EXCEPT ![p] = remaining]
          /\ order' = Rotated(k, remaining)
          /\ status' = [status EXCEPT ![r] = "released",
                                      ![FirstWaiter(p)] = "admitted"]
  /\ queued' = queued - 1
  /\ UNCHANGED active

(* Mutant: release() does not call dispatchNext(). *)
ReleaseWithoutDispatch(r) ==
  /\ status[r] = "admitted"
  /\ active' = active - 1
  /\ status' = [status EXCEPT ![r] = "released"]
  /\ UNCHANGED <<queued, waiters, order>>

Release(r) == ReleaseIdle(r) \/ ReleaseToNext(r)

Next ==
  \E r \in Requests :
    \/ AcquireAborted(r)
    \/ AcquireAdmitted(r)
    \/ AcquireRejected(r)
    \/ AcquireQueued(r)
    \/ Timeout(r)
    \/ Abort(r)
    \/ Release(r)

Spec == Init /\ [][Next]_vars

(* Whoever holds a lease gives it back: the gateway releases on every way  *)
(* out of a request.  Nothing is assumed of timers, callers or arrivals.   *)
Fairness == \A r \in Requests : WF_vars(Release(r))

FairSpec == Spec /\ Fairness

-----------------------------------------------------------------------------
(* Properties. *)

Running == {r \in Requests : status[r] = "admitted"}

Waiting == {r \in Requests : status[r] = "queued"}

(* The state stays in its types, and the counters within the limits the    *)
(* configuration promises.                                                 *)
TypeOK ==
  /\ active \in 0..ConcurrencyLimit
  /\ queued \in 0..MaxQueued
  /\ waiters \in [Principals -> Seq(Requests)]
  /\ \A p \in Principals : Len(waiters[p]) <= MaxQueuedPerPrincipal
  /\ order \in Seq(Principals)
  /\ status \in [Requests -> Statuses]

(* No path loses or double-counts: activeGenerations is the number of      *)
(* leases not yet released and queuedGenerations the number of unsettled   *)
(* waiters, after any interleaving of releases, timers and aborts.         *)
CountersExact ==
  /\ IsFiniteSet(Running) /\ active = Cardinality(Running)
  /\ IsFiniteSet(Waiting) /\ queued = Cardinality(Waiting)

(* The principals' FIFOs together hold exactly the unsettled waiters, each *)
(* once and under its own principal.                                       *)
QueuesExact ==
  \A p \in Principals :
    /\ IsInjective(waiters[p])
    /\ Range(waiters[p]) = {r \in Waiting : Owner[r] = p}

(* The rotation lists exactly the principals with waiters, each once:      *)
(* nobody who waits is forgotten by dispatchNext, nobody gets two turns a  *)
(* round, and the recovery branch of dispatchNext is never needed.         *)
RotationExact ==
  /\ IsInjective(order)
  /\ Range(order) = {p \in Principals : waiters[p] # <<>>}

(* The controller keeps the same books three times, as counters, as queues *)
(* and as a rotation; every arrival, timer, abort and release that may     *)
(* compete for a request leaves all three in agreement, and within the     *)
(* limits.                                                                 *)
BooksAgree == TypeOK /\ CountersExact /\ QueuesExact /\ RotationExact

(* A slot is never idle while somebody waits, so a new request admitted at *)
(* once by acquire() never overtakes a waiter.                             *)
WorkConserving == Waiting # {} => active = ConcurrencyLimit

(* The place of p in the rotation. *)
Place(p) == CHOOSE i \in DOMAIN order : order[i] = p

(* No step moves a waiting principal back in the rotation except the one   *)
(* that serves it, and serving somebody else moves it strictly forward:    *)
(* between two turns of a principal no other principal has two.            *)
RoundRobin ==
  [][\A p \in Principals :
       LET served == \E r \in Waiting : Owner[r] = p /\ status'[r] = "admitted"
           otherServed == \E r \in Waiting : Owner[r] # p /\ status'[r] = "admitted"
       IN waiters[p] # <<>> /\ waiters'[p] # <<>> /\ ~served
            => /\ Place(p)' <= Place(p)
               /\ otherServed => Place(p)' < Place(p)]_vars

(* The controller implements the promise of FairSlots: its lists, read as  *)
(* orders, only ever change the way a fair set of slots allows.            *)
AheadInQueue ==
  {e \in Requests \X Requests :
     /\ Owner[e[1]] = Owner[e[2]]
     /\ \E i, j \in DOMAIN waiters[Owner[e[2]]] :
          /\ i < j
          /\ waiters[Owner[e[2]]][i] = e[1]
          /\ waiters[Owner[e[2]]][j] = e[2]}

AheadInRotation ==
  {e \in Principals \X Principals :
     \E i, j \in DOMAIN order : i < j /\ order[i] = e[1] /\ order[j] = e[2]}

Promise == INSTANCE FairSlots WITH
             Slots <- ConcurrencyLimit, running <- Running, waiting <- Waiting,
             older <- AheadInQueue, turn <- AheadInRotation

ImplementsFairSlots == Promise!Spec

(* A waiter does not starve: whatever arrives, aborts or times out, every  *)
(* queued request leaves the queue as long as leases are given back, even  *)
(* if its own timer never fires.                                           *)
NoStarvation == \A r \in Requests : status[r] = "queued" ~> status[r] # "queued"

=============================================================================
