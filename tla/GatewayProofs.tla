---------------------------- MODULE GatewayProofs ----------------------------
(***************************************************************************)
(* Proofs about the gateway process, for every set of principals and       *)
(* requests, every limit and every valid configuration.  What the shared   *)
(* controller keeps for itself is proved in AdmissionProofs; here its      *)
(* theorems are used as they stand (module AP).  The last part is about    *)
(* Replies: what its clients are told of an error of the backend.          *)
(***************************************************************************)
EXTENDS Gateway, Replies, SequenceTheorems, FiniteSetTheorems, TLAPS

AP == INSTANCE AdmissionProofs

-----------------------------------------------------------------------------
(* The inductive invariant, one handler q at a time.  st is what the       *)
(* controller says of its request.                                         *)

Told(q) == ToSet(q.log)

(* The log: a start, then events of growing rank; the rank bounds the      *)
(* length.                                                                 *)
InOrder(log) ==
  /\ log # <<>> => log[1] = "request_started"
  /\ \A i, j \in DOMAIN log : i < j => EventRank[log[i]] < EventRank[log[j]]
  /\ \A i \in DOMAIN log : i <= EventRank[log[i]]

(* What has been told agrees with where the handler is. *)
StoryOf(q) ==
  /\ InOrder(q.log)
  /\ q.log # <<>> => ("terminal" \in Told(q) <=> q.outcome # "none")
  /\ "queued" \in Told(q) => q.pc = "waiting" \/ Told(q) \intersect {"admitted", "refused"} # {}
  /\ "first_output" \in Told(q) => "admitted" \in Told(q)
  /\ "admitted" \in Told(q) => q.kind = "generation"
  /\ q.lease <=> "admitted" \in Told(q) /\ q.outcome = "none"

Working == {"fetching", "errorBody", "errorFailed", "errorRead", "relay", "cancelling"}

(* What each await implies. *)
PlaceOf(q) ==
  /\ q.pc \in {"absent", "authenticating"} => q.log = <<>>
  /\ q.pc \in {"absent", "authenticating", "waiting"} =>
       q.outcome = "none" /\ q.upstream = "none" /\ ~q.listening
  /\ q.pc = "waiting" => q.kind = "generation" /\ Told(q) = {"request_started", "queued"}
  /\ q.pc \in Working =>
       /\ q.log # <<>>
       /\ q.kind = "generation" => "admitted" \in Told(q)
       /\ q.pc # "cancelling" => q.outcome = "none"
  /\ q.pc = "cancelling" => q.stopped
  /\ q.pc = "done" => q.outcome # "none"
  /\ q.pull => q.pc \in {"relay", "cancelling", "done"}
  /\ q.upstream = "open" =>
       /\ q.pc \in Working
       /\ q.listening \/ q.stopped
  /\ q.listening => ~q.aborted

(* What the controller holds for the request, its handler knows of. *)
HoldOf(q, st) ==
  /\ st = "queued" => q.pc = "waiting" /\ ~q.aborted
  /\ st = "admitted" => q.outcome = "none" /\ (q.lease \/ q.pc = "waiting")
  /\ q.lease => st = "admitted"
  /\ q.pc = "waiting" /\ st = "cancelled" => q.aborted

HandlerOK(q, st) == q \in Handlers /\ StoryOf(q) /\ PlaceOf(q) /\ HoldOf(q, st)

IInv ==
  /\ AP!IInv
  /\ backendOk \in BOOLEAN /\ admissionOk \in BOOLEAN
  /\ g \in [Requests -> Handlers]
  /\ \A r \in Requests : HandlerOK(g[r], status[r])

-----------------------------------------------------------------------------
(* The log and the lifecycle object.                                       *)

LEMMA RankValues ==
  /\ EventRank["request_started"] = 1
  /\ EventRank["queued"] = 2
  /\ EventRank["admitted"] = 3
  /\ EventRank["refused"] = 3
  /\ EventRank["first_output"] = 4
  /\ EventRank["terminal"] = 5
<1>1. EventRank["request_started"] = 1
  BY Zenon DEF EventRank, Events
<1>2. EventRank["queued"] = 2
  BY Zenon DEF EventRank, Events
<1>3. EventRank["admitted"] = 3
  BY Zenon DEF EventRank, Events
<1>4. EventRank["refused"] = 3
  BY Zenon DEF EventRank, Events
<1>5. EventRank["first_output"] = 4
  BY Zenon DEF EventRank, Events
<1>6. EventRank["terminal"] = 5
  BY Zenon DEF EventRank, Events
<1> QED
  BY <1>1, <1>2, <1>3, <1>4, <1>5, <1>6

LEMMA RankType == \A e \in Events : EventRank[e] \in 1..5
BY RankValues DEF Events

LEMMA EmptyLog ==
  /\ <<>> \in Seq(Events) /\ ToSet(<<>>) = {} /\ InOrder(<<>>)
  /\ \A log \in Seq(Events) : log = <<>> <=> ToSet(log) = {}
<1>1. <<>> \in Seq(Events) /\ DOMAIN <<>> = {}
  BY EmptySeq
<1>2. ASSUME NEW log \in Seq(Events), log # <<>>
      PROVE  ToSet(log) # {}
  <2>1. 1 \in DOMAIN log
    BY <1>2, EmptySeq, LenProperties
  <2> QED
    BY <2>1 DEF ToSet
<1> QED
  BY <1>1, <1>2 DEF ToSet, InOrder

(* A log that is in order stays so when an event that ranks above all told *)
(* ones is appended.                                                       *)
LEMMA AppendInOrder ==
  ASSUME NEW log \in Seq(Events), InOrder(log), NEW e \in Events,
         \A x \in ToSet(log) : EventRank[x] < EventRank[e],
         log = <<>> => e = "request_started"
  PROVE  /\ Append(log, e) \in Seq(Events)
         /\ Append(log, e) # <<>>
         /\ InOrder(Append(log, e))
         /\ ToSet(Append(log, e)) = ToSet(log) \union {e}
<1> DEFINE t == Append(log, e)
           n == Len(log)
<1>1. /\ n \in Nat /\ DOMAIN log = 1..n
      /\ t \in Seq(Events) /\ Len(t) = n + 1 /\ DOMAIN t = 1..(n + 1)
      /\ \A i \in 1..n : t[i] = log[i] /\ log[i] \in Events
      /\ t[n + 1] = e
  BY LenProperties, AppendProperties, ElementOfSeq
<1>2. n = 0 <=> log = <<>>
  BY <1>1, EmptySeq
<1> HIDE DEF t, n
<1>3. ToSet(t) = ToSet(log) \union {e}
  BY <1>1 DEF ToSet
<1>4. t # <<>>
  BY <1>3, EmptyLog
<1>5. t[1] = "request_started"
  BY <1>1, <1>2 DEF InOrder
<1>6. \A i \in 1..n : EventRank[log[i]] < EventRank[e] /\ i <= EventRank[log[i]]
  BY <1>1 DEF ToSet, InOrder
<1>7. \A x \in Events : EventRank[x] \in 1..5
  BY RankType
<1>8. ASSUME NEW i \in 1..(n + 1), NEW j \in 1..(n + 1), i < j
      PROVE  EventRank[t[i]] < EventRank[t[j]]
  <2>1. i \in 1..n
    BY <1>1, <1>8
  <2>2. CASE j = n + 1
    BY <1>1, <1>6, <2>1, <2>2
  <2>3. CASE j # n + 1
    <3>1. j \in 1..n
      BY <1>1, <2>3
    <3> QED
      BY <1>1, <1>8, <2>1, <3>1 DEF InOrder
  <2> QED
    BY <2>2, <2>3
<1>9. ASSUME NEW i \in 1..(n + 1)
      PROVE  i <= EventRank[t[i]]
  <2>1. CASE i \in 1..n
    BY <1>1, <1>6, <2>1
  <2>2. CASE i = n + 1 /\ n = 0
    BY <1>1, <1>7, <2>2
  <2>3. CASE i = n + 1 /\ n # 0
    <3>1. n \in 1..n
      BY <1>1, <2>3
    <3>2. n <= EventRank[log[n]] /\ EventRank[log[n]] < EventRank[e]
      BY <1>6, <3>1
    <3>3. EventRank[log[n]] \in Int /\ EventRank[e] \in Int
      BY <1>1, <1>7, <3>1
    <3> QED
      BY <1>1, <2>3, <3>2, <3>3
  <2> QED
    BY <1>1, <2>1, <2>2, <2>3
<1>10. InOrder(t)
  BY <1>1, <1>5, <1>8, <1>9 DEF InOrder
<1> QED
  BY <1>1, <1>3, <1>4, <1>10 DEF t

(* The rank bounds the length of a log. *)
LEMMA ShortLog ==
  ASSUME NEW log \in Seq(Events), InOrder(log)
  PROVE  Len(log) <= 5
<1>1. Len(log) \in Nat /\ DOMAIN log = 1..Len(log)
  BY LenProperties
<1>2. CASE Len(log) = 0
  BY <1>2
<1>3. CASE Len(log) # 0
  <2>1. Len(log) \in 1..Len(log)
    BY <1>1, <1>3
  <2>2. Len(log) <= EventRank[log[Len(log)]] /\ log[Len(log)] \in Events
    BY <1>1, <2>1, ElementOfSeq DEF InOrder
  <2> QED
    BY <1>1, <2>2, RankType
<1> QED
  BY <1>2, <1>3

(* observe() with an observer attached. *)
LEMMA ObservedTells ==
  ASSUME NEW q \in Handlers, InOrder(q.log), q.log # <<>>, NEW e \in Events,
         \A x \in Told(q) : EventRank[x] < EventRank[e]
  PROVE  /\ Observed(q, e) \in Seq(Events)
         /\ Observed(q, e) # <<>>
         /\ InOrder(Observed(q, e))
         /\ ToSet(Observed(q, e)) = Told(q) \union {e}
<1>1. q.log \in Seq(Events)
  BY DEF Handlers
<1>2. Observed(q, e) = Append(q.log, e)
  BY DEF Observed
<1> QED
  BY <1>1, <1>2, AppendInOrder DEF Told

(* recordFirstOutput(): at most one event more. *)
LEMMA FirstOutputIs ==
  ASSUME NEW q \in Handlers, StoryOf(q),
         q.outcome = "none" => q.log # <<>> /\ "admitted" \in Told(q)
  PROVE  /\ FirstOutput(q) \in Handlers
         /\ StoryOf(FirstOutput(q))
         /\ FirstOutput(q) = [q EXCEPT !.log = FirstOutput(q).log]
         /\ FirstOutput(q).log = <<>> <=> q.log = <<>>
         /\ Told(q) \subseteq Told(FirstOutput(q))
<1>1. CASE "first_output" \in ToSet(q.log) \/ q.outcome # "none"
  <2>1. FirstOutput(q) = q /\ q = [q EXCEPT !.log = q.log]
    BY <1>1 DEF FirstOutput, Handlers
  <2> QED
    BY <2>1
<1>2. CASE ~("first_output" \in ToSet(q.log) \/ q.outcome # "none")
  <2> DEFINE log == Observed(q, "first_output")
  <2>1. FirstOutput(q) = [q EXCEPT !.log = log]
    BY <1>2 DEF FirstOutput
  <2>2. /\ q.log # <<>> /\ "admitted" \in Told(q)
        /\ "first_output" \notin Told(q) /\ "terminal" \notin Told(q)
    BY <1>2 DEF StoryOf, Told
  <2>3. Told(q) \subseteq Events
    BY ElementOfSeq, LenProperties DEF Told, ToSet, Handlers
  <2>4. \A x \in Told(q) : EventRank[x] < EventRank["first_output"]
    BY <2>2, <2>3, RankValues DEF Events
  <2>5. /\ log \in Seq(Events) /\ log # <<>> /\ InOrder(log)
        /\ ToSet(log) = Told(q) \union {"first_output"}
    BY <2>2, <2>4, ObservedTells DEF StoryOf, Events
  <2> HIDE DEF log
  <2>6. FirstOutput(q) \in Handlers /\ FirstOutput(q).log = log
    BY <2>1, <2>5 DEF Handlers
  <2>7. Told(FirstOutput(q)) = Told(q) \union {"first_output"}
    BY <2>5, <2>6 DEF Told
  <2>8. /\ FirstOutput(q).pc = q.pc /\ FirstOutput(q).kind = q.kind
        /\ FirstOutput(q).lease = q.lease /\ FirstOutput(q).outcome = q.outcome
    BY <2>1 DEF Handlers
  <2>9. StoryOf(FirstOutput(q))
    BY <2>2, <2>5, <2>6, <2>7, <2>8 DEF StoryOf
  <2> QED
    BY <2>1, <2>2, <2>5, <2>6, <2>7, <2>9
<1> QED
  BY <1>1, <1>2

(* finalize(): the first result stays, the lease is gone, the end is told. *)
LEMMA FinalizedIs ==
  ASSUME NEW q \in Handlers, StoryOf(q), q.pc # "waiting",
         NEW result \in Results \ {"none"}
  PROVE  /\ Finalized(q, result) \in Handlers
         /\ StoryOf(Finalized(q, result))
         /\ Finalized(q, result) =
              [q EXCEPT !.outcome = IF q.outcome = "none" THEN result ELSE q.outcome,
                        !.lease = FALSE,
                        !.log = Finalized(q, result).log]
         /\ Finalized(q, result).log = <<>> <=> q.log = <<>>
         /\ Told(q) \subseteq Told(Finalized(q, result))
<1> DEFINE f == Finalized(q, result)
<1>1. CASE q.outcome # "none"
  <2>1. f = q /\ q.lease = FALSE
    BY <1>1 DEF Finalized, StoryOf, Handlers
  <2>2. q = [q EXCEPT !.outcome = q.outcome, !.lease = FALSE, !.log = q.log]
    BY <2>1 DEF Handlers
  <2> QED
    BY <1>1, <2>1, <2>2
<1>2. CASE q.outcome = "none"
  <2> DEFINE log == Observed(q, "terminal")
  <2>1. f = [q EXCEPT !.outcome = result, !.lease = FALSE, !.log = log]
    BY <1>2 DEF Finalized
  <2>2. Told(q) \subseteq Events
    BY ElementOfSeq, LenProperties DEF Told, ToSet, Handlers
  <2>3. /\ log \in Seq(Events) /\ InOrder(log)
        /\ log = <<>> <=> q.log = <<>>
        /\ ToSet(log) = IF q.log = <<>> THEN Told(q) ELSE Told(q) \union {"terminal"}
    <3>1. CASE q.log = <<>>
      BY <3>1, EmptyLog DEF Observed, Told
    <3>2. CASE q.log # <<>>
      <4>1. "terminal" \notin Told(q)
        BY <1>2, <3>2 DEF StoryOf
      <4>2. \A x \in Told(q) : EventRank[x] < EventRank["terminal"]
        BY <2>2, <4>1, RankValues DEF Events
      <4> QED
        BY <3>2, <4>2, ObservedTells DEF StoryOf, Events
    <3> QED
      BY <3>1, <3>2
  <2> HIDE DEF log
  <2>4. /\ f \in Handlers /\ f.log = log /\ f.pc = q.pc /\ f.kind = q.kind
        /\ f.lease = FALSE /\ f.outcome = result
    BY <2>1, <2>3 DEF Handlers
  <2> HIDE DEF f
  <2>5. Told(f) = IF q.log = <<>> THEN Told(q) ELSE Told(q) \union {"terminal"}
    BY <2>3, <2>4 DEF Told
  <2>6. q.log = <<>> => Told(q) = {}
    BY EmptyLog DEF Told
  <2>7. StoryOf(f)
    <3>1. f.log # <<>> => ("terminal" \in Told(f) <=> f.outcome # "none")
      BY <2>3, <2>4, <2>5
    <3>2. "queued" \in Told(f) => Told(f) \intersect {"admitted", "refused"} # {}
      BY <2>5 DEF StoryOf
    <3>3. /\ "first_output" \in Told(f) => "admitted" \in Told(f)
          /\ "admitted" \in Told(f) => f.kind = "generation"
          /\ f.lease <=> "admitted" \in Told(f) /\ f.outcome = "none"
      BY <2>4, <2>5 DEF StoryOf
    <3> QED
      BY <2>3, <2>4, <3>1, <3>2, <3>3 DEF StoryOf
  <2> QED
    BY <1>2, <2>1, <2>3, <2>4, <2>5, <2>7 DEF f
<1> QED
  BY <1>1, <1>2

-----------------------------------------------------------------------------
(* The controller, as the gateway uses it.                                 *)

(* Both instances of the controller say the same. *)
LEMMA SameController ==
  /\ A!Init <=> AP!Init
  /\ A!TypeOK <=> AP!TypeOK
  /\ \A r : A!AcquireAdmitted(r) <=> AP!AcquireAdmitted(r)
  /\ \A r : A!AcquireRejected(r) <=> AP!AcquireRejected(r)
  /\ \A r : A!AcquireQueued(r) <=> AP!AcquireQueued(r)
  /\ \A r : A!Timeout(r) <=> AP!Timeout(r)
  /\ \A r : A!Abort(r) <=> AP!Abort(r)
  /\ \A r : A!Release(r) <=> AP!Release(r)
<1>1. A!Init <=> AP!Init
  BY DEF A!Init, AP!Init
<1>2. A!TypeOK <=> AP!TypeOK
  BY DEF A!TypeOK, AP!TypeOK, A!Statuses, AP!Statuses
<1>3. \A s, e : A!RemoveFirst(s, e) = AP!RemoveFirst(s, e)
  BY DEF A!RemoveFirst, AP!RemoveFirst, A!RemoveAt, AP!RemoveAt,
         A!SelectInSeq, AP!SelectInSeq, A!Min, AP!Min
<1>4. \A r : A!AcquireAdmitted(r) <=> AP!AcquireAdmitted(r)
  BY DEF A!AcquireAdmitted, AP!AcquireAdmitted, A!Fresh, AP!Fresh
<1>5. \A r : A!AcquireRejected(r) <=> AP!AcquireRejected(r)
  BY DEF A!AcquireRejected, AP!AcquireRejected, A!Fresh, AP!Fresh,
         A!QueueFull, AP!QueueFull
<1>6. \A r : A!AcquireQueued(r) <=> AP!AcquireQueued(r)
  BY DEF A!AcquireQueued, AP!AcquireQueued, A!Fresh, AP!Fresh,
         A!QueueFull, AP!QueueFull
<1>7. \A r, outcome : A!Withdraw(r, outcome) <=> AP!Withdraw(r, outcome)
  BY <1>3 DEF A!Withdraw, AP!Withdraw, A!OrderWithoutIdle, AP!OrderWithoutIdle
<1>8. \A r : A!ReleaseIdle(r) <=> AP!ReleaseIdle(r)
  BY DEF A!ReleaseIdle, AP!ReleaseIdle, A!CanDispatch, AP!CanDispatch,
         A!NextTurn, AP!NextTurn
<1>9. \A r : A!ReleaseToNext(r) <=> AP!ReleaseToNext(r)
  <2>1. \A k, remaining : A!Rotated(k, remaining) = AP!Rotated(k, remaining)
    BY <1>3 DEF A!Rotated, AP!Rotated, A!OrderWithoutIdle, AP!OrderWithoutIdle
  <2> QED
    BY <1>3, <2>1
    DEF A!ReleaseToNext, AP!ReleaseToNext, A!CanDispatch, AP!CanDispatch,
        A!NextTurn, AP!NextTurn, A!FirstWaiter, AP!FirstWaiter
<1> QED
  BY <1>1, <1>2, <1>4, <1>5, <1>6, <1>7, <1>8, <1>9
  DEF A!Timeout, AP!Timeout, A!Abort, AP!Abort, A!Release, AP!Release

(* What AdmissionProofs assumes of the constants holds here. *)
LEMMA ControllerConstants ==
  /\ Owner \in [Requests -> Principals]
  /\ ConcurrencyLimit \in Nat \ {0}
  /\ AP!ValidConfig(MaxQueued, MaxQueuedPerPrincipal)
BY ControllerAssumption DEF A!ValidConfig, AP!ValidConfig

LEMMA ControllerStep ==
  ASSUME AP!IInv, [AP!Next]_controller
  PROVE  AP!IInv'
BY ControllerConstants, AP!NextIInv DEF AP!vars, controller

(* A waiter that a release serves learns it; nobody else is told anything. *)
UnlessServed(x) == status'[x] = status[x] \/ (status[x] = "queued" /\ status'[x] = "admitted")

LEMMA ReleaseTells ==
  ASSUME AP!IInv, NEW r \in Requests, A!Release(r)
  PROVE  /\ AP!IInv'
         /\ status[r] = "admitted" /\ status'[r] = "released"
         /\ \A x \in Requests \ {r} : UnlessServed(x)
<1>1. AP!ReleaseIdle(r) \/ AP!ReleaseToNext(r)
  BY SameController DEF AP!Release
<1>2. status \in [Requests -> AP!Statuses]
  BY DEF AP!IInv, AP!TypeOK
<1>3. CASE AP!ReleaseIdle(r)
  <2>1. status[r] = "admitted" /\ status' = [status EXCEPT ![r] = "released"]
    BY <1>3 DEF AP!ReleaseIdle
  <2> QED
    BY <1>1, <1>2, <2>1, ControllerStep DEF AP!Next, AP!Release, UnlessServed
<1>4. CASE AP!ReleaseToNext(r)
  <2>1. PICK w \in AP!Waiting :
          status' = [status EXCEPT ![r] = "released", ![w] = "admitted"]
    BY <1>4, ControllerConstants, AP!ReleaseServesWaiter
  <2>2. status[r] = "admitted" /\ status[w] = "queued" /\ w \in Requests
    BY <1>4, <2>1 DEF AP!ReleaseToNext, AP!Waiting
  <2> QED
    BY <1>1, <1>2, <2>1, <2>2, ControllerStep DEF AP!Next, AP!Release, UnlessServed
<1> QED
  BY <1>1, <1>3, <1>4

(* acquire(), the timer and the abort listener tell one request only. *)
LEMMA OneIsTold ==
  ASSUME AP!IInv, NEW r \in Requests
  PROVE  /\ A!AcquireAdmitted(r) => AP!IInv' /\ status' = [status EXCEPT ![r] = "admitted"]
         /\ A!AcquireRejected(r) => AP!IInv' /\ status' = [status EXCEPT ![r] = "rejected"]
         /\ A!AcquireQueued(r) => AP!IInv' /\ status' = [status EXCEPT ![r] = "queued"]
         /\ A!Timeout(r) =>
              AP!IInv' /\ status[r] = "queued" /\ status' = [status EXCEPT ![r] = "timed_out"]
         /\ A!Abort(r) => AP!IInv' /\ status' = [status EXCEPT ![r] = "cancelled"]
<1>1. /\ AP!AcquireAdmitted(r) \/ AP!AcquireRejected(r) \/ AP!AcquireQueued(r)
           \/ AP!Timeout(r) \/ AP!Abort(r) => AP!IInv'
  BY ControllerStep DEF AP!Next
<1> QED
  BY <1>1, SameController
  DEF AP!AcquireAdmitted, AP!AcquireRejected, AP!AcquireQueued, AP!Timeout, AP!Abort,
      AP!Withdraw

-----------------------------------------------------------------------------
(* One handler moves; the controller may move with it.                     *)

(* A waiter that was served is still in place. *)
LEMMA OthersStay ==
  ASSUME NEW x, NEW q, HandlerOK(q, status[x]), UnlessServed(x)
  PROVE  HandlerOK(q, status'[x])
<1>1. CASE status'[x] = status[x]
  BY <1>1
<1>2. CASE status[x] = "queued" /\ status'[x] = "admitted"
  BY <1>2 DEF UnlessServed, HandlerOK, HoldOf, PlaceOf
<1> QED
  BY <1>1, <1>2 DEF UnlessServed

LEMMA HandlerMoves ==
  ASSUME IInv, AP!IInv', UNCHANGED <<backendOk, admissionOk>>,
         NEW r \in Requests, NEW q, g' = [g EXCEPT ![r] = q],
         HandlerOK(q, status'[r]),
         \A x \in Requests \ {r} : UnlessServed(x)
  PROVE  IInv'
<1>1. \A x \in Requests : HandlerOK(g'[x], status'[x])
  <2> TAKE x \in Requests
  <2>1. CASE x = r
    BY <2>1 DEF IInv
  <2>2. CASE x # r
    BY <2>2, OthersStay DEF IInv
  <2> QED
    BY <2>1, <2>2
<1>2. g' \in [Requests -> Handlers]
  BY DEF IInv, HandlerOK
<1> QED
  BY <1>1, <1>2 DEF IInv

(* The same with a controller that stands still. *)
LEMMA HandlerAlone ==
  ASSUME IInv, UNCHANGED <<controller, backendOk, admissionOk>>,
         NEW r \in Requests, NEW q, g' = [g EXCEPT ![r] = q],
         HandlerOK(q, status[r])
  PROVE  IInv'
<1>1. AP!IInv'
  BY ControllerStep DEF IInv
<1>2. status' = status
  BY DEF controller
<1>3. \A x \in Requests \ {r} : UnlessServed(x)
  BY <1>2 DEF UnlessServed
<1>4. HandlerOK(q, status'[r])
  BY <1>2
<1> HIDE DEF IInv
<1> QED
  BY <1>1, <1>3, <1>4, HandlerMoves

(* And with a controller that tells only r something. *)
LEMMA HandlerTold ==
  ASSUME IInv, AP!IInv', UNCHANGED <<backendOk, admissionOk>>,
         NEW r \in Requests, NEW q, g' = [g EXCEPT ![r] = q],
         NEW st, status' = [status EXCEPT ![r] = st],
         HandlerOK(q, st)
  PROVE  IInv'
<1>1. status \in [Requests -> AP!Statuses]
  BY DEF IInv, AP!IInv, AP!TypeOK
<1>2. status'[r] = st /\ \A x \in Requests \ {r} : UnlessServed(x)
  BY <1>1 DEF UnlessServed
<1> HIDE DEF IInv
<1> QED
  BY <1>2, HandlerMoves

(* What a handler must be for finalize() to be called on it. *)
Ending(q, st) ==
  /\ q \in Handlers
  /\ StoryOf(q)
  /\ q.pc \in {"done", "cancelling"}
  /\ q.pc = "cancelling" =>
       /\ q.stopped /\ q.log # <<>>
       /\ q.kind = "generation" => "admitted" \in Told(q)
  /\ q.upstream = "open" => q.pc = "cancelling"
  /\ ~q.listening
  /\ st # "queued"
  /\ st = "admitted" <=> q.lease

LEMMA EndsKeeps ==
  ASSUME IInv, UNCHANGED <<backendOk, admissionOk>>,
         NEW r \in Requests, NEW q, NEW result \in Results \ {"none"},
         Ending(q, status[r]), Ends(r, q, result)
  PROVE  IInv'
<1> DEFINE f == Finalized(q, result)
<1>1. /\ f \in Handlers
      /\ StoryOf(f)
      /\ f = [q EXCEPT !.outcome = IF q.outcome = "none" THEN result ELSE q.outcome,
                       !.lease = FALSE, !.log = f.log]
      /\ f.log = <<>> <=> q.log = <<>>
      /\ Told(q) \subseteq Told(f)
  BY FinalizedIs DEF Ending
<1>2. g' = [g EXCEPT ![r] = f]
  BY DEF Ends
<1> HIDE DEF f
<1>3. /\ f.pc = q.pc /\ f.kind = q.kind /\ f.stopped = q.stopped /\ f.listening = q.listening
      /\ f.upstream = q.upstream /\ f.aborted = q.aborted
      /\ f.outcome # "none" /\ f.lease = FALSE
  BY <1>1 DEF Ending, Handlers
<1>4. PlaceOf(f)
  BY <1>1, <1>3 DEF Ending, PlaceOf, Working
<1>5. ASSUME NEW st, st # "queued", st # "admitted"
      PROVE  HandlerOK(f, st)
  BY <1>1, <1>3, <1>4, <1>5 DEF HandlerOK, HoldOf, Ending
<1>6. CASE q.lease /\ q.outcome = "none"
  <2>1. /\ AP!IInv' /\ status'[r] = "released"
        /\ \A x \in Requests \ {r} : UnlessServed(x)
    BY <1>6, ReleaseTells DEF Ends, IInv
  <2> QED
    BY <1>2, <1>5, <2>1, HandlerMoves
<1>7. CASE ~(q.lease /\ q.outcome = "none")
  <2>1. UNCHANGED controller
    BY <1>7 DEF Ends
  <2>2. status[r] # "admitted" /\ status[r] # "queued"
    BY <1>7 DEF Ending, StoryOf
  <2> QED
    BY <1>2, <1>5, <2>1, <2>2, HandlerAlone
<1> QED
  BY <1>6, <1>7

-----------------------------------------------------------------------------
(* From arrival to the await of the backend.                               *)

(* What IInv says of one handler. *)
LEMMA OfHandler ==
  ASSUME IInv, NEW r \in Requests
  PROVE  /\ g[r] \in Handlers /\ g \in [Requests -> Handlers]
         /\ StoryOf(g[r]) /\ PlaceOf(g[r]) /\ HoldOf(g[r], status[r])
BY DEF IInv, HandlerOK

(* A handler that authenticates has told nothing and holds nothing. *)
LEMMA Authenticating ==
  ASSUME IInv, NEW r \in Requests, g[r].pc = "authenticating"
  PROVE  /\ g[r].log = <<>> /\ Told(g[r]) = {}
         /\ g[r].outcome = "none" /\ ~g[r].lease
         /\ g[r].upstream = "none" /\ ~g[r].listening /\ ~g[r].pull
         /\ status[r] # "queued" /\ status[r] # "admitted"
BY OfHandler, EmptyLog DEF PlaceOf, StoryOf, HoldOf, Told

LEMMA StartedIs ==
  ASSUME IInv, NEW r \in Requests, g[r].pc = "authenticating"
  PROVE  /\ Started(r) \in Handlers
         /\ Started(r) = [g[r] EXCEPT !.log = <<"request_started">>]
         /\ Started(r).log # <<>> /\ Told(Started(r)) = {"request_started"}
         /\ InOrder(Started(r).log)
         /\ StoryOf(Started(r))
<1> DEFINE log == <<"request_started">>
<1>1. log = Append(<<>>, "request_started")
  OBVIOUS
<1>2. /\ log \in Seq(Events) /\ log # <<>> /\ InOrder(log)
      /\ ToSet(log) = {"request_started"}
  <2>1. /\ <<>> \in Seq(Events) /\ InOrder(<<>>) /\ ToSet(<<>>) = {}
        /\ "request_started" \in Events
    BY EmptyLog DEF Events
  <2> DEFINE t == Append(<<>>, "request_started")
  <2>2. /\ t \in Seq(Events) /\ t # <<>> /\ InOrder(t)
        /\ ToSet(t) = ToSet(<<>>) \union {"request_started"}
    BY <2>1, AppendInOrder
  <2> HIDE DEF log, t
  <2>3. log = t
    BY <1>1 DEF t
  <2> QED
    BY <2>1, <2>2, <2>3
<1> HIDE DEF log
<1>3. Started(r) = [g[r] EXCEPT !.log = log]
  BY DEF Started, log
<1>4. /\ Started(r) \in Handlers /\ Started(r).log = log
      /\ Started(r).outcome = "none" /\ Started(r).lease = FALSE
  BY <1>2, <1>3, OfHandler, Authenticating DEF Handlers
<1>5. Told(Started(r)) = {"request_started"}
  BY <1>2, <1>4 DEF Told
<1> QED
  BY <1>2, <1>3, <1>4, <1>5 DEF StoryOf, log

(* The observer is told of the admission before the backend is called. *)
LEMMA AdmittedIs ==
  ASSUME NEW q \in Handlers, InOrder(q.log), q.log # <<>>,
         Told(q) \subseteq {"request_started", "queued"},
         q.kind = "generation", q.outcome = "none"
  PROVE  /\ Admitted(q) \in Handlers
         /\ Admitted(q) = [q EXCEPT !.lease = TRUE, !.log = Admitted(q).log]
         /\ Admitted(q).log # <<>> /\ "admitted" \in Told(Admitted(q))
         /\ StoryOf(Admitted(q))
<1> DEFINE log == Observed(q, "admitted")
<1>1. \A x \in Told(q) : EventRank[x] < EventRank["admitted"]
  BY RankValues
<1>2. /\ log \in Seq(Events) /\ log # <<>> /\ InOrder(log)
      /\ ToSet(log) = Told(q) \union {"admitted"}
  BY <1>1, ObservedTells DEF Events
<1> HIDE DEF log
<1>3. Admitted(q) = [q EXCEPT !.lease = TRUE, !.log = log]
  BY DEF Admitted, log
<1>4. /\ Admitted(q) \in Handlers /\ Admitted(q).log = log /\ Admitted(q).lease = TRUE
      /\ Admitted(q).outcome = "none" /\ Admitted(q).kind = "generation"
  BY <1>2, <1>3 DEF Handlers
<1>5. Told(Admitted(q)) = Told(q) \union {"admitted"}
  BY <1>2, <1>4 DEF Told
<1>6. StoryOf(Admitted(q))
  BY <1>2, <1>4, <1>5 DEF StoryOf
<1> QED
  BY <1>2, <1>3, <1>4, <1>5, <1>6

LEMMA RefusedIs ==
  ASSUME NEW q \in Handlers, InOrder(q.log), q.log # <<>>,
         Told(q) \subseteq {"request_started", "queued"},
         q.outcome = "none", ~q.lease
  PROVE  /\ Refused(q) \in Handlers
         /\ Refused(q) = [q EXCEPT !.pc = "done", !.log = Refused(q).log]
         /\ StoryOf(Refused(q))
<1> DEFINE log == Observed(q, "refused")
<1>1. \A x \in Told(q) : EventRank[x] < EventRank["refused"]
  BY RankValues
<1>2. /\ log \in Seq(Events) /\ log # <<>> /\ InOrder(log)
      /\ ToSet(log) = Told(q) \union {"refused"}
  BY <1>1, ObservedTells DEF Events
<1> HIDE DEF log
<1>3. Refused(q) = [q EXCEPT !.pc = "done", !.log = log]
  BY DEF Refused, log
<1>4. /\ Refused(q) \in Handlers /\ Refused(q).log = log /\ Refused(q).lease = FALSE
      /\ Refused(q).outcome = "none"
  BY <1>2, <1>3 DEF Handlers
<1>5. Told(Refused(q)) = Told(q) \union {"refused"}
  BY <1>2, <1>4 DEF Told
<1>6. StoryOf(Refused(q))
  BY <1>2, <1>4, <1>5 DEF StoryOf
<1> QED
  BY <1>2, <1>3, <1>4, <1>5, <1>6

(* An exchange is opened only for a client that is listened to. *)
LEMMA ForwardedKeeps ==
  ASSUME NEW q \in Handlers, StoryOf(q), q.log # <<>>, q.outcome = "none",
         q.kind = "generation" => "admitted" \in Told(q),
         "queued" \in Told(q) => "admitted" \in Told(q),
         q.upstream = "none", ~q.listening, ~q.pull,
         NEW st, st # "queued", st = "admitted" <=> q.lease
  PROVE  HandlerOK(Forwarded(q), st)
<1> DEFINE f == Forwarded(q)
<1>1. /\ f \in Handlers /\ f.pc = "fetching" /\ f.log = q.log /\ f.kind = q.kind
      /\ f.outcome = q.outcome /\ f.lease = q.lease /\ f.aborted = q.aborted
      /\ f.pull = q.pull
      /\ q.aborted => f.upstream = "none" /\ ~f.listening
      /\ ~q.aborted => f.listening
  BY DEF Forwarded, Handlers
<1> HIDE DEF f
<1>2. Told(f) = Told(q)
  BY <1>1 DEF Told
<1>3. StoryOf(f)
  BY <1>1, <1>2 DEF StoryOf
<1>4. PlaceOf(f)
  BY <1>1, <1>2 DEF PlaceOf, Working
<1>5. HoldOf(f, st)
  BY <1>1 DEF HoldOf
<1> QED
  BY <1>1, <1>3, <1>4, <1>5 DEF HandlerOK, f

LEMMA ArriveKeeps ==
  ASSUME IInv, NEW r \in Requests, NEW kind \in Kinds, Arrive(r, kind)
  PROVE  IInv'
<1> DEFINE q == [Absent EXCEPT !.pc = "authenticating", !.kind = kind]
<1>1. Absent \in Handlers
  BY EmptyLog DEF Absent, Handlers, Kinds, Results
<1>2. q \in Handlers
  BY <1>1 DEF Handlers
<1>3. /\ q.pc = "authenticating" /\ q.log = <<>> /\ q.outcome = "none"
      /\ q.upstream = "none" /\ ~q.listening /\ ~q.pull /\ ~q.lease
  BY <1>1 DEF Absent, Handlers
<1>4. status[r] # "queued" /\ status[r] # "admitted"
  BY OfHandler, EmptyLog DEF Arrive, PlaceOf, StoryOf, HoldOf, Told
<1>5. g' = [g EXCEPT ![r] = q] /\ UNCHANGED <<controller, backendOk, admissionOk>>
  BY DEF Arrive, Continues
<1> HIDE DEF q
<1>6. StoryOf(q) /\ PlaceOf(q)
  BY <1>3, EmptyLog DEF StoryOf, PlaceOf, Told, Working
<1>7. HandlerOK(q, status[r])
  BY <1>2, <1>3, <1>4, <1>6 DEF HandlerOK, HoldOf
<1> QED
  BY <1>5, <1>7, HandlerAlone

LEMMA AuthenticationFailsKeeps ==
  ASSUME IInv, NEW r \in Requests, NEW result \in {"rejected", "configuration_error"},
         AuthenticationFails(r, result)
  PROVE  IInv'
<1> DEFINE q == [g[r] EXCEPT !.pc = "done"]
<1>1. /\ g[r] \in Handlers /\ g[r].pc = "authenticating"
  BY OfHandler DEF AuthenticationFails
<1>2. /\ q \in Handlers /\ q.pc = "done" /\ q.log = <<>> /\ q.outcome = "none"
      /\ q.lease = FALSE /\ q.upstream = "none" /\ ~q.listening
  BY <1>1, Authenticating DEF Handlers
<1> HIDE DEF q
<1>3. Ending(q, status[r])
  BY <1>1, <1>2, EmptyLog, Authenticating DEF Ending, StoryOf, Told
<1> QED
  BY <1>3, EndsKeeps DEF AuthenticationFails, Results, q

LEMMA RefusedEarlyKeeps ==
  ASSUME IInv, NEW r \in Requests, RefusedEarly(r)
  PROVE  IInv'
<1> DEFINE q == [Started(r) EXCEPT !.pc = "done"]
<1>1. g[r].pc = "authenticating"
  BY DEF RefusedEarly
<1>2. /\ q \in Handlers /\ q.pc = "done" /\ q.log = Started(r).log /\ q.outcome = "none"
      /\ q.lease = FALSE /\ q.upstream = "none" /\ ~q.listening
  <2> DEFINE s == Started(r)
  <2>1. /\ s \in Handlers /\ s.outcome = "none" /\ s.lease = FALSE
        /\ s.upstream = "none" /\ ~s.listening
    BY <1>1, StartedIs, Authenticating, OfHandler DEF Handlers
  <2> HIDE DEF s
  <2>2. LET f == [s EXCEPT !.pc = "done"]
        IN /\ f \in Handlers /\ f.pc = "done" /\ f.log = s.log /\ f.outcome = "none"
           /\ f.lease = FALSE /\ f.upstream = "none" /\ ~f.listening
    BY <2>1 DEF Handlers
  <2> QED
    BY <2>2 DEF s
<1> HIDE DEF q
<1>3. Told(q) = {"request_started"} /\ q.log # <<>> /\ InOrder(q.log)
  BY <1>1, <1>2, StartedIs DEF Told
<1>4. Ending(q, status[r])
  BY <1>1, <1>2, <1>3, Authenticating DEF Ending, StoryOf
<1>5. EarlyResult(r) \in Results \ {"none"}
  BY DEF RefusedEarly, EarlyResult, Results
<1> QED
  BY <1>4, <1>5, EndsKeeps DEF RefusedEarly, q

LEMMA DiscoveryForwardedKeeps ==
  ASSUME IInv, NEW r \in Requests, DiscoveryForwarded(r)
  PROVE  IInv'
<1>1. g[r].pc = "authenticating" /\ g[r].kind = "discovery"
  BY DEF DiscoveryForwarded, ReachesBackend
<1>2. /\ Started(r).kind = "discovery" /\ Started(r).outcome = "none"
      /\ Started(r).upstream = "none" /\ ~Started(r).listening /\ ~Started(r).pull
      /\ Started(r).lease = FALSE
  BY <1>1, StartedIs, Authenticating, OfHandler DEF Handlers
<1>3. HandlerOK(Forwarded(Started(r)), status[r])
  BY <1>1, <1>2, StartedIs, Authenticating, ForwardedKeeps
<1> QED
  BY <1>3, HandlerAlone DEF DiscoveryForwarded, ReachesBackend, Continues

LEMMA AdmittedAtOnceKeeps ==
  ASSUME IInv, NEW r \in Requests, AdmittedAtOnce(r)
  PROVE  IInv'
<1> DEFINE s == Started(r)
           q == Admitted(s)
<1>1. g[r].pc = "authenticating" /\ g[r].kind = "generation"
  BY DEF AdmittedAtOnce, ReachesBackend
<1>2. /\ s \in Handlers /\ s.kind = "generation" /\ s.outcome = "none"
      /\ s.upstream = "none" /\ ~s.listening /\ ~s.pull
      /\ InOrder(s.log) /\ s.log # <<>> /\ Told(s) = {"request_started"}
  BY <1>1, StartedIs, Authenticating, OfHandler DEF Handlers
<1> HIDE DEF s
<1>3. /\ q \in Handlers /\ StoryOf(q) /\ q.log # <<>> /\ "admitted" \in Told(q)
      /\ q = [s EXCEPT !.lease = TRUE, !.log = q.log]
  BY <1>2, AdmittedIs
<1> HIDE DEF q
<1>4. /\ q.outcome = "none" /\ q.upstream = "none" /\ ~q.listening /\ ~q.pull
      /\ q.lease = TRUE
  BY <1>2, <1>3 DEF Handlers
<1>5. HandlerOK(Forwarded(q), "admitted")
  BY <1>3, <1>4, ForwardedKeeps
<1>6. AP!IInv' /\ status' = [status EXCEPT ![r] = "admitted"]
  BY OneIsTold DEF AdmittedAtOnce, IInv
<1> QED
  BY <1>5, <1>6, HandlerTold DEF AdmittedAtOnce, ReachesBackend, Continues, q, s

LEMMA RefusedForCapacityKeeps ==
  ASSUME IInv, NEW r \in Requests, RefusedForCapacity(r)
  PROVE  IInv'
<1> DEFINE s == Started(r)
           q == Refused(s)
           f == Finalized(q, "rejected")
<1>1. g[r].pc = "authenticating"
  BY DEF RefusedForCapacity, ReachesBackend
<1>2. /\ s \in Handlers /\ s.outcome = "none" /\ s.lease = FALSE
      /\ s.upstream = "none" /\ ~s.listening /\ ~s.pull
      /\ InOrder(s.log) /\ s.log # <<>> /\ Told(s) = {"request_started"}
  BY <1>1, StartedIs, Authenticating, OfHandler DEF Handlers
<1> HIDE DEF s
<1>3. /\ q \in Handlers /\ StoryOf(q)
      /\ q = [s EXCEPT !.pc = "done", !.log = q.log]
  BY <1>2, RefusedIs
<1> HIDE DEF q
<1>4. /\ q.pc = "done" /\ q.outcome = "none" /\ q.upstream = "none" /\ ~q.listening /\ ~q.pull
  BY <1>2, <1>3 DEF Handlers
<1>5. /\ f \in Handlers /\ StoryOf(f)
      /\ f = [q EXCEPT !.outcome = IF q.outcome = "none" THEN "rejected" ELSE q.outcome,
                       !.lease = FALSE, !.log = f.log]
  BY <1>3, <1>4, FinalizedIs DEF Results
<1> HIDE DEF f
<1>6. /\ f.pc = "done" /\ f.outcome = "rejected" /\ f.upstream = "none" /\ ~f.listening
      /\ ~f.pull /\ f.lease = FALSE
  BY <1>3, <1>4, <1>5 DEF Handlers
<1>7. HandlerOK(f, "rejected")
  BY <1>5, <1>6 DEF HandlerOK, PlaceOf, HoldOf, Working
<1>8. AP!IInv' /\ status' = [status EXCEPT ![r] = "rejected"]
  BY OneIsTold DEF RefusedForCapacity, IInv
<1> QED
  BY <1>7, <1>8, HandlerTold
  DEF RefusedForCapacity, ReachesBackend, Continues, f, q, s

LEMMA EnqueuedKeeps ==
  ASSUME IInv, NEW r \in Requests, Enqueued(r)
  PROVE  IInv'
<1> DEFINE s == Started(r)
           log == Append(s.log, "queued")
           q == [s EXCEPT !.pc = "waiting", !.log = log]
<1>1. g[r].pc = "authenticating" /\ g[r].kind = "generation"
  BY DEF Enqueued, ReachesBackend
<1>2. /\ s \in Handlers /\ s.outcome = "none" /\ s.lease = FALSE
      /\ s.upstream = "none" /\ ~s.listening /\ ~s.pull /\ s.kind = "generation"
      /\ s.aborted = g[r].aborted
      /\ InOrder(s.log) /\ s.log # <<>> /\ Told(s) = {"request_started"}
  BY <1>1, StartedIs, Authenticating, OfHandler DEF Handlers
<1>3. ~s.aborted
  BY <1>2 DEF Enqueued, ReachesBackend, EarlyResult
<1>4. g' = [g EXCEPT ![r] = q]
  BY DEF Enqueued, Continues
<1> HIDE DEF s
<1>5. /\ log \in Seq(Events) /\ log # <<>> /\ InOrder(log)
      /\ ToSet(log) = {"request_started", "queued"}
  <2>1. s.log \in Seq(Events) /\ ToSet(s.log) = {"request_started"}
    BY <1>2 DEF Handlers, Told
  <2>2. \A x \in ToSet(s.log) : EventRank[x] < EventRank["queued"]
    BY <2>1, RankValues
  <2> QED
    BY <1>2, <2>1, <2>2, AppendInOrder DEF Events
<1> HIDE DEF log
<1>6. /\ q \in Handlers /\ q.pc = "waiting" /\ q.log = log /\ q.outcome = "none"
      /\ q.lease = FALSE /\ q.upstream = "none" /\ ~q.listening /\ ~q.pull
      /\ q.kind = "generation" /\ ~q.aborted
  BY <1>2, <1>3, <1>5 DEF Handlers
<1> HIDE DEF q
<1>7. Told(q) = {"request_started", "queued"}
  BY <1>5, <1>6 DEF Told
<1>8. HandlerOK(q, "queued")
  BY <1>5, <1>6, <1>7 DEF HandlerOK, StoryOf, PlaceOf, HoldOf, Working
<1>9. AP!IInv' /\ status' = [status EXCEPT ![r] = "queued"]
  BY OneIsTold DEF Enqueued, IInv
<1> QED
  BY <1>4, <1>8, <1>9, HandlerTold DEF Enqueued, ReachesBackend

LEMMA WakesAdmittedKeeps ==
  ASSUME IInv, NEW r \in Requests, WakesAdmitted(r)
  PROVE  IInv'
<1> DEFINE s == g[r]
           q == Admitted(s)
<1>1. /\ s.pc = "waiting" /\ status[r] = "admitted"
      /\ g' = [g EXCEPT ![r] = Forwarded(q)]
      /\ UNCHANGED <<controller, backendOk, admissionOk>>
  BY DEF WakesAdmitted, Continues
<1>2. /\ s \in Handlers /\ s.kind = "generation" /\ s.outcome = "none"
      /\ s.upstream = "none" /\ ~s.listening /\ ~s.pull
      /\ InOrder(s.log) /\ Told(s) = {"request_started", "queued"}
  BY <1>1, OfHandler DEF PlaceOf, StoryOf
<1> HIDE DEF s
<1>3. s.log # <<>>
  BY <1>2, EmptyLog DEF Told
<1>4. /\ q \in Handlers /\ StoryOf(q) /\ q.log # <<>> /\ "admitted" \in Told(q)
      /\ q = [s EXCEPT !.lease = TRUE, !.log = q.log]
  BY <1>2, <1>3, AdmittedIs
<1> HIDE DEF q
<1>5. /\ q.outcome = "none" /\ q.upstream = "none" /\ ~q.listening /\ ~q.pull
      /\ q.lease = TRUE
  BY <1>2, <1>4 DEF Handlers
<1>6. HandlerOK(Forwarded(q), status[r])
  BY <1>1, <1>4, <1>5, ForwardedKeeps
<1> QED
  BY <1>1, <1>6, HandlerAlone

LEMMA WakesRefusedKeeps ==
  ASSUME IInv, NEW r \in Requests, WakesRefused(r)
  PROVE  IInv'
<1> DEFINE s == g[r]
           q == Refused(s)
           result == IF status[r] = "cancelled" THEN "cancelled" ELSE "rejected"
<1>1. /\ s.pc = "waiting" /\ status[r] \in {"cancelled", "timed_out"}
      /\ Ends(r, q, result)
      /\ UNCHANGED <<backendOk, admissionOk>>
  BY DEF WakesRefused
<1>2. /\ s \in Handlers /\ s.outcome = "none" /\ ~s.lease
      /\ s.upstream = "none" /\ ~s.listening /\ ~s.pull
      /\ InOrder(s.log) /\ Told(s) = {"request_started", "queued"}
  BY <1>1, OfHandler DEF PlaceOf, StoryOf
<1> HIDE DEF s
<1>3. s.log # <<>>
  BY <1>2, EmptyLog DEF Told
<1>4. /\ q \in Handlers /\ StoryOf(q)
      /\ q = [s EXCEPT !.pc = "done", !.log = q.log]
  BY <1>2, <1>3, RefusedIs
<1> HIDE DEF q
<1>5. /\ q.pc = "done" /\ q.upstream = "none" /\ ~q.listening /\ ~q.lease
  BY <1>2, <1>4 DEF Handlers
<1>6. Ending(q, status[r])
  BY <1>1, <1>4, <1>5 DEF Ending
<1>7. result \in Results \ {"none"}
  BY DEF Results
<1> QED
  BY <1>1, <1>6, <1>7, EndsKeeps

-----------------------------------------------------------------------------
(* The backend answers.                                                    *)

(* What a handler that works for an answer is, and the shape it ends in.   *)
LEMMA AtWork ==
  ASSUME IInv, NEW r \in Requests, g[r].pc \in Working
  PROVE  /\ g[r].log # <<>>
         /\ g[r].kind = "generation" => "admitted" \in Told(g[r])
         /\ status[r] # "queued" /\ (status[r] = "admitted" <=> g[r].lease)
BY OfHandler DEF PlaceOf, HoldOf, StoryOf, Working

LEMMA ClosedEnds ==
  ASSUME IInv, NEW r \in Requests, g[r].pc \in Working,
         NEW q \in Handlers, StoryOf(q), q.pc # "waiting", q.lease = g[r].lease
  PROVE  Ending(Closed(q), status[r])
<1> DEFINE f == Closed(q)
<1>1. /\ f \in Handlers /\ f.pc = "done" /\ f.upstream = "closed" /\ ~f.listening
      /\ f.log = q.log /\ f.outcome = q.outcome /\ f.kind = q.kind /\ f.lease = q.lease
  <2>1. Cleaned(q) \in Handlers
    BY DEF Cleaned, Handlers
  <2> QED
    BY <2>1 DEF Closed, Cleaned, Handlers
<1> HIDE DEF f
<1>2. StoryOf(f)
  BY <1>1 DEF StoryOf, Told
<1> QED
  BY <1>1, <1>2, AtWork DEF Ending, f

LEMMA FailureIsResult == \A q : Failure(q) \in Results \ {"none"}
BY DEF Failure, Results

LEMMA WorkEnds ==
  ASSUME IInv, NEW r \in Requests, g[r].pc \in Working,
         NEW result \in Results \ {"none"}, Ends(r, Closed(g[r]), result),
         UNCHANGED <<backendOk, admissionOk>>
  PROVE  IInv'
<1>1. g[r] \in Handlers /\ StoryOf(g[r]) /\ g[r].pc # "waiting"
  BY OfHandler DEF Working
<1>2. Ending(Closed(g[r]), status[r])
  BY <1>1, ClosedEnds
<1> QED
  BY <1>2, EndsKeeps

LEMMA FetchFailsKeeps ==
  ASSUME IInv, NEW r \in Requests, FetchFails(r)
  PROVE  IInv'
BY WorkEnds, FailureIsResult DEF FetchFails, Working

LEMMA AnswersEmptyKeeps ==
  ASSUME IInv, NEW r \in Requests, AnswersEmpty(r)
  PROVE  IInv'
BY WorkEnds DEF AnswersEmpty, FetchAnswers, Working, Results

(* A handler that goes on to the next await of its work. *)
LEMMA WorkGoesOn ==
  ASSUME IInv, NEW r \in Requests, g[r].pc \in Working, g[r].pc # "cancelling",
         NEW pc \in {"errorBody", "errorFailed", "errorRead", "relay"},
         NEW upstream \in {"open", "closed"},
         g[r].pull => pc = "relay",
         g' = [g EXCEPT ![r] = [g[r] EXCEPT !.pc = pc, !.upstream = upstream]],
         upstream = "open" => g[r].upstream = "open",
         UNCHANGED <<controller, backendOk, admissionOk>>
  PROVE  IInv'
<1> DEFINE f == [g[r] EXCEPT !.pc = pc, !.upstream = upstream]
<1>1. /\ g[r] \in Handlers /\ StoryOf(g[r]) /\ PlaceOf(g[r]) /\ HoldOf(g[r], status[r])
  BY OfHandler
<1>2. /\ f \in Handlers /\ f.pc = pc /\ f.upstream = upstream
      /\ f.log = g[r].log /\ f.outcome = g[r].outcome /\ f.kind = g[r].kind
      /\ f.lease = g[r].lease /\ f.listening = g[r].listening /\ f.stopped = g[r].stopped
      /\ f.aborted = g[r].aborted /\ f.pull = g[r].pull
  BY <1>1 DEF Handlers
<1> HIDE DEF f
<1>3. Told(f) = Told(g[r])
  BY <1>2 DEF Told
<1>4. StoryOf(f)
  BY <1>1, <1>2, <1>3 DEF StoryOf, Working
<1>5. PlaceOf(f)
  BY <1>1, <1>2, <1>3 DEF PlaceOf, Working
<1>6. HoldOf(f, status[r])
  BY <1>1, <1>2 DEF HoldOf, Working
<1> QED
  BY <1>2, <1>4, <1>5, <1>6, HandlerAlone DEF HandlerOK, f

LEMMA AnswersErrorKeeps ==
  ASSUME IInv, NEW r \in Requests, AnswersError(r)
  PROVE  IInv'
<1>1. /\ g[r].pc = "fetching" /\ g[r].upstream = "open" /\ g[r] \in Handlers
      /\ ~g[r].pull
  BY OfHandler DEF AnswersError, FetchAnswers, PlaceOf
<1>2. [g[r] EXCEPT !.pc = "errorBody"]
        = [g[r] EXCEPT !.pc = "errorBody", !.upstream = "open"]
  BY <1>1 DEF Handlers
<1> QED
  BY <1>1, <1>2, WorkGoesOn DEF AnswersError, Continues, Working

LEMMA AnswersBodyKeeps ==
  ASSUME IInv, NEW r \in Requests, AnswersBody(r)
  PROVE  IInv'
<1>1. /\ g[r].pc = "fetching" /\ g[r].upstream = "open" /\ g[r] \in Handlers
  BY OfHandler DEF AnswersBody, FetchAnswers
<1>2. [g[r] EXCEPT !.pc = "relay"]
        = [g[r] EXCEPT !.pc = "relay", !.upstream = "open"]
  BY <1>1 DEF Handlers
<1> QED
  BY <1>1, <1>2, WorkGoesOn DEF AnswersBody, Continues, Working

LEMMA ErrorBodyReadKeeps ==
  ASSUME IInv, NEW r \in Requests, NEW failed \in BOOLEAN, ErrorBodyRead(r, failed)
  PROVE  IInv'
<1>1. g[r].pc = "errorBody" /\ UNCHANGED <<backendOk, admissionOk>>
  BY DEF ErrorBodyRead
<1>2. CASE failed /\ g[r].stopped
  BY <1>1, <1>2, WorkEnds DEF ErrorBodyRead, Working, Results
<1>3. CASE ~(failed /\ g[r].stopped)
  <2>1. ~g[r].pull
    BY <1>1, OfHandler DEF PlaceOf
  <2>2. /\ g' = [g EXCEPT ![r] = [g[r] EXCEPT !.pc = IF failed THEN "errorFailed" ELSE "errorRead",
                                              !.upstream = "closed"]]
        /\ UNCHANGED controller
    BY <1>3 DEF ErrorBodyRead, Continues
  <2>3. (IF failed THEN "errorFailed" ELSE "errorRead")
          \in {"errorBody", "errorFailed", "errorRead", "relay"}
    OBVIOUS
  <2> QED
    BY <1>1, <2>1, <2>2, <2>3, WorkGoesOn DEF Working
<1> QED
  BY <1>2, <1>3

LEMMA ErrorRelayedKeeps ==
  ASSUME IInv, NEW r \in Requests, ErrorRelayed(r)
  PROVE  IInv'
<1> DEFINE result == IF g[r].stopped THEN "cancelled"
                     ELSE IF g[r].pc = "errorFailed" THEN "upstream_error" ELSE "completed"
<1>1. result \in Results \ {"none"}
  BY DEF Results
<1> QED
  BY <1>1, WorkEnds DEF ErrorRelayed, Working

-----------------------------------------------------------------------------
(* The body.                                                               *)

LEMMA PullKeeps ==
  ASSUME IInv, NEW r \in Requests, Pull(r)
  PROVE  IInv'
<1> DEFINE f == [g[r] EXCEPT !.pull = TRUE]
<1>1. /\ g[r] \in Handlers /\ StoryOf(g[r]) /\ PlaceOf(g[r]) /\ HoldOf(g[r], status[r])
      /\ g[r].pc = "relay"
  BY OfHandler DEF Pull
<1>2. /\ f \in Handlers /\ f.pc = g[r].pc /\ f.upstream = g[r].upstream
      /\ f.log = g[r].log /\ f.outcome = g[r].outcome /\ f.kind = g[r].kind
      /\ f.lease = g[r].lease /\ f.listening = g[r].listening /\ f.stopped = g[r].stopped
      /\ f.aborted = g[r].aborted
  BY <1>1 DEF Handlers
<1>3. g' = [g EXCEPT ![r] = f] /\ UNCHANGED <<controller, backendOk, admissionOk>>
  BY DEF Pull, Continues
<1> HIDE DEF f
<1>4. HandlerOK(f, status[r])
  BY <1>1, <1>2 DEF HandlerOK, StoryOf, PlaceOf, HoldOf, Told
<1> QED
  BY <1>3, <1>4, HandlerAlone

(* The handler after a read settled, before the read's result is acted on. *)
LEMMA ResumedIs ==
  ASSUME IInv, NEW r \in Requests, g[r].pull
  PROVE  LET q == Resumed(g[r])
         IN /\ q \in Handlers /\ StoryOf(q)
            /\ q = [g[r] EXCEPT !.pull = FALSE]
            /\ q.pc \in {"relay", "cancelling", "done"} /\ q.pc = g[r].pc
            /\ q.outcome = "none" =>
                 q.log # <<>> /\ (q.kind = "generation" => "admitted" \in Told(q))
<1> DEFINE q == Resumed(g[r])
<1>1. /\ g[r] \in Handlers /\ StoryOf(g[r]) /\ PlaceOf(g[r])
  BY OfHandler
<1>2. /\ q \in Handlers /\ q.pc = g[r].pc
      /\ q.log = g[r].log /\ q.outcome = g[r].outcome /\ q.kind = g[r].kind
      /\ q.lease = g[r].lease
      /\ q = [g[r] EXCEPT !.pull = FALSE]
  BY <1>1 DEF Handlers, Resumed
<1> HIDE DEF q
<1>3. Told(q) = Told(g[r])
  BY <1>2 DEF Told
<1>4. StoryOf(q)
  BY <1>1, <1>2, <1>3 DEF StoryOf
<1>5. g[r].pc \in {"relay", "cancelling", "done"}
  BY <1>1 DEF PlaceOf
<1>6. q.outcome = "none" => q.log # <<>> /\ (q.kind = "generation" => "admitted" \in Told(q))
  BY <1>1, <1>2, <1>3, <1>5 DEF PlaceOf, Working
<1> QED
  BY <1>2, <1>4, <1>5, <1>6 DEF q

LEMMA ShownIs ==
  ASSUME NEW q \in Handlers, StoryOf(q),
         q.outcome = "none" =>
           q.log # <<>> /\ (q.kind = "generation" => "admitted" \in Told(q)),
         NEW visible \in BOOLEAN
  PROVE  LET s == Shown(q, visible)
         IN /\ s \in Handlers /\ StoryOf(s)
            /\ s = [q EXCEPT !.log = s.log]
            /\ s.log = <<>> <=> q.log = <<>>
            /\ Told(q) \subseteq Told(s)
<1>1. CASE visible /\ q.kind = "generation"
  <2>1. Shown(q, visible) = FirstOutput(q)
    BY <1>1 DEF Shown
  <2> QED
    BY <1>1, <2>1, FirstOutputIs
<1>2. CASE ~(visible /\ q.kind = "generation")
  <2>1. Shown(q, visible) = q /\ q = [q EXCEPT !.log = q.log]
    BY <1>2 DEF Shown, Handlers
  <2> QED
    BY <2>1
<1> QED
  BY <1>1, <1>2

(* However a read ends the exchange, what is left of the handler ends.     *)
LEMMA BodyEnding ==
  ASSUME IInv, NEW r \in Requests, g[r].pull,
         NEW q \in Handlers, StoryOf(q),
         q.pc = g[r].pc, q.kind = g[r].kind, q.lease = g[r].lease,
         q.upstream = g[r].upstream, g[r].stopped => q.stopped,
         q.log = <<>> <=> g[r].log = <<>>, Told(g[r]) \subseteq Told(q)
  PROVE  Ending(IF g[r].pc = "relay" THEN Closed(q) ELSE Cleaned(q), status[r])
<1>1. /\ g[r] \in Handlers /\ PlaceOf(g[r]) /\ HoldOf(g[r], status[r]) /\ StoryOf(g[r])
      /\ g[r].pc \in {"relay", "cancelling", "done"}
  BY OfHandler DEF PlaceOf
<1>2. CASE g[r].pc = "relay"
  BY <1>2, ClosedEnds DEF Working
<1>3. CASE g[r].pc # "relay"
  <2> DEFINE f == Cleaned(q)
  <2>1. /\ f \in Handlers /\ f.pc = q.pc /\ f.upstream = q.upstream /\ ~f.listening
        /\ f.log = q.log /\ f.outcome = q.outcome /\ f.kind = q.kind /\ f.lease = q.lease
        /\ f.stopped = q.stopped
    BY DEF Cleaned, Handlers
  <2> HIDE DEF f
  <2>2. Told(f) = Told(q) /\ StoryOf(f)
    BY <2>1 DEF StoryOf, Told
  <2>3. f.pc = "cancelling" =>
          f.stopped /\ f.log # <<>> /\ (f.kind = "generation" => "admitted" \in Told(f))
    BY <1>1, <2>1, <2>2 DEF PlaceOf, Working
  <2>4. f.upstream = "open" => f.pc = "cancelling"
    BY <1>1, <1>3, <2>1 DEF PlaceOf, Working
  <2>5. status[r] # "queued" /\ (status[r] = "admitted" <=> f.lease)
    BY <1>1, <2>1 DEF HoldOf
  <2>6. Ending(f, status[r])
    BY <1>1, <1>3, <2>1, <2>2, <2>3, <2>4, <2>5 DEF Ending
  <2> QED
    BY <1>3, <2>6 DEF f
<1> QED
  BY <1>2, <1>3

(* The handler that has seen a chunk, or the end. *)
LEMMA SeenIs ==
  ASSUME IInv, NEW r \in Requests, g[r].pull, NEW visible \in BOOLEAN
  PROVE  LET q == Shown(Resumed(g[r]), visible)
         IN /\ q \in Handlers /\ StoryOf(q)
            /\ q.pc = g[r].pc /\ q.kind = g[r].kind /\ q.lease = g[r].lease
            /\ q.upstream = g[r].upstream /\ q.stopped = g[r].stopped
            /\ q.outcome = g[r].outcome /\ q.aborted = g[r].aborted
            /\ q.listening = g[r].listening /\ ~q.pull
            /\ q.log = <<>> <=> g[r].log = <<>>
            /\ Told(g[r]) \subseteq Told(q)
<1> DEFINE u == Resumed(g[r])
           q == Shown(u, visible)
<1>1. /\ u \in Handlers /\ StoryOf(u)
      /\ u = [g[r] EXCEPT !.pull = FALSE]
      /\ u.outcome = "none" =>
           u.log # <<>> /\ (u.kind = "generation" => "admitted" \in Told(u))
      /\ g[r] \in Handlers
  BY ResumedIs, OfHandler
<1>2. /\ u.pc = g[r].pc /\ u.kind = g[r].kind /\ u.lease = g[r].lease
      /\ u.upstream = g[r].upstream /\ u.stopped = g[r].stopped
      /\ u.outcome = g[r].outcome /\ u.aborted = g[r].aborted
      /\ u.listening = g[r].listening /\ ~u.pull /\ u.log = g[r].log
  BY <1>1 DEF Handlers
<1> HIDE DEF u
<1>3. /\ q \in Handlers /\ StoryOf(q)
      /\ q = [u EXCEPT !.log = q.log]
      /\ q.log = <<>> <=> u.log = <<>>
      /\ Told(u) \subseteq Told(q)
  BY <1>1, ShownIs
<1> HIDE DEF q
<1>4. /\ q.pc = u.pc /\ q.kind = u.kind /\ q.lease = u.lease
      /\ q.upstream = u.upstream /\ q.stopped = u.stopped
      /\ q.outcome = u.outcome /\ q.aborted = u.aborted
      /\ q.listening = u.listening /\ q.pull = u.pull
  BY <1>1, <1>3 DEF Handlers
<1>5. Told(u) = Told(g[r])
  BY <1>2 DEF Told
<1> QED
  BY <1>2, <1>3, <1>4, <1>5 DEF q, u

LEMMA ReadEndsKeeps ==
  ASSUME IInv, NEW r \in Requests, NEW visible \in BOOLEAN, ReadEnds(r, visible)
  PROVE  IInv'
<1> DEFINE q == Shown(Resumed(g[r]), visible)
<1>1. /\ g[r].pull
      /\ Ends(r, IF g[r].pc = "relay" THEN Closed(q) ELSE Cleaned(q), "completed")
      /\ UNCHANGED <<backendOk, admissionOk>>
  BY DEF ReadEnds
<1>2. /\ q \in Handlers /\ StoryOf(q)
      /\ q.pc = g[r].pc /\ q.kind = g[r].kind /\ q.lease = g[r].lease
      /\ q.upstream = g[r].upstream /\ q.stopped = g[r].stopped
      /\ q.log = <<>> <=> g[r].log = <<>>
      /\ Told(g[r]) \subseteq Told(q)
  BY <1>1, SeenIs
<1> HIDE DEF q
<1>3. Ending(IF g[r].pc = "relay" THEN Closed(q) ELSE Cleaned(q), status[r])
  BY <1>1, <1>2, BodyEnding
<1> QED
  BY <1>1, <1>3, EndsKeeps DEF Results

LEMMA ReadChunkKeeps ==
  ASSUME IInv, NEW r \in Requests, NEW visible \in BOOLEAN, ReadChunk(r, visible)
  PROVE  IInv'
<1> DEFINE q == Shown(Resumed(g[r]), visible)
<1>1. /\ g[r].pull
      /\ IF g[r].pc = "relay" THEN Continues(r, q) /\ UNCHANGED controller
                              ELSE Ends(r, Cleaned(q), Failure(q))
      /\ UNCHANGED <<backendOk, admissionOk>>
  BY DEF ReadChunk
<1>2. /\ q \in Handlers /\ StoryOf(q)
      /\ q.pc = g[r].pc /\ q.kind = g[r].kind /\ q.lease = g[r].lease
      /\ q.upstream = g[r].upstream /\ q.stopped = g[r].stopped
      /\ q.outcome = g[r].outcome /\ q.aborted = g[r].aborted
      /\ q.listening = g[r].listening /\ ~q.pull
      /\ q.log = <<>> <=> g[r].log = <<>>
      /\ Told(g[r]) \subseteq Told(q)
  BY <1>1, SeenIs
<1> HIDE DEF q
<1>3. CASE g[r].pc = "relay"
  <2>1. /\ PlaceOf(g[r]) /\ HoldOf(g[r], status[r]) /\ StoryOf(g[r])
    BY OfHandler
  <2>2. PlaceOf(q)
    BY <1>2, <1>3, <2>1 DEF PlaceOf, Working
  <2>3. HoldOf(q, status[r])
    BY <1>2, <1>3, <2>1 DEF HoldOf
  <2> QED
    BY <1>1, <1>2, <1>3, <2>2, <2>3, HandlerAlone DEF HandlerOK, Continues
<1>4. CASE g[r].pc # "relay"
  <2>1. Ending(Cleaned(q), status[r])
    BY <1>1, <1>2, <1>4, BodyEnding
  <2> QED
    BY <1>1, <1>4, <2>1, FailureIsResult, EndsKeeps
<1> QED
  BY <1>3, <1>4

LEMMA ReadFailsKeeps ==
  ASSUME IInv, NEW r \in Requests, ReadFails(r)
  PROVE  IInv'
<1> DEFINE u == Resumed(g[r])
           q == [u EXCEPT !.stopped = TRUE]
<1>1. /\ g[r].pull
      /\ Ends(r, IF g[r].pc = "relay" THEN Closed(q) ELSE Cleaned(q), Failure(g[r]))
      /\ UNCHANGED <<backendOk, admissionOk>>
  BY DEF ReadFails
<1>2. /\ u \in Handlers /\ StoryOf(u) /\ u = [g[r] EXCEPT !.pull = FALSE]
      /\ g[r] \in Handlers
  BY <1>1, ResumedIs, OfHandler
<1>3. /\ u.pc = g[r].pc /\ u.kind = g[r].kind /\ u.lease = g[r].lease
      /\ u.upstream = g[r].upstream /\ u.log = g[r].log
  BY <1>2 DEF Handlers
<1> HIDE DEF u
<1>4. /\ q \in Handlers /\ q.stopped = TRUE
      /\ q.pc = u.pc /\ q.kind = u.kind /\ q.lease = u.lease
      /\ q.upstream = u.upstream /\ q.log = u.log /\ q.outcome = u.outcome
  BY <1>2 DEF Handlers
<1> HIDE DEF q
<1>5. StoryOf(q) /\ Told(q) = Told(g[r])
  BY <1>2, <1>3, <1>4 DEF StoryOf, Told
<1>6. Ending(IF g[r].pc = "relay" THEN Closed(q) ELSE Cleaned(q), status[r])
  BY <1>1, <1>3, <1>4, <1>5, BodyEnding
<1> QED
  BY <1>1, <1>6, FailureIsResult, EndsKeeps

LEMMA CancelBodyKeeps ==
  ASSUME IInv, NEW r \in Requests, CancelBody(r)
  PROVE  IInv'
<1> DEFINE f == [Cleaned(g[r]) EXCEPT !.stopped = TRUE, !.pc = "cancelling"]
<1>1. /\ g[r] \in Handlers /\ StoryOf(g[r]) /\ PlaceOf(g[r]) /\ HoldOf(g[r], status[r])
      /\ g[r].pc = "relay"
  BY OfHandler DEF CancelBody
<1>2. Cleaned(g[r]) \in Handlers
  BY <1>1 DEF Cleaned, Handlers
<1>3. /\ f \in Handlers /\ f.pc = "cancelling" /\ f.stopped = TRUE /\ f.listening = FALSE
      /\ f.upstream = g[r].upstream /\ f.log = g[r].log /\ f.outcome = g[r].outcome
      /\ f.kind = g[r].kind /\ f.lease = g[r].lease
  BY <1>1, <1>2 DEF Cleaned, Handlers
<1>4. g' = [g EXCEPT ![r] = f] /\ UNCHANGED <<controller, backendOk, admissionOk>>
  BY DEF CancelBody, Continues
<1> HIDE DEF f
<1>5. Told(f) = Told(g[r])
  BY <1>3 DEF Told
<1>6. StoryOf(f)
  BY <1>1, <1>3, <1>5 DEF StoryOf
<1>7. PlaceOf(f)
  BY <1>1, <1>3, <1>5 DEF PlaceOf, Working
<1>8. HoldOf(f, status[r])
  BY <1>1, <1>3 DEF HoldOf
<1> QED
  BY <1>3, <1>4, <1>6, <1>7, <1>8, HandlerAlone DEF HandlerOK

LEMMA CancelSettlesKeeps ==
  ASSUME IInv, NEW r \in Requests, CancelSettles(r)
  PROVE  IInv'
BY WorkEnds DEF CancelSettles, Working, Results

-----------------------------------------------------------------------------
(* The client and the timer.                                               *)

LEMMA ClientAbortsKeeps ==
  ASSUME IInv, NEW r \in Requests, ClientAborts(r)
  PROVE  IInv'
<1> DEFINE f == [g[r] EXCEPT !.aborted = TRUE, !.stopped = @ \/ g[r].listening,
                             !.listening = FALSE]
<1>1. /\ g[r] \in Handlers /\ StoryOf(g[r]) /\ PlaceOf(g[r]) /\ HoldOf(g[r], status[r])
  BY OfHandler
<1>2. g' = [g EXCEPT ![r] = f] /\ UNCHANGED <<backendOk, admissionOk>>
  BY DEF ClientAborts, Continues
<1>3. (g[r].stopped \/ g[r].listening) \in BOOLEAN
  OBVIOUS
<1>4. /\ f \in Handlers /\ f.aborted = TRUE /\ f.listening = FALSE
      /\ f.stopped = (g[r].stopped \/ g[r].listening)
      /\ f.pc = g[r].pc /\ f.upstream = g[r].upstream /\ f.log = g[r].log
      /\ f.outcome = g[r].outcome /\ f.kind = g[r].kind /\ f.lease = g[r].lease
      /\ f.pull = g[r].pull
  BY <1>1, <1>3, Zenon DEF Handlers
<1> HIDE DEF f
<1>5. Told(f) = Told(g[r])
  BY <1>4 DEF Told
<1>6. StoryOf(f)
  BY <1>1, <1>4, <1>5 DEF StoryOf
<1>7. PlaceOf(f)
  BY <1>1, <1>4, <1>5 DEF PlaceOf, Working
<1>8. CASE status[r] = "queued"
  <2>1. AP!IInv' /\ status' = [status EXCEPT ![r] = "cancelled"]
    BY <1>8, OneIsTold DEF ClientAborts, IInv
  <2>2. HoldOf(f, "cancelled")
    BY <1>1, <1>4, <1>8 DEF HoldOf
  <2> QED
    BY <1>2, <1>4, <1>6, <1>7, <2>1, <2>2, HandlerTold DEF HandlerOK
<1>9. CASE status[r] # "queued"
  <2>1. UNCHANGED controller
    BY <1>9 DEF ClientAborts
  <2>2. HoldOf(f, status[r])
    BY <1>1, <1>4, <1>9 DEF HoldOf
  <2> QED
    BY <1>2, <1>4, <1>6, <1>7, <2>1, <2>2, HandlerAlone DEF HandlerOK
<1> QED
  BY <1>8, <1>9

LEMMA QueueTimerFiresKeeps ==
  ASSUME IInv, NEW r \in Requests, QueueTimerFires(r)
  PROVE  IInv'
<1>1. /\ AP!IInv' /\ status[r] = "queued" /\ status' = [status EXCEPT ![r] = "timed_out"]
      /\ UNCHANGED <<backendOk, admissionOk, g>>
  BY OneIsTold DEF QueueTimerFires, IInv
<1>2. g \in [Requests -> Handlers] /\ g' = [g EXCEPT ![r] = g[r]]
  BY <1>1, OfHandler
<1>3. HandlerOK(g[r], "timed_out")
  BY <1>1, OfHandler DEF HandlerOK, HoldOf
<1> QED
  BY <1>1, <1>2, <1>3, HandlerTold

-----------------------------------------------------------------------------
(* The invariant. *)

LEMMA InitIInv == Init => IInv
<1> SUFFICES ASSUME Init PROVE IInv
  OBVIOUS
<1>1. AP!IInv
  BY SameController, ControllerConstants, AP!InitIInv DEF Init
<1>2. Absent \in Handlers
  BY EmptyLog DEF Absent, Handlers, Kinds, Results
<1>3. ASSUME NEW r \in Requests
      PROVE  HandlerOK(g[r], status[r])
  <2>1. g[r] = Absent /\ status[r] = "idle"
    BY DEF Init, A!Init
  <2>2. /\ Absent.pc = "absent" /\ Absent.log = <<>> /\ Absent.outcome = "none"
        /\ Absent.upstream = "none" /\ ~Absent.listening /\ ~Absent.pull /\ ~Absent.lease
    BY DEF Absent
  <2>3. StoryOf(Absent) /\ PlaceOf(Absent)
    BY <2>2, EmptyLog DEF StoryOf, PlaceOf, Told, Working
  <2>4. HoldOf(Absent, "idle")
    BY <2>2 DEF HoldOf
  <2> QED
    BY <1>2, <2>1, <2>3, <2>4 DEF HandlerOK
<1> QED
  BY <1>1, <1>2, <1>3 DEF Init, IInv

LEMMA NextIInv == IInv /\ [Next]_vars => IInv'
<1> SUFFICES ASSUME IInv, [Next]_vars PROVE IInv'
  OBVIOUS
<1>1. ASSUME NEW r \in Requests, NEW kind \in ArrivingKinds, Arrive(r, kind) PROVE IInv'
  BY <1>1, ArriveKeeps, EnvironmentAssumption
<1>2. ASSUME NEW r \in Requests, Settles(r) PROVE IInv'
  BY <1>2, AuthenticationFailsKeeps, RefusedEarlyKeeps, DiscoveryForwardedKeeps,
     AdmittedAtOnceKeeps, RefusedForCapacityKeeps, EnqueuedKeeps, WakesAdmittedKeeps,
     WakesRefusedKeeps, FetchFailsKeeps, AnswersEmptyKeeps, AnswersErrorKeeps,
     AnswersBodyKeeps, ErrorBodyReadKeeps, ErrorRelayedKeeps, PullKeeps, CancelSettlesKeeps
  DEF Settles
<1>3. ASSUME NEW r \in Requests, BodyEnds(r) PROVE IInv'
  BY <1>3, ReadEndsKeeps, ReadFailsKeeps DEF BodyEnds
<1>4. ASSUME NEW r \in Requests, NEW visible \in BOOLEAN, ReadChunk(r, visible) PROVE IInv'
  BY <1>4, ReadChunkKeeps
<1>5. ASSUME NEW r \in Requests, CancelBody(r) PROVE IInv'
  BY <1>5, CancelBodyKeeps
<1>6. ASSUME NEW r \in Requests, ClientAborts(r) PROVE IInv'
  BY <1>6, ClientAbortsKeeps
<1>7. ASSUME NEW r \in Requests, QueueTimerFires(r) PROVE IInv'
  BY <1>7, QueueTimerFiresKeeps
<1>8. CASE UNCHANGED vars
  <2>1. AP!IInv'
    BY <1>8, ControllerStep DEF IInv, vars
  <2>2. UNCHANGED <<status, g, backendOk, admissionOk>>
    BY <1>8 DEF vars, controller
  <2> QED
    BY <2>1, <2>2 DEF IInv
<1> QED
  BY <1>1, <1>2, <1>3, <1>4, <1>5, <1>6, <1>7, <1>8 DEF Next

(* Every handler's story, place and hold agree in every reachable state.   *)
THEOREM GatewayInductive == Spec => []IInv
BY InitIInv, NextIInv, PTL DEF Spec

-----------------------------------------------------------------------------
(* What follows. *)

(* Types, the limits of the controller, and the length of a log.           *)
THEOREM GatewayTypeCorrect == Spec => []TypeOK
<1>1. IInv => TypeOK
  <2> SUFFICES ASSUME IInv PROVE TypeOK
    OBVIOUS
  <2>1. A!TypeOK
    BY SameController DEF IInv, AP!IInv
  <2>2. \A r \in Requests : g[r].log \in Seq(Events) /\ InOrder(g[r].log)
    BY OfHandler DEF Handlers, StoryOf
  <2>3. \A r \in Requests : Len(g[r].log) <= 5
    BY <2>2, ShortLog
  <2> QED
    BY <2>1, <2>3 DEF IInv, TypeOK
<1> QED
  BY GatewayInductive, <1>1, PTL

(* What the observers are told of one request is a story.                  *)
THEOREM StoryCorrect == Spec => []EventsTellAStory
<1>1. IInv => EventsTellAStory
  <2> SUFFICES ASSUME IInv, NEW r \in Requests
               PROVE  LET log == g[r].log
                          told == ToSet(log)
                      IN /\ log # <<>> => log[1] = "request_started"
                         /\ \A i, j \in DOMAIN log :
                              i < j => EventRank[log[i]] < EventRank[log[j]]
                         /\ {"queued", "terminal"} \subseteq told =>
                              told \intersect {"admitted", "refused"} # {}
                         /\ "first_output" \in told => "admitted" \in told
                         /\ log # <<>> => ("terminal" \in told <=> g[r].outcome # "none")
    BY DEF EventsTellAStory
  <2>1. StoryOf(g[r]) /\ PlaceOf(g[r])
    BY OfHandler
  <2>2. "terminal" \in Told(g[r]) => g[r].pc # "waiting"
    BY <2>1 DEF PlaceOf
  <2> QED
    BY <2>1, <2>2 DEF StoryOf, InOrder, Told
<1> QED
  BY GatewayInductive, <1>1, PTL

(* Leases and waiters belong to handlers that will let go of them.         *)
THEOREM NothingIsLeaked == Spec => []NothingLeaks
<1>1. IInv => NothingLeaks
  BY OfHandler DEF NothingLeaks, HoldOf
<1> QED
  BY GatewayInductive, <1>1, PTL

(* A client that left never keeps the backend busy.                        *)
THEOREM AbortsReachBackend == Spec => []AbortReachesBackend
<1>1. IInv => AbortReachesBackend
  BY OfHandler DEF AbortReachesBackend, PlaceOf
<1> QED
  BY GatewayInductive, <1>1, PTL

(* A set of requests that all hold a lease is within the limit. *)
LEMMA LeasedWithinLimit ==
  ASSUME IInv, NEW S \in SUBSET Requests, \A r \in S : g[r].lease
  PROVE  Cardinality(S) <= ConcurrencyLimit
<1>1. \A r \in S : status[r] = "admitted"
  BY OfHandler DEF HoldOf
<1>2. S \in SUBSET AP!Running
  BY <1>1 DEF AP!Running
<1>3. \A T : AP!Cardinality(T) = Cardinality(T) /\ (AP!IsFiniteSet(T) <=> IsFiniteSet(T))
  BY DEF AP!Cardinality, Cardinality, AP!IsFiniteSet, IsFiniteSet
<1>4. IsFiniteSet(AP!Running) /\ active = Cardinality(AP!Running)
  BY <1>3 DEF IInv, AP!IInv, AP!CountersExact
<1>5. IsFiniteSet(S) /\ Cardinality(S) <= active
  BY <1>2, <1>4, FS_Subset
<1>6. Cardinality(S) \in Nat
  BY <1>5, FS_CardinalityType
<1> QED
  BY <1>5, <1>6, ControllerConstants DEF IInv, AP!IInv, AP!TypeOK

(* Neither the backend nor an observer sees more generations than the      *)
(* limit, whatever the interleaving of releases, wake-ups and aborts.      *)
THEOREM LimitIsKept == Spec => []WithinLimit
<1>1. IInv => WithinLimit
  <2> SUFFICES ASSUME IInv PROVE WithinLimit
    OBVIOUS
  <2> DEFINE open == {r \in Requests : /\ g[r].kind = "generation"
                                       /\ g[r].upstream = "open" /\ ~g[r].stopped}
             shown == {r \in Requests : /\ "admitted" \in ToSet(g[r].log)
                                        /\ "terminal" \notin ToSet(g[r].log)}
  <2>1. ASSUME NEW r \in Requests, g[r].kind = "generation", g[r].upstream = "open",
               ~g[r].stopped
        PROVE  g[r].lease
    BY <2>1, OfHandler DEF PlaceOf, StoryOf, Working
  <2>2. ASSUME NEW r \in Requests, "admitted" \in Told(g[r]), "terminal" \notin Told(g[r])
        PROVE  g[r].lease
    <3>1. g[r].log # <<>>
      BY <2>2, EmptyLog DEF Told
    <3> QED
      BY <2>2, <3>1, OfHandler DEF StoryOf
  <2>3. /\ open \in SUBSET Requests /\ \A r \in open : g[r].lease
        /\ shown \in SUBSET Requests /\ \A r \in shown : g[r].lease
    BY <2>1, <2>2 DEF Told
  <2> HIDE DEF open, shown
  <2>4. Cardinality(open) <= ConcurrencyLimit /\ Cardinality(shown) <= ConcurrencyLimit
    BY <2>3, LeasedWithinLimit
  <2> QED
    BY <2>4 DEF WithinLimit, ExchangesWithinLimit, ShownWithinLimit, open, shown
<1> QED
  BY GatewayInductive, <1>1, PTL

-----------------------------------------------------------------------------
(* Blame. *)

BlameOf(q, outcome) ==
  /\ outcome = "cancelled" => q.aborted \/ q.stopped
  /\ outcome = "upstream_error" => ~q.stopped

Blame == \A r \in Requests : g[r].outcome = "none" => BlameOf(g[r], g'[r].outcome)

(* A step that leaves the outcome of the handler it moves alone. *)
LEMMA OutcomeStays ==
  ASSUME IInv, NEW r \in Requests, NEW q, g' = [g EXCEPT ![r] = q],
         q.outcome = g[r].outcome \/ q.outcome \in {"none", "rejected"}
  PROVE  Blame
<1> SUFFICES ASSUME NEW x \in Requests, g[x].outcome = "none"
             PROVE  BlameOf(g[x], g'[x].outcome)
  BY DEF Blame
<1>1. CASE x = r
  BY <1>1, OfHandler DEF BlameOf
<1>2. CASE x # r
  BY <1>2, OfHandler DEF BlameOf
<1> QED
  BY <1>1, <1>2

(* A step that calls finalize(). *)
LEMMA EndBlames ==
  ASSUME IInv, NEW r \in Requests, NEW q \in Handlers, NEW result, Ends(r, q, result),
         q.outcome = g[r].outcome,
         g[r].outcome = "none" => BlameOf(g[r], result)
  PROVE  Blame
<1>1. g' = [g EXCEPT ![r] = Finalized(q, result)]
  BY DEF Ends
<1>2. q.outcome = "none" => Finalized(q, result).outcome = result
  BY DEF Finalized, Handlers
<1> SUFFICES ASSUME NEW x \in Requests, g[x].outcome = "none"
             PROVE  BlameOf(g[x], g'[x].outcome)
  BY DEF Blame
<1>3. CASE x = r
  BY <1>1, <1>2, <1>3, OfHandler DEF BlameOf
<1>4. CASE x # r
  BY <1>1, <1>4, OfHandler DEF BlameOf
<1> QED
  BY <1>3, <1>4

LEMMA ClosedOutcome ==
  ASSUME NEW q \in Handlers
  PROVE  /\ Closed(q) \in Handlers /\ Closed(q).outcome = q.outcome
         /\ Cleaned(q) \in Handlers /\ Cleaned(q).outcome = q.outcome
<1>1. Cleaned(q) \in Handlers /\ Cleaned(q).outcome = q.outcome
  BY DEF Cleaned, Handlers
<1> QED
  BY <1>1 DEF Closed, Cleaned, Handlers

(* Before the backend is reached only the client can have cancelled. *)
LEMMA EarlyBlame ==
  ASSUME IInv, NEW r \in Requests, g[r].pc = "authenticating",
         \/ \E result \in {"rejected", "configuration_error"} : AuthenticationFails(r, result)
         \/ RefusedEarly(r) \/ DiscoveryForwarded(r) \/ AdmittedAtOnce(r)
         \/ RefusedForCapacity(r) \/ Enqueued(r)
  PROVE  Blame
<1> DEFINE s == Started(r)
<1>1. /\ g[r] \in Handlers /\ s \in Handlers /\ s.outcome = "none" /\ g[r].outcome = "none"
      /\ g[r].upstream = "none"
  BY StartedIs, Authenticating, OfHandler DEF Handlers
<1>2. ASSUME NEW result \in {"rejected", "configuration_error"}, AuthenticationFails(r, result)
      PROVE  Blame
  <2> DEFINE q == [g[r] EXCEPT !.pc = "done"]
  <2>1. q \in Handlers /\ q.outcome = g[r].outcome
    BY <1>1 DEF Handlers
  <2>2. Ends(r, q, result) /\ BlameOf(g[r], result)
    BY <1>2 DEF AuthenticationFails, BlameOf
  <2> HIDE DEF q
  <2> QED
    BY <2>1, <2>2, EndBlames
<1> HIDE DEF s
<1>3. ASSUME RefusedEarly(r) PROVE Blame
  <2> DEFINE q == [s EXCEPT !.pc = "done"]
  <2>1. q \in Handlers /\ q.outcome = "none"
    BY <1>1 DEF Handlers
  <2>2. Ends(r, q, EarlyResult(r)) /\ BlameOf(g[r], EarlyResult(r))
    BY <1>3 DEF RefusedEarly, BlameOf, EarlyResult, s
  <2> HIDE DEF q
  <2> QED
    BY <1>1, <2>1, <2>2, EndBlames
<1>4. ASSUME DiscoveryForwarded(r) PROVE Blame
  <2>1. Forwarded(s).outcome = "none"
    BY <1>1 DEF Forwarded, Handlers
  <2> QED
    BY <1>4, <2>1, OutcomeStays DEF DiscoveryForwarded, Continues, s
<1>5. ASSUME AdmittedAtOnce(r) PROVE Blame
  <2>1. Forwarded(Admitted(s)).outcome = "none"
    BY <1>1 DEF Forwarded, Admitted, Handlers
  <2> QED
    BY <1>5, <2>1, OutcomeStays DEF AdmittedAtOnce, Continues, s
<1>6. ASSUME RefusedForCapacity(r) PROVE Blame
  <2>1. Finalized(Refused(s), "rejected").outcome = "rejected"
    BY <1>1 DEF Finalized, Refused, Handlers
  <2> QED
    BY <1>6, <2>1, OutcomeStays DEF RefusedForCapacity, Continues, s
<1>7. ASSUME Enqueued(r) PROVE Blame
  <2>1. [s EXCEPT !.pc = "waiting", !.log = Append(@, "queued")].outcome = "none"
    BY <1>1 DEF Handlers
  <2> QED
    BY <1>7, <2>1, OutcomeStays DEF Enqueued, Continues, s
<1> QED
  BY <1>2, <1>3, <1>4, <1>5, <1>6, <1>7

(* A waiter that is cancelled is one whose client aborted. *)
LEMMA WakeBlame ==
  ASSUME IInv, NEW r \in Requests, WakesAdmitted(r) \/ WakesRefused(r)
  PROVE  Blame
<1> DEFINE s == g[r]
<1>1. s \in Handlers /\ s.pc = "waiting" /\ s.outcome = "none"
      /\ (status[r] = "cancelled" => s.aborted)
  BY OfHandler DEF WakesAdmitted, WakesRefused, PlaceOf, HoldOf
<1> HIDE DEF s
<1>2. ASSUME WakesAdmitted(r) PROVE Blame
  <2>1. Forwarded(Admitted(s)).outcome = "none"
    BY <1>1 DEF Forwarded, Admitted, Handlers
  <2> QED
    BY <1>2, <2>1, OutcomeStays DEF WakesAdmitted, Continues, s
<1>3. ASSUME WakesRefused(r) PROVE Blame
  <2> DEFINE result == IF status[r] = "cancelled" THEN "cancelled" ELSE "rejected"
             q == Refused(s)
  <2>1. s.log # <<>> /\ InOrder(s.log) /\ Told(s) = {"request_started", "queued"} /\ ~s.lease
    BY <1>1, OfHandler, EmptyLog DEF PlaceOf, StoryOf, Told, s
  <2>2. q \in Handlers /\ q = [s EXCEPT !.pc = "done", !.log = q.log]
    BY <1>1, <2>1, RefusedIs
  <2>3. Ends(r, q, result) /\ BlameOf(s, result)
    BY <1>1, <1>3 DEF WakesRefused, BlameOf, s
  <2> HIDE DEF q, result
  <2>4. q.outcome = s.outcome
    BY <1>1, <2>2 DEF Handlers
  <2> QED
    BY <2>2, <2>3, <2>4, EndBlames DEF s
<1> QED
  BY <1>2, <1>3

(* An exchange fails on its own account, or because it was told to stop. *)
LEMMA FailureBlame == \A q : BlameOf(q, Failure(q))
BY DEF BlameOf, Failure

LEMMA AnswerBlame ==
  ASSUME IInv, NEW r \in Requests,
         \/ FetchFails(r) \/ AnswersEmpty(r) \/ AnswersError(r) \/ AnswersBody(r)
         \/ \E failed \in BOOLEAN : ErrorBodyRead(r, failed)
         \/ ErrorRelayed(r) \/ Pull(r) \/ CancelSettles(r)
  PROVE  Blame
<1> DEFINE q == Closed(g[r])
<1>1. g[r] \in Handlers /\ PlaceOf(g[r])
  BY OfHandler
<1>2. q \in Handlers /\ q.outcome = g[r].outcome
  BY <1>1, ClosedOutcome
<1> HIDE DEF q
<1>3. ASSUME FetchFails(r) PROVE Blame
  BY <1>2, <1>3, FailureBlame, EndBlames DEF FetchFails, q
<1>4. ASSUME AnswersEmpty(r) PROVE Blame
  BY <1>2, <1>4, EndBlames DEF AnswersEmpty, BlameOf, q
<1>5. ASSUME AnswersError(r) \/ AnswersBody(r) \/ Pull(r) PROVE Blame
  <2>1. \A pc : [g[r] EXCEPT !.pc = pc].outcome = g[r].outcome
    BY <1>1 DEF Handlers
  <2>2. [g[r] EXCEPT !.pull = TRUE].outcome = g[r].outcome
    BY <1>1 DEF Handlers
  <2> QED
    BY <1>5, <2>1, <2>2, OutcomeStays DEF AnswersError, AnswersBody, Pull, Continues
<1>6. ASSUME NEW failed \in BOOLEAN, ErrorBodyRead(r, failed) PROVE Blame
  <2>1. CASE failed /\ g[r].stopped
    BY <1>2, <1>6, <2>1, EndBlames DEF ErrorBodyRead, BlameOf, q
  <2>2. CASE ~(failed /\ g[r].stopped)
    <3>1. \A pc : [g[r] EXCEPT !.pc = pc, !.upstream = "closed"].outcome = g[r].outcome
      BY <1>1 DEF Handlers
    <3> QED
      BY <1>6, <2>2, <3>1, OutcomeStays DEF ErrorBodyRead, Continues
  <2> QED
    BY <2>1, <2>2
<1>7. ASSUME ErrorRelayed(r) PROVE Blame
  <2> DEFINE result == IF g[r].stopped THEN "cancelled"
                       ELSE IF g[r].pc = "errorFailed" THEN "upstream_error" ELSE "completed"
  <2>1. Ends(r, q, result) /\ BlameOf(g[r], result)
    BY <1>7 DEF ErrorRelayed, BlameOf, q
  <2> HIDE DEF result
  <2> QED
    BY <1>2, <2>1, EndBlames
<1>8. ASSUME CancelSettles(r) PROVE Blame
  BY <1>1, <1>2, <1>8, EndBlames DEF CancelSettles, BlameOf, PlaceOf, q
<1> QED
  BY <1>3, <1>4, <1>5, <1>6, <1>7, <1>8

LEMMA BodyBlame ==
  ASSUME IInv, NEW r \in Requests,
         \/ \E visible \in BOOLEAN : ReadEnds(r, visible) \/ ReadChunk(r, visible)
         \/ ReadFails(r)
  PROVE  Blame
<1>1. g[r].pull /\ g[r] \in Handlers
  BY OfHandler DEF ReadEnds, ReadChunk, ReadFails
<1>2. ASSUME NEW visible \in BOOLEAN, ReadEnds(r, visible) \/ ReadChunk(r, visible)
      PROVE  Blame
  <2> DEFINE q == Shown(Resumed(g[r]), visible)
             f == IF g[r].pc = "relay" THEN Closed(q) ELSE Cleaned(q)
  <2>1. q \in Handlers /\ q.outcome = g[r].outcome /\ q.stopped = g[r].stopped
    BY <1>1, SeenIs
  <2>2. \/ Ends(r, f, "completed")
        \/ g[r].pc # "relay" /\ Ends(r, f, Failure(q))
        \/ g' = [g EXCEPT ![r] = q]
    BY <1>2 DEF ReadEnds, ReadChunk, Continues
  <2> HIDE DEF q
  <2>3. f \in Handlers /\ f.outcome = g[r].outcome
    BY <2>1, ClosedOutcome
  <2> HIDE DEF f
  <2>4. Failure(q) = Failure(g[r]) /\ BlameOf(g[r], "completed")
    BY <2>1 DEF Failure, BlameOf
  <2> QED
    BY <2>1, <2>2, <2>3, <2>4, FailureBlame, EndBlames, OutcomeStays
<1>3. ASSUME ReadFails(r) PROVE Blame
  <2> DEFINE u == Resumed(g[r])
             q == [u EXCEPT !.stopped = TRUE]
             f == IF g[r].pc = "relay" THEN Closed(q) ELSE Cleaned(q)
  <2>1. Ends(r, f, Failure(g[r]))
    BY <1>3 DEF ReadFails
  <2>2. u \in Handlers /\ u.outcome = g[r].outcome
    BY <1>1 DEF Resumed, Handlers
  <2> HIDE DEF u
  <2>3. q \in Handlers /\ q.outcome = g[r].outcome
    BY <2>2 DEF Handlers
  <2> HIDE DEF q
  <2>4. f \in Handlers /\ f.outcome = g[r].outcome
    BY <2>3, ClosedOutcome
  <2> QED
    BY <2>1, <2>4, FailureBlame, EndBlames
<1> QED
  BY <1>2, <1>3

LEMMA NextBlames == IInv /\ [Next]_vars => Blame
<1> SUFFICES ASSUME IInv, [Next]_vars PROVE Blame
  OBVIOUS
<1>1. ASSUME NEW r \in Requests, NEW kind \in ArrivingKinds, Arrive(r, kind) PROVE Blame
  <2>1. [Absent EXCEPT !.pc = "authenticating", !.kind = kind].outcome = "none"
    BY DEF Absent
  <2> QED
    BY <1>1, <2>1, OutcomeStays DEF Arrive, Continues
<1>2. ASSUME NEW r \in Requests, Settles(r) PROVE Blame
  BY <1>2, EarlyBlame, WakeBlame, AnswerBlame
  DEF Settles, AuthenticationFails, RefusedEarly, DiscoveryForwarded, AdmittedAtOnce,
      RefusedForCapacity, Enqueued, ReachesBackend
<1>3. ASSUME NEW r \in Requests, BodyEnds(r) PROVE Blame
  BY <1>3, BodyBlame DEF BodyEnds
<1>4. ASSUME NEW r \in Requests, NEW visible \in BOOLEAN, ReadChunk(r, visible) PROVE Blame
  BY <1>4, BodyBlame
<1>5. ASSUME NEW r \in Requests, CancelBody(r) PROVE Blame
  <2> DEFINE c == Cleaned(g[r])
  <2>1. c \in Handlers /\ c.outcome = g[r].outcome
    BY OfHandler, ClosedOutcome
  <2>2. g' = [g EXCEPT ![r] = [c EXCEPT !.stopped = TRUE, !.pc = "cancelling"]]
    BY <1>5 DEF CancelBody, Continues
  <2> HIDE DEF c
  <2>3. [c EXCEPT !.stopped = TRUE, !.pc = "cancelling"].outcome = g[r].outcome
    BY <2>1 DEF Handlers
  <2> QED
    BY <2>2, <2>3, OutcomeStays
<1>6. ASSUME NEW r \in Requests, ClientAborts(r) PROVE Blame
  <2>1. [g[r] EXCEPT !.aborted = TRUE, !.stopped = @ \/ g[r].listening,
                     !.listening = FALSE].outcome = g[r].outcome
    BY OfHandler, Zenon DEF Handlers
  <2> QED
    BY <1>6, <2>1, OutcomeStays DEF ClientAborts, Continues
<1>7. ASSUME g' = g PROVE Blame
  BY <1>7 DEF Blame, BlameOf
<1> QED
  BY <1>1, <1>2, <1>3, <1>4, <1>5, <1>6, <1>7 DEF Next, QueueTimerFires, vars

(* A cancellation always has somebody who went away, a failure of the      *)
(* backend never has.                                                      *)
THEOREM BlameIsAlwaysRight == Spec => BlameIsRight
<1>1. IInv /\ [Next]_vars =>
        [\A r \in Requests :
           g[r].outcome = "none" =>
             /\ g'[r].outcome = "cancelled" => g[r].aborted \/ g[r].stopped
             /\ g'[r].outcome = "upstream_error" => ~g[r].stopped]_vars
  BY NextBlames DEF Blame, BlameOf
<1> QED
  BY GatewayInductive, <1>1, PTL DEF Spec, BlameIsRight

-----------------------------------------------------------------------------
(* The controller inside the gateway.                                      *)

LEMMA ControllerMoves == [Next]_vars => [AP!Next]_controller
<1> SUFFICES ASSUME [Next]_vars PROVE [AP!Next]_controller
  OBVIOUS
<1>1. ASSUME NEW r \in Requests, NEW q, NEW result, Ends(r, q, result)
      PROVE  [AP!Next]_controller
  BY <1>1, SameController DEF Ends, AP!Next
<1>2. ASSUME NEW r \in Requests, Settles(r) PROVE [AP!Next]_controller
  <2>1. CASE AdmittedAtOnce(r) \/ RefusedForCapacity(r) \/ Enqueued(r)
    BY <2>1, SameController DEF AdmittedAtOnce, RefusedForCapacity, Enqueued, AP!Next
  <2>2. CASE \/ \E result \in {"rejected", "configuration_error"} : AuthenticationFails(r, result)
             \/ RefusedEarly(r) \/ WakesRefused(r) \/ FetchFails(r) \/ AnswersEmpty(r)
             \/ ErrorRelayed(r) \/ CancelSettles(r)
    BY <1>1, <2>2
    DEF AuthenticationFails, RefusedEarly, WakesRefused, FetchFails, AnswersEmpty,
        ErrorRelayed, CancelSettles
  <2>3. CASE DiscoveryForwarded(r) \/ WakesAdmitted(r) \/ AnswersError(r) \/ AnswersBody(r)
             \/ Pull(r)
    BY <2>3 DEF DiscoveryForwarded, WakesAdmitted, AnswersError, AnswersBody, Pull
  <2>4. CASE \E failed \in BOOLEAN : ErrorBodyRead(r, failed)
    BY <1>1, <2>4 DEF ErrorBodyRead
  <2> QED
    BY <1>2, <2>1, <2>2, <2>3, <2>4 DEF Settles
<1>3. ASSUME NEW r \in Requests, BodyEnds(r) PROVE [AP!Next]_controller
  BY <1>1, <1>3 DEF BodyEnds, ReadEnds, ReadFails
<1>4. ASSUME NEW r \in Requests, NEW visible \in BOOLEAN, ReadChunk(r, visible)
      PROVE  [AP!Next]_controller
  BY <1>1, <1>4 DEF ReadChunk
<1>5. ASSUME NEW r \in Requests, ClientAborts(r) \/ QueueTimerFires(r)
      PROVE  [AP!Next]_controller
  BY <1>5, SameController DEF ClientAborts, QueueTimerFires, AP!Next
<1>6. ASSUME NEW r \in Requests, CancelBody(r) \/ \E kind \in ArrivingKinds : Arrive(r, kind)
      PROVE  [AP!Next]_controller
  BY <1>6 DEF CancelBody, Arrive
<1>7. CASE UNCHANGED vars
  BY <1>7 DEF vars
<1> QED
  BY <1>2, <1>3, <1>4, <1>5, <1>6, <1>7 DEF Next

(* The gateway never uses its controller but by the controller's own       *)
(* operations, so what is proved of the controller holds in the gateway.   *)
THEOREM ControllerObeyed == Spec => AP!Spec
<1>1. Init => AP!Init
  BY SameController DEF Init
<1>2. [Next]_vars => [AP!Next]_(AP!vars)
  BY ControllerMoves DEF AP!vars, controller
<1> QED
  BY <1>1, <1>2, PTL DEF Spec, AP!Spec

(* Among them that it hands out its slots as FairSlots promises: first     *)
(* come first served for each principal, in turn between principals.       *)
THEOREM GatewayIsFair == Spec => AP!ImplementsFairSlots
<1>1. AP!Spec => AP!ImplementsFairSlots
  BY ControllerConstants, AP!AdmissionIsFair
<1> QED
  BY ControllerObeyed, <1>1, PTL

-----------------------------------------------------------------------------
(* Error replies (module Replies).                                         *)

(* While an error body is read nothing has been answered, all of it that   *)
(* arrived is kept, and that is within the limit.                          *)
RepliesInv ==
  /\ answer \in Errors \union {[kind |-> "stream"]}
  /\ phase = "reading" => answer \in Errors
  /\ phase \in {"reading", "relaying"} => reply = NoReply
  /\ phase = "reading" => kept = arrived
  /\ kept \in 0..MaxErrorBody
  /\ RepliesSpeakProtocol

(* What the gateway writes itself is what the protocol defines.            *)
LEMMA OwnBodyConforms ==
  ASSUME NEW protocol
  PROVE  LET body == CreateProtocolErrorBody(protocol, OwnId)
         IN /\ IsConformingProtocolError(body, protocol, OwnId)
            /\ protocol = "anthropic" => body.requestId = OwnId
<1>1. CASE protocol = "openai"
  BY <1>1
  DEF CreateProtocolErrorBody, CreateOpenAiErrorBody, IsConformingProtocolError,
      IsConformingOpenAiError, ErrorBody
<1>2. CASE protocol # "openai"
  BY <1>2
  DEF CreateProtocolErrorBody, CreateAnthropicErrorBody, IsConformingProtocolError,
      IsConformingAnthropicError, ErrorBody, OwnId
<1> QED
  BY <1>1, <1>2

(* Headers of an error reply: the request id of this request, and nothing  *)
(* about another body or another connection.                               *)
CleanHeaders(headers) ==
  /\ RequestIdHeader(answer.protocol) \in headers
  /\ headers \cap (StaleHeaders \union ResponseHeadersToStrip) = {}
  /\ (answer.named \ {RequestIdHeader(answer.protocol), "content-type"}) \cap headers = {}

LEMMA HeadersAreClean ==
  ASSUME answer \in Errors
  PROVE  /\ CleanHeaders(ReplyHeaders \ StaleHeaders)
         /\ CleanHeaders(FallbackHeaders)
         /\ CleanHeaders({"content-type", RequestIdHeader(answer.protocol)})
<1> DEFINE id == RequestIdHeader(answer.protocol)
           unwanted == StaleHeaders \union ResponseHeadersToStrip
<1>1. id \notin unwanted /\ "content-type" \notin unwanted
  BY DEF RequestIdHeader, StaleHeaders, ResponseHeadersToStrip
<1>2. "connection" \notin answer.headers => answer.named = {}
  BY ErrorsAssumption
<1>3. ReplyHeaders \cap ResponseHeadersToStrip = {}
  BY <1>1 DEF ReplyHeaders, DownstreamHeaders, SanitizedHeaders
<1>4. (answer.named \ {id}) \cap ReplyHeaders = {}
  BY <1>2 DEF ReplyHeaders, DownstreamHeaders, SanitizedHeaders
<1>5. id \in ReplyHeaders
  BY DEF ReplyHeaders, DownstreamHeaders
<1>6. CleanHeaders(ReplyHeaders \ StaleHeaders)
  BY <1>1, <1>3, <1>4, <1>5 DEF CleanHeaders
<1>7. CleanHeaders(FallbackHeaders)
  BY <1>1, <1>3, <1>4 DEF CleanHeaders, FallbackHeaders
<1>8. CleanHeaders({"content-type", id})
  BY <1>1 DEF CleanHeaders
<1> QED
  BY <1>6, <1>7, <1>8

(* A reply that may be sent when the signal is aborted, or is not.         *)
Proper(given, cancelled) ==
  /\ given.status = IF cancelled THEN 499 ELSE answer.status
  /\ IsConformingProtocolError(given.body, answer.protocol, OwnId)
  /\ answer.protocol = "anthropic" => given.body.requestId = OwnId
  /\ CleanHeaders(given.headers)
  /\ given.from = "backend" => given.body \in answer.body /\ ~cancelled
  /\ given.blamed => ~cancelled

LEMMA FallbackIsProper ==
  ASSUME NEW code, NEW headers, NEW blamed \in BOOLEAN, NEW cancelled \in BOOLEAN,
         CleanHeaders(headers), blamed => ~cancelled,
         code = IF cancelled THEN 499 ELSE answer.status
  PROVE  Proper(Fallback(code, headers, blamed), cancelled)
<1> DEFINE given == Fallback(code, headers, blamed)
<1>1. /\ given.status = code /\ given.from = "gateway" /\ given.headers = headers
      /\ given.body = CreateProtocolErrorBody(answer.protocol, OwnId)
      /\ given.blamed = blamed
  BY DEF Fallback
<1>2. /\ IsConformingProtocolError(given.body, answer.protocol, OwnId)
      /\ answer.protocol = "anthropic" => given.body.requestId = OwnId
  BY <1>1, OwnBodyConforms
<1>3. CleanHeaders(given.headers)
  BY <1>1
<1> HIDE DEF given
<1>4. Proper(given, cancelled)
  BY <1>1, <1>2, <1>3 DEF Proper
<1> QED
  BY <1>4 DEF given

(* The end of the handler: the answer stands unless the client has left    *)
(* meanwhile, and then nothing of it does.                                 *)
LEMMA AnswersClientOK ==
  ASSUME RepliesInv, phase = "reading", NEW normalized, AnswersClient(normalized),
         UNCHANGED kept, aborted \in BOOLEAN, ~aborted => Proper(normalized, FALSE),
         normalized.from = "backend" => kept = arrived'
  PROVE  RepliesInv'
<1>1. answer \in Errors /\ kept \in 0..MaxErrorBody
  BY DEF RepliesInv
<1>2. CleanHeaders({"content-type", RequestIdHeader(answer.protocol)})
  BY <1>1, HeadersAreClean
<1>3. Proper(Cancelled, TRUE)
  BY <1>2, FallbackIsProper DEF Cancelled
<1>4. Proper(reply', aborted)
  BY <1>3 DEF AnswersClient
<1>5. answer' = answer /\ aborted' = aborted /\ kept' = kept /\ phase' = "ended"
  BY DEF AnswersClient
<1>6. reply'.from = "backend" => kept' = arrived'
  BY <1>4, <1>5 DEF AnswersClient, Proper
<1>7. RepliesSpeakProtocol'
  BY <1>1, <1>4, <1>5, <1>6, ReplyAssumption DEF RepliesSpeakProtocol, Proper, CleanHeaders
<1> QED
  BY <1>1, <1>5, <1>7 DEF RepliesInv

LEMMA RepliesNextOK ==
  RepliesInv /\ aborted \in BOOLEAN /\ [RepliesNext]_repliesVars
    => RepliesInv' /\ (aborted \in BOOLEAN)'
<1> SUFFICES ASSUME RepliesInv, aborted \in BOOLEAN, [RepliesNext]_repliesVars
             PROVE  RepliesInv' /\ (aborted \in BOOLEAN)'
  OBVIOUS
<1>1. ASSUME NEW size \in 1..(MaxErrorBody + 1), ErrorChunk(size)
      PROVE  RepliesInv' /\ (aborted \in BOOLEAN)'
  <2>1. kept' \in 0..MaxErrorBody
    BY <1>1, ReplyAssumption DEF ErrorChunk, RepliesInv
  <2>2. reply = NoReply /\ reply' = reply
    BY <1>1 DEF ErrorChunk, RepliesInv
  <2> QED
    BY <1>1, <2>1, <2>2, ReplyAssumption
    DEF ErrorChunk, RepliesInv, RepliesSpeakProtocol, NoReply
<1>2. ASSUME NEW size \in 1..(MaxErrorBody + 1), ErrorOversized(size)
      PROVE  RepliesInv' /\ (aborted \in BOOLEAN)'
  <2>1. Proper(Fallback(answer.status, FallbackHeaders, FALSE), FALSE)
    BY <1>2, HeadersAreClean, FallbackIsProper DEF ErrorOversized, RepliesInv
  <2>2. Fallback(answer.status, FallbackHeaders, FALSE).from # "backend"
    BY DEF Fallback
  <2> QED
    BY <1>2, <2>1, <2>2, AnswersClientOK DEF ErrorOversized, AnswersClient
<1>3. CASE ErrorReadFails
  <2>1. Proper(Fallback(answer.status, FallbackHeaders, TRUE), FALSE)
    BY <1>3, HeadersAreClean, FallbackIsProper DEF ErrorReadFails, RepliesInv
  <2>2. Fallback(answer.status, FallbackHeaders, TRUE).from # "backend"
    BY DEF Fallback
  <2> QED
    BY <1>3, <2>1, <2>2, AnswersClientOK DEF ErrorReadFails, AnswersClient
<1>4. CASE ErrorBodyEnds
  <2> DEFINE passed == [status |-> answer.status, from |-> "backend",
                        headers |-> ReplyHeaders \ StaleHeaders,
                        body |-> CHOOSE body \in answer.body : TRUE, blamed |-> FALSE]
             own == Fallback(answer.status, FallbackHeaders, FALSE)
  <2>1. answer \in Errors
    BY <1>4 DEF ErrorBodyEnds, RepliesInv
  <2>2. Proper(own, FALSE)
    BY <2>1, HeadersAreClean, FallbackIsProper
  <2>3. ASSUME PassesOn PROVE Proper(passed, FALSE)
    <3>1. passed.body \in answer.body
      BY <2>3 DEF PassesOn
    <3>2. IsConformingProtocolError(passed.body, answer.protocol, OwnId)
      BY <2>3, <3>1 DEF PassesOn
    <3>3. answer.protocol = "anthropic" => passed.body.requestId = OwnId
      BY <3>2 DEF IsConformingProtocolError, IsConformingAnthropicError
    <3>4. CleanHeaders(passed.headers)
      BY <2>1, HeadersAreClean
    <3>5. passed.status = answer.status /\ passed.blamed = FALSE
      OBVIOUS
    <3> QED
      BY <3>1, <3>2, <3>3, <3>4, <3>5 DEF Proper
  <2>4. AnswersClient(IF PassesOn THEN passed ELSE own)
    BY <1>4 DEF ErrorBodyEnds
  <2> HIDE DEF passed, own
  <2>5. Proper(IF PassesOn THEN passed ELSE own, FALSE)
    BY <2>2, <2>3
  <2>6. kept = arrived'
    BY <1>4 DEF ErrorBodyEnds, RepliesInv
  <2> QED
    BY <1>4, <2>4, <2>5, <2>6, AnswersClientOK DEF ErrorBodyEnds, AnswersClient
<1>5. CASE ClientLeaves
  BY <1>5 DEF ClientLeaves, errorVars, RepliesInv, RepliesSpeakProtocol, NoReply
<1>6. CASE \/ \E piece \in {"r", "n", "d", "D"} : StreamPiece(piece)
           \/ StreamEnds
           \/ \E rest \in {<<>>, <<"h">>, <<"p">>} : StreamBreaks(rest)
  <2>1. UNCHANGED <<answer, aborted, kept, arrived, reply>> /\ phase = "relaying"
    BY <1>6 DEF StreamPiece, StreamEnds, StreamBreaks, Relay, errorVars
  <2>2. phase' \in {"relaying", "ended"}
    BY <1>6 DEF StreamPiece, StreamEnds, StreamBreaks, Relay
  <2> QED
    BY <2>1, <2>2 DEF RepliesInv, RepliesSpeakProtocol
<1>7. CASE ClientReadsEnd \/ \E size \in 1..Len(net) : ClientReads(size)
  BY <1>7 DEF ClientReadsEnd, ClientReads, errorVars, RepliesInv, RepliesSpeakProtocol
<1>8. CASE UNCHANGED repliesVars
  BY <1>8 DEF repliesVars, RepliesInv, RepliesSpeakProtocol
<1> QED
  BY <1>1, <1>2, <1>3, <1>4, <1>5, <1>6, <1>7, <1>8 DEF RepliesNext

(* normalizeUpstreamErrorResponse() and the end of handleGatewayRequest(): *)
(* whatever a backend answers, in chunks of any size up to any limit, an   *)
(* error reply is of the client's protocol and of its request.             *)
THEOREM ErrorsAreTranslated == RepliesSpec => []RepliesSpeakProtocol
<1>1. RepliesInit => RepliesInv /\ aborted \in BOOLEAN
  <2> SUFFICES ASSUME RepliesInit PROVE RepliesInv /\ aborted \in BOOLEAN
    OBVIOUS
  <2>1. kept \in 0..MaxErrorBody /\ kept = arrived /\ reply = NoReply /\ aborted = FALSE
    BY ReplyAssumption DEF RepliesInit
  <2>2. RepliesSpeakProtocol
    BY <2>1, ReplyAssumption DEF RepliesSpeakProtocol, NoReply
  <2>3. phase = "reading" => answer \in Errors
    BY DEF RepliesInit
  <2> QED
    BY <2>1, <2>2, <2>3 DEF RepliesInit, RepliesInv
<1>2. RepliesInv => RepliesSpeakProtocol
  BY DEF RepliesInv
<1> QED
  BY <1>1, <1>2, RepliesNextOK, PTL DEF RepliesSpec

=============================================================================
