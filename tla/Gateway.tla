------------------------------- MODULE Gateway -------------------------------
(***************************************************************************)
(* One inference gateway process: handleGatewayRequest for many concurrent *)
(* requests (proxy-stream.ts), the lifecycle object each of them reports   *)
(* through (request-lifecycle.ts), and the admission controller they share *)
(* (module Admission, instantiated as A).                                  *)
(*                                                                         *)
(* An action is what the code does between two awaits.  The client (abort  *)
(* signal), the authenticator, the backend and the consumer of the         *)
(* returned body act in any order; a promise may be settled long before    *)
(* the continuation that awaits it runs.                                   *)
(***************************************************************************)
EXTENDS Integers, FiniteSets, SequencesExt

CONSTANTS Principals, Requests, Owner, ConcurrencyLimit, MaxQueued,
          MaxQueuedPerPrincipal,
          ArrivingKinds,  \* the kinds of requests that arrive
          Answers         \* what the backend may answer a fetch with

VARIABLES active, queued, waiters, order, status,   \* of the controller
          backendOk,      \* LLAMA_SERVER_URL parses
          admissionOk,    \* ~admissionConfigurationError
          g               \* g[r]: the state of request r, see Absent

A == INSTANCE Admission

ASSUME ControllerAssumption ==
  /\ Owner \in [Requests -> Principals]
  /\ ConcurrencyLimit \in Nat \ {0}
  /\ A!ValidConfig(MaxQueued, MaxQueuedPerPrincipal)

controller == <<active, queued, waiters, order, status>>

vars == <<controller, backendOk, admissionOk, g>>

Kinds == {"generation", "discovery", "routing_rejection"}

ASSUME EnvironmentAssumption ==
  /\ ArrivingKinds \subseteq Kinds
  /\ Answers \subseteq {"empty", "error", "body"}

Results == {"none", "completed", "cancelled", "rejected", "upstream_error",
            "configuration_error"}

Events == {"request_started", "queued", "admitted", "refused", "first_output",
           "terminal"}

(* pc: the await the handler is at; pull: whether a pull() of the returned *)
(* body awaits reader.read().  aborted is the client's signal, stopped the *)
(* abortController's; listening says that the first is wired to the second.*)
(* lease is generationLease # null, outcome # "none" is finalized, and an  *)
(* empty log means that no observer is attached.                           *)
Handlers ==
  [pc : {"absent", "authenticating", "waiting", "fetching", "errorBody",
         "errorFailed", "errorRead", "relay", "cancelling", "done"},
   kind : Kinds, aborted : BOOLEAN, stopped : BOOLEAN, listening : BOOLEAN,
   upstream : {"none", "open", "closed"}, pull : BOOLEAN, lease : BOOLEAN,
   log : Seq(Events), outcome : Results]

Absent == [pc |-> "absent", kind |-> "discovery", aborted |-> FALSE,
           stopped |-> FALSE, listening |-> FALSE, upstream |-> "none",
           pull |-> FALSE, lease |-> FALSE, log |-> <<>>, outcome |-> "none"]

Init ==
  /\ A!Init
  /\ backendOk \in BOOLEAN
  /\ admissionOk \in BOOLEAN
  /\ g = [r \in Requests |-> Absent]

-----------------------------------------------------------------------------
(* The lifecycle object.                                                   *)

(* observe(): nothing without an observer. *)
Observed(q, event) == IF q.log = <<>> THEN q.log ELSE Append(q.log, event)

(* Mutant: recordFirstOutput without its early return. *)
FirstOutputAlways(q) == [q EXCEPT !.log = Observed(q, "first_output")]

FirstOutput(q) ==
  IF "first_output" \in ToSet(q.log) \/ q.outcome # "none" THEN q
  ELSE [q EXCEPT !.log = Observed(q, "first_output")]

(* Mutant: finalize() without its `finalized` early return. *)
FinalizedAgain(q, result) ==
  [q EXCEPT !.outcome = result, !.lease = FALSE, !.log = Observed(q, "terminal")]

Finalized(q, result) ==
  IF q.outcome # "none" THEN q
  ELSE [q EXCEPT !.outcome = result,
                 !.lease = FALSE,
                 !.log = Observed(q, "terminal")]

(* Mutant: finalize() reports the end and keeps the lease. *)
EndsHoldingLease(r, q, result) ==
  /\ g' = [g EXCEPT ![r] = Finalized(q, result)]
  /\ UNCHANGED controller

(* Mutant: the successor is dispatched, the end is left to be told later. *)
EndsTellingLate(r, q, result) ==
  /\ g' = [g EXCEPT ![r] = [Finalized(q, result) EXCEPT !.log = q.log]]
  /\ IF q.lease /\ q.outcome = "none" THEN A!Release(r) ELSE UNCHANGED controller

(* finalize(): the lease is released, and its successor dispatched, in the *)
(* call that emits the terminal event.                                     *)
Ends(r, q, result) ==
  /\ g' = [g EXCEPT ![r] = Finalized(q, result)]
  /\ IF q.lease /\ q.outcome = "none" THEN A!Release(r) ELSE UNCHANGED controller

Continues(r, q) == g' = [g EXCEPT ![r] = q]

-----------------------------------------------------------------------------
(* From arrival to the await of the backend.                               *)

Arrive(r, kind) ==
  /\ g[r].pc \in {"absent", "done"} /\ ~g[r].pull
  /\ Continues(r, [Absent EXCEPT !.pc = "authenticating", !.kind = kind])
  /\ UNCHANGED <<controller, backendOk, admissionOk>>

(* authenticate() rejects or throws; no observer is attached yet. *)
AuthenticationFails(r, result) ==
  /\ g[r].pc = "authenticating"
  /\ Ends(r, [g[r] EXCEPT !.pc = "done"], result)
  /\ UNCHANGED <<backendOk, admissionOk>>

Started(r) == [g[r] EXCEPT !.log = <<"request_started">>]

(* The refusals between authentication and admission, in the code's order. *)
EarlyResult(r) ==
  IF g[r].aborted THEN "cancelled"
  ELSE IF g[r].kind = "routing_rejection" THEN "rejected"
  ELSE IF ~backendOk \/ (g[r].kind = "generation" /\ ~admissionOk)
         THEN "configuration_error"
  ELSE "none"

RefusedEarly(r) ==
  /\ g[r].pc = "authenticating"
  /\ EarlyResult(r) # "none"
  /\ Ends(r, [Started(r) EXCEPT !.pc = "done"], EarlyResult(r))
  /\ UNCHANGED <<backendOk, admissionOk>>

(* Mutant: the abort signal is not looked at before it is listened to. *)
ForwardedBlindly(q) ==
  [q EXCEPT !.pc = "fetching", !.listening = TRUE, !.upstream = "open"]

(* Wiring the abort signals and calling fetch.  A fetch whose signal is    *)
(* aborted opens no exchange.                                              *)
Forwarded(q) ==
  IF q.aborted THEN [q EXCEPT !.pc = "fetching", !.stopped = TRUE]
  ELSE [q EXCEPT !.pc = "fetching", !.listening = TRUE, !.upstream = "open"]

Admitted(q) == [q EXCEPT !.lease = TRUE, !.log = Observed(q, "admitted")]

Refused(q) == [q EXCEPT !.pc = "done", !.log = Observed(q, "refused")]

ReachesBackend(r, kind) ==
  /\ g[r].pc = "authenticating"
  /\ EarlyResult(r) = "none"
  /\ g[r].kind = kind
  /\ UNCHANGED <<backendOk, admissionOk>>

DiscoveryForwarded(r) ==
  /\ ReachesBackend(r, "discovery")
  /\ Continues(r, Forwarded(Started(r)))
  /\ UNCHANGED controller

AdmittedAtOnce(r) ==
  /\ ReachesBackend(r, "generation")
  /\ A!AcquireAdmitted(r)
  /\ Continues(r, Forwarded(Admitted(Started(r))))

RefusedForCapacity(r) ==
  /\ ReachesBackend(r, "generation")
  /\ A!AcquireRejected(r)
  /\ Continues(r, Finalized(Refused(Started(r)), "rejected"))

Enqueued(r) ==
  /\ ReachesBackend(r, "generation")
  /\ A!AcquireQueued(r)
  /\ Continues(r, [Started(r) EXCEPT !.pc = "waiting", !.log = Append(@, "queued")])

(* The continuation after attempt.wait: the decision was taken earlier, by *)
(* a release, the timer or the abort listener.                             *)
WakesAdmitted(r) ==
  /\ g[r].pc = "waiting"
  /\ status[r] = "admitted"
  /\ Continues(r, Forwarded(Admitted(g[r])))
  /\ UNCHANGED <<controller, backendOk, admissionOk>>

WakesRefused(r) ==
  /\ g[r].pc = "waiting"
  /\ status[r] \in {"cancelled", "timed_out"}
  /\ Ends(r, Refused(g[r]), IF status[r] = "cancelled" THEN "cancelled" ELSE "rejected")
  /\ UNCHANGED <<backendOk, admissionOk>>

-----------------------------------------------------------------------------
(* The backend answers (fetch and the body are external: they settle in    *)
(* any way, also after an abort that came too late to change the result).  *)

Cleaned(q) == [q EXCEPT !.listening = FALSE]

Closed(q) == [Cleaned(q) EXCEPT !.pc = "done", !.upstream = "closed"]

Failure(q) == IF q.stopped THEN "cancelled" ELSE "upstream_error"

FetchFails(r) ==
  /\ g[r].pc = "fetching"
  /\ Ends(r, Closed(g[r]), Failure(g[r]))
  /\ UNCHANGED <<backendOk, admissionOk>>

FetchAnswers(r, answer) ==
  /\ g[r].pc = "fetching" /\ g[r].upstream = "open"
  /\ answer \in Answers

AnswersEmpty(r) ==
  /\ FetchAnswers(r, "empty")
  /\ Ends(r, Closed(g[r]), "completed")
  /\ UNCHANGED <<backendOk, admissionOk>>

AnswersError(r) ==
  /\ FetchAnswers(r, "error")
  /\ Continues(r, [g[r] EXCEPT !.pc = "errorBody"])
  /\ UNCHANGED <<controller, backendOk, admissionOk>>

AnswersBody(r) ==
  /\ FetchAnswers(r, "body")
  /\ Continues(r, [g[r] EXCEPT !.pc = "relay"])
  /\ UNCHANGED <<controller, backendOk, admissionOk>>

(* normalizeUpstreamErrorResponse: a failed read is rethrown only when the *)
(* signal is aborted by then.                                              *)
ErrorBodyRead(r, failed) ==
  /\ g[r].pc = "errorBody"
  /\ IF failed /\ g[r].stopped
       THEN Ends(r, Closed(g[r]), "cancelled")
       ELSE /\ Continues(r, [g[r] EXCEPT !.pc = IF failed THEN "errorFailed" ELSE "errorRead",
                                         !.upstream = "closed"])
            /\ UNCHANGED controller
  /\ UNCHANGED <<backendOk, admissionOk>>

(* The handler looks at the signal again when it resumes. *)
ErrorRelayed(r) ==
  /\ g[r].pc \in {"errorFailed", "errorRead"}
  /\ Ends(r, Closed(g[r]),
          IF g[r].stopped THEN "cancelled"
          ELSE IF g[r].pc = "errorFailed" THEN "upstream_error" ELSE "completed")
  /\ UNCHANGED <<backendOk, admissionOk>>

-----------------------------------------------------------------------------
(* The body handed to the host: pull() and cancel().                       *)

Pull(r) ==
  /\ g[r].pc = "relay" /\ ~g[r].pull
  /\ Continues(r, [g[r] EXCEPT !.pull = TRUE])
  /\ UNCHANGED <<controller, backendOk, admissionOk>>

(* The continuation of reader.read(); the body may have been cancelled     *)
(* since, in which case cancel() still owns pc.                            *)
Resumed(q) == [q EXCEPT !.pull = FALSE]

Shown(q, visible) == IF visible /\ q.kind = "generation" THEN FirstOutput(q) ELSE q

ReadEnds(r, visible) ==
  /\ g[r].pull
  /\ LET q == Shown(Resumed(g[r]), visible)
     IN Ends(r, IF g[r].pc = "relay" THEN Closed(q) ELSE Cleaned(q), "completed")
  /\ UNCHANGED <<backendOk, admissionOk>>

(* A chunk; enqueue() throws when the body was cancelled meanwhile. *)
ReadChunk(r, visible) ==
  /\ g[r].pull
  /\ LET q == Shown(Resumed(g[r]), visible)
     IN IF g[r].pc = "relay"
          THEN Continues(r, q) /\ UNCHANGED controller
          ELSE Ends(r, Cleaned(q), Failure(q))
  /\ UNCHANGED <<backendOk, admissionOk>>

(* Mutant: the signal is read after the failure itself aborted it. *)
ReadFailsBlamingLate(r) ==
  /\ g[r].pull
  /\ LET q == [Resumed(g[r]) EXCEPT !.stopped = TRUE]
     IN Ends(r, IF g[r].pc = "relay" THEN Closed(q) ELSE Cleaned(q), Failure(q))
  /\ UNCHANGED <<backendOk, admissionOk>>

(* The read rejects: an unaborted exchange is aborted before the lease is  *)
(* given back.                                                             *)
ReadFails(r) ==
  /\ g[r].pull
  /\ LET q == [Resumed(g[r]) EXCEPT !.stopped = TRUE]
     IN Ends(r, IF g[r].pc = "relay" THEN Closed(q) ELSE Cleaned(q), Failure(g[r]))
  /\ UNCHANGED <<backendOk, admissionOk>>

CancelBody(r) ==
  /\ g[r].pc = "relay"
  /\ Continues(r, [Cleaned(g[r]) EXCEPT !.stopped = TRUE, !.pc = "cancelling"])
  /\ UNCHANGED <<controller, backendOk, admissionOk>>

(* reader.cancel() settles, either way. *)
CancelSettles(r) ==
  /\ g[r].pc = "cancelling"
  /\ Ends(r, Closed(g[r]), "cancelled")
  /\ UNCHANGED <<backendOk, admissionOk>>

-----------------------------------------------------------------------------
(* The client leaves: every listener of its signal runs at once.           *)
ClientAborts(r) ==
  /\ g[r].pc \notin {"absent", "done"} /\ ~g[r].aborted
  /\ Continues(r, [g[r] EXCEPT !.aborted = TRUE,
                               !.stopped = @ \/ g[r].listening,
                               !.listening = FALSE])
  /\ IF status[r] = "queued" THEN A!Abort(r) ELSE UNCHANGED controller
  /\ UNCHANGED <<backendOk, admissionOk>>

QueueTimerFires(r) == A!Timeout(r) /\ UNCHANGED <<backendOk, admissionOk, g>>

Settles(r) ==
  \/ \E result \in {"rejected", "configuration_error"} : AuthenticationFails(r, result)
  \/ RefusedEarly(r)
  \/ DiscoveryForwarded(r)
  \/ AdmittedAtOnce(r)
  \/ RefusedForCapacity(r)
  \/ Enqueued(r)
  \/ WakesAdmitted(r)
  \/ WakesRefused(r)
  \/ FetchFails(r)
  \/ AnswersEmpty(r)
  \/ AnswersError(r)
  \/ AnswersBody(r)
  \/ \E failed \in BOOLEAN : ErrorBodyRead(r, failed)
  \/ ErrorRelayed(r)
  \/ Pull(r)
  \/ CancelSettles(r)

BodyEnds(r) == (\E visible \in BOOLEAN : ReadEnds(r, visible)) \/ ReadFails(r)

Next ==
  \E r \in Requests :
    \/ \E kind \in ArrivingKinds : Arrive(r, kind)
    \/ Settles(r)
    \/ BodyEnds(r)
    \/ \E visible \in BOOLEAN : ReadChunk(r, visible)
    \/ CancelBody(r)
    \/ ClientAborts(r)
    \/ QueueTimerFires(r)

Spec == Init /\ [][Next]_vars

(* Every await the code makes settles some day; the host pulls or cancels  *)
(* the body it was given; a body that is read again and again ends.        *)
Fairness ==
  \A r \in Requests : WF_vars(Settles(r)) /\ SF_vars(BodyEnds(r))

FairSpec == Spec /\ Fairness

-----------------------------------------------------------------------------
(* Properties. *)

TypeOK ==
  /\ A!TypeOK
  /\ backendOk \in BOOLEAN /\ admissionOk \in BOOLEAN
  /\ g \in [Requests -> Handlers]
  /\ \A r \in Requests : Len(g[r].log) <= 5

EventRank ==
  [e \in Events |->
     CASE e = "request_started" -> 1
       [] e = "queued" -> 2
       [] e \in {"admitted", "refused"} -> 3
       [] e = "first_output" -> 4
       [] e = "terminal" -> 5]

(* What a principal's observers are told of one request is a story: the    *)
(* start, then at most one of each later event in the order of the         *)
(* lifecycle, a decision for every wait, output only after an admission,   *)
(* one end, and nothing after it.                                          *)
EventsTellAStory ==
  \A r \in Requests :
    LET log == g[r].log
        told == ToSet(log)
    IN /\ log # <<>> => log[1] = "request_started"
       /\ \A i, j \in DOMAIN log : i < j => EventRank[log[i]] < EventRank[log[j]]
       /\ {"queued", "terminal"} \subseteq told => told \intersect {"admitted", "refused"} # {}
       /\ "first_output" \in told => "admitted" \in told
       /\ log # <<>> => ("terminal" \in told <=> g[r].outcome # "none")

(* Put together, the events of all principals never show more generations  *)
(* running than the limit: an end is told before the admission it allows.  *)
ShownWithinLimit ==
  Cardinality({r \in Requests : "admitted" \in ToSet(g[r].log) /\ "terminal" \notin ToSet(g[r].log)})
    <= ConcurrencyLimit

(* No more generation exchanges with the backend are open, and not told to *)
(* stop, than the limit: a lease is never given back before its exchange   *)
(* ended or was aborted.                                                   *)
ExchangesWithinLimit ==
  Cardinality({r \in Requests : /\ g[r].kind = "generation"
                                /\ g[r].upstream = "open" /\ ~g[r].stopped})
    <= ConcurrencyLimit

(* Neither the backend nor an observer ever sees more generations than the *)
(* limit.                                                                  *)
WithinLimit == ExchangesWithinLimit /\ ShownWithinLimit

(* Whatever a request holds in the controller it will still let go of: an  *)
(* unreleased lease belongs to a handler that has not finalized, a waiter  *)
(* to a handler that awaits it, and a handler's lease is really held.      *)
NothingLeaks ==
  \A r \in Requests :
    /\ status[r] = "queued" => g[r].pc = "waiting" /\ ~g[r].aborted
    /\ status[r] = "admitted" =>
         /\ g[r].outcome = "none"
         /\ g[r].lease \/ g[r].pc = "waiting"
    /\ g[r].lease => status[r] = "admitted"

(* A client that left never keeps the backend busy: at any moment after    *)
(* its abort, also one that came while it was being admitted, its exchange *)
(* is closed, told to stop, or was never opened.                           *)
AbortReachesBackend ==
  \A r \in Requests : g[r].aborted /\ g[r].upstream = "open" => g[r].stopped

(* Blame is given where it is due: a request ends as cancelled only when   *)
(* its client or its consumer had gone away before, and as failed by the   *)
(* backend only when they had not.                                         *)
BlameIsRight ==
  [][\A r \in Requests :
       g[r].outcome = "none" =>
         /\ g'[r].outcome = "cancelled" => g[r].aborted \/ g[r].stopped
         /\ g'[r].outcome = "upstream_error" => ~g[r].stopped]_vars

(* Every request ends: it is answered and its lease is free, although the  *)
(* queue timer may never fire.                                             *)
EveryRequestEnds ==
  \A r \in Requests : g[r].pc = "authenticating" ~> g[r].pc = "done"

=============================================================================
