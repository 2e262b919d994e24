------------------------------ MODULE Analytics ------------------------------
(***************************************************************************)
(* The anonymous counters of src/features/operations-analytics: a recorder *)
(* that coalesces counts in memory and flushes them by timer, the hourly   *)
(* table they end in, and the events of demo generations that feed them.   *)
(***************************************************************************)
EXTENDS Integers, FiniteSets, FiniteSetsExt

CONSTANTS Requests,           \* generation requests of demo principals
          Hours,              \* the hours the wall clock may show
          MaxPendingEntries,  \* maxPendingEntries
          MaxCounts           \* bound on the counts accepted in a behaviour

ASSUME CapAssumption == MaxPendingEntries \in Nat \ {0} /\ MaxCounts \in Nat

VARIABLES pending,    \* counts in memory; 0 is an absent entry
          timer,      \* timer # undefined
          stored,     \* rows of anonymous_hourly_analytics; 0 is an absent row
          running,    \* requests whose observer was told the start, not the end
          accepted,   \* history: counts for which record() returned true
          lost,       \* history: accepted counts that died with a process
          refused     \* history: record() once returned false

analyticsVars == <<pending, timer, stored, running, accepted, lost, refused>>

Metrics == {"landing_page_loaded", "demo_credential_issued",
            "demo_inference_started", "demo_inference_completed",
            "demo_inference_rejected", "demo_inference_failed",
            "demo_inference_cancelled"}

EndMetrics == {"demo_inference_completed", "demo_inference_rejected",
               "demo_inference_failed", "demo_inference_cancelled"}

Keys == Hours \X Metrics

NoCounts == [k \in Keys |-> 0]

Plus(f, h) == [k \in Keys |-> f[k] + h[k]]

Entries(counts) == {k \in Keys : counts[k] > 0}

AnalyticsInit ==
  /\ pending = NoCounts
  /\ timer = FALSE
  /\ stored = NoCounts
  /\ running = {}
  /\ accepted = NoCounts
  /\ lost = NoCounts
  /\ refused = FALSE

-----------------------------------------------------------------------------
(* record(): merge() into the pending map, and schedule().                 *)

Room(k) == pending[k] > 0 \/ Cardinality(Entries(pending)) < MaxPendingEntries

(* Mutant: the timer is armed for the first entry only. *)
RecordScheduledOnce(k) ==
  IF Room(k)
    THEN /\ pending' = [pending EXCEPT ![k] = @ + 1]
         /\ accepted' = [accepted EXCEPT ![k] = @ + 1]
         /\ timer' = (timer \/ accepted = NoCounts)
         /\ UNCHANGED refused
    ELSE /\ refused' = TRUE
         /\ UNCHANGED <<pending, accepted, timer>>

Record(k) ==
  IF Room(k)
    THEN /\ pending' = [pending EXCEPT ![k] = @ + 1]
         /\ accepted' = [accepted EXCEPT ![k] = @ + 1]
         /\ timer' = TRUE
         /\ UNCHANGED refused
    ELSE /\ refused' = TRUE
         /\ UNCHANGED <<pending, accepted, timer>>

Accepted == MapThenSumSet(LAMBDA k : accepted[k], Keys)

Bounded == Accepted < MaxCounts

(* A landing page view, or a demo credential that was issued. *)
Visited(hour, metric) ==
  /\ Bounded
  /\ metric \in {"landing_page_loaded", "demo_credential_issued"}
  /\ Record(<<hour, metric>>)
  /\ UNCHANGED <<stored, running, lost>>

(* observeDemoInferenceAnalytics of inference.request_started. *)
Started(r, hour) ==
  /\ Bounded
  /\ r \notin running
  /\ running' = running \union {r}
  /\ Record(<<hour, "demo_inference_started">>)
  /\ UNCHANGED <<stored, lost>>

(* The outcome of inference.terminal; a completed exchange counts by the   *)
(* class of its response status.                                           *)
Outcomes == {"rejected", "cancelled", "configuration_error", "upstream_error",
             "completed_2xx", "completed_4xx", "completed_other"}

MetricFor(outcome) ==
  CASE outcome \in {"rejected", "completed_4xx"} -> "demo_inference_rejected"
    [] outcome = "cancelled" -> "demo_inference_cancelled"
    [] outcome = "completed_2xx" -> "demo_inference_completed"
    [] OTHER -> "demo_inference_failed"

Ended(r, hour, outcome) ==
  /\ Bounded
  /\ r \in running
  /\ running' = running \ {r}
  /\ Record(<<hour, MetricFor(outcome)>>)
  /\ UNCHANGED <<stored, lost>>

-----------------------------------------------------------------------------
(* flush(), by the timer or before the summary is read.  persist is one    *)
(* transaction: all increments of the batch are added to their rows, or it *)
(* throws and none is.                                                     *)

(* Mutant: a failed batch is dropped. *)
FlushFailsDropping ==
  /\ pending # NoCounts
  /\ pending' = NoCounts
  /\ timer' = FALSE
  /\ UNCHANGED <<stored, running, accepted, lost, refused>>

(* Mutant: a failed batch is merged back, and no timer armed for it. *)
FlushFailsUnscheduled ==
  /\ pending # NoCounts
  /\ timer' = FALSE
  /\ UNCHANGED <<pending, stored, running, accepted, lost, refused>>

(* Mutant: the increments before the error stay in the table. *)
FlushFailsInPart ==
  /\ pending # NoCounts
  /\ \E done \in SUBSET Entries(pending) :
       stored' = [k \in Keys |-> stored[k] + IF k \in done THEN pending[k] ELSE 0]
  /\ timer' = TRUE
  /\ UNCHANGED <<pending, running, accepted, lost, refused>>

(* The cleared entries are merged back; there is room for all of them. *)
FlushFails ==
  /\ pending # NoCounts
  /\ timer' = TRUE
  /\ UNCHANGED <<pending, stored, running, accepted, lost, refused>>

Persisted(counts) == Plus(stored, counts)

FlushSucceeds ==
  /\ stored' = Persisted(pending)
  /\ pending' = NoCounts
  /\ timer' = FALSE
  /\ UNCHANGED <<running, accepted, lost, refused>>

TimerFires == timer /\ (FlushSucceeds \/ FlushFails)

(* getAnonymousAnalyticsSummary; a failing flush does not stop the read.   *)
SummaryRead == FlushSucceeds \/ FlushFails

(* The process ends, with its requests and what it had not flushed. *)
Restart ==
  /\ pending' = NoCounts
  /\ timer' = FALSE
  /\ running' = {}
  /\ lost' = Plus(lost, pending)
  /\ UNCHANGED <<stored, accepted, refused>>

AnalyticsNext ==
  \/ \E hour \in Hours :
       \/ \E metric \in Metrics : Visited(hour, metric)
       \/ \E r \in Requests :
            \/ Started(r, hour)
            \/ \E outcome \in Outcomes : Ended(r, hour, outcome)
  \/ TimerFires
  \/ SummaryRead
  \/ Restart

AnalyticsSpec == AnalyticsInit /\ [][AnalyticsNext]_analyticsVars

(* An armed timer fires, and a table that is tried again and again takes   *)
(* the batch some day.                                                     *)
FairSpec == AnalyticsSpec /\ SF_analyticsVars(timer /\ FlushSucceeds)

-----------------------------------------------------------------------------
(* Properties. *)

(* The single counts behind the entries of some metrics, and their number. *)
Units(counts, metrics) == UNION {{k} \X (1..counts[k]) : k \in Hours \X metrics}

Count(counts, metrics) == Cardinality(Units(counts, metrics))

(* The variables stay in their types and the pending map within its limit. *)
AnalyticsTypeOK ==
  /\ {pending, stored, accepted, lost} \subseteq [Keys -> Nat]
  /\ Cardinality(Entries(pending)) <= MaxPendingEntries
  /\ timer \in BOOLEAN /\ refused \in BOOLEAN
  /\ running \subseteq Requests

(* Every accepted count is in exactly one place: still pending, in its row *)
(* of the table, or lost with a process that ended.  Flushes that fail in  *)
(* any number neither lose nor double anything.                            *)
NothingMiscounted == \A k \in Keys : accepted[k] = pending[k] + stored[k] + lost[k]

(* Counts in memory never wait for a timer nobody armed. *)
TimerWhilePending == timer <=> pending # NoCounts

(* The table never shows more ends than starts of demo generations,        *)
(* whatever was flushed, retried or lost, unless a count was refused: a    *)
(* start and its end may be in different batches, never in reverse order.  *)
(* What is missing in it is pending, or still running.  Pending are never  *)
(* more entries than the bound.                                            *)
BooksBalance ==
  AnalyticsTypeOK /\
  (~refused =>
    /\ Count(stored, EndMetrics) <= Count(stored, {"demo_inference_started"})
    /\ Count(Plus(stored, pending), EndMetrics) + Cardinality(running)
         <= Count(Plus(stored, pending), {"demo_inference_started"}))

(* What is pending is persisted some day, or dies with its process, while  *)
(* new counts may come in for ever.                                        *)
EventuallyFlushed == pending # NoCounts ~> pending = NoCounts

=============================================================================
