------------------------------- MODULE Observer -------------------------------
(***************************************************************************)
(* The stream observer as a whole: SseFrames finds the events of a backend *)
(* stream in the chunks of its body, TokenMetrics reads their payloads.    *)
(* An event of n characters x stands for the n-th payload of the backend;  *)
(* any other text is none (a comment, [DONE], or text that is not JSON).   *)
(* The time elapsed is the number of characters received so far.           *)
(***************************************************************************)
EXTENDS SseFrames, TokenMetrics

CONSTANT Backends   \* the backends: records with protocol, payloads, kinds, truth

(* What a backend is assumed to be.  Its payloads give each number by any  *)
(* of the values that name it, none or the true one, and all of them in    *)
(* its reports.                                                            *)
Given(values, true, must) ==
  values \subseteq {Missing, {true}} /\ (must => {true} \in values)

(* One report, which alone names cached and total tokens; the timings of a *)
(* llama.cpp server may give what the usage does not.                      *)
TrueOpenAi(backend) ==
  /\ backend.kinds["first"] = {}
  /\ \A n \in DOMAIN backend.payloads :
       LET payload == backend.payloads[n]
           usage == payload.usage
           timings == payload.timings
           final == n \in backend.kinds["final"]
       IN /\ usage \in [{"prompt_tokens", "completion_tokens", "total_tokens", "cached_tokens"}
                        -> SUBSET Nat]
          /\ timings \in [{"cache_n", "prompt_n", "predicted_n", "prompt_per_second",
                           "predicted_per_second"} -> SUBSET Nat]
          /\ Given({usage.prompt_tokens, PromptTokens(timings)}, backend.truth.input, final)
          /\ Given({usage.cached_tokens, timings.cache_n}, backend.truth.cached, final)
          /\ Given({usage.completion_tokens, timings.predicted_n}, backend.truth.output, final)
          /\ Given({usage.total_tokens}, backend.truth.input + backend.truth.output, FALSE)
          /\ ~final => {usage.cached_tokens, timings.cache_n, usage.total_tokens} = {Missing}
          /\ n \in backend.kinds["visible"] <=> HasOpenAiGeneratedDelta(payload)

(* A first report of the prompt, if any, and final ones of the output,     *)
(* which a first one may anticipate.                                       *)
TrueAnthropic(backend) ==
  \A n \in DOMAIN backend.payloads :
    LET payload == backend.payloads[n]
        usage == payload.usage
        first == n \in backend.kinds["first"]
        final == n \in backend.kinds["final"]
        opens == first \/ (final /\ backend.kinds["first"] = {})
    IN /\ usage \in [{"input_tokens", "cache_creation_input_tokens", "cache_read_input_tokens",
                      "output_tokens"} -> SUBSET Nat]
       /\ first \/ final => payload.type \in ReportTypes
       /\ payload.type \in ReportTypes =>
            /\ Given({AnthropicInput(usage)}, backend.truth.input, opens)
            /\ Given({usage.cache_read_input_tokens}, backend.truth.cached, opens)
            /\ final => usage.output_tokens = {backend.truth.output}
            /\ ~(first \/ final) => usage.output_tokens = Missing
       /\ n \in backend.kinds["visible"] <=>
            payload.type = "content_block_delta" /\ HasAnthropicGeneratedDelta(payload)

Truthful(backend) ==
  /\ backend.protocol \in {"openai", "anthropic", "none"}
  /\ backend.kinds \in [{"visible", "first", "final"} -> SUBSET DOMAIN backend.payloads]
  /\ backend.truth \in [{"input", "cached", "output"} -> Nat]
  /\ backend.truth.cached <= backend.truth.input
  /\ \A n \in backend.kinds["visible"] : n <= MaxFrame - 3
  /\ backend.protocol = "openai" => TrueOpenAi(backend)
  /\ backend.protocol = "anthropic" => TrueAnthropic(backend)
  /\ backend.protocol = "none" => \A kind \in DOMAIN backend.kinds : backend.kinds[kind] = {}

ASSUME BackendsAssumption == \A backend \in Backends : Truthful(backend)

VARIABLES backend,  \* the backend that answers
          metadata  \* #metadata

observerVars == <<vars, backend, metadata>>

ObserverInit ==
  /\ Init
  /\ backend \in Backends
  /\ metadata = EmptyMetadata

IsPayload(event) ==
  Len(event) \in DOMAIN backend.payloads /\ event = [i \in DOMAIN event |-> "x"]

(* #consumeEvent *)
ConsumeEvent(event, elapsed, seen) ==
  IF IsPayload(event)
    THEN Observed(backend.protocol, backend.payloads[Len(event)], elapsed, seen)
  ELSE seen

(* The calls of #consumeEvent of one step, in order. *)
ConsumeNew ==
  LET new == Len(consumed') - Len(consumed)
      seen[k \in 0..new] ==
        IF k = 0 THEN metadata
        ELSE ConsumeEvent(consumed'[Len(consumed) + k], Len(text'), seen[k - 1])
  IN metadata' = seen[new]

ObserveChunk(chunk) == Observe(chunk) /\ ConsumeNew /\ UNCHANGED backend

FinishStream == Finish /\ ConsumeNew /\ UNCHANGED backend

ObserverNext ==
  \/ \E chunk \in UNION {[1..n -> Chars] : n \in 1..MaxChunk} : ObserveChunk(chunk)
  \/ FinishStream

ObserverSpec == ObserverInit /\ [][ObserverNext]_observerVars

-----------------------------------------------------------------------------
(* Properties. *)

(* The payloads of a kind among the events that were consumed. *)
Consumption(kind) ==
  {i \in DOMAIN consumed : IsPayload(consumed[i])
                           /\ Len(consumed[i]) \in backend.kinds[kind]}

Latest(i, kinds) ==
  \A kind \in kinds : \A j \in Consumption(kind) : j <= i

(* Once the backend has given all its reports and the last one was the     *)
(* final one, the metrics that are shown are the true ones, whatever       *)
(* format the backend uses, wherever the body was cut and whatever came    *)
(* between the reports.                                                    *)
ReportsAreTrue ==
  (/\ backend.kinds["first"] # {} => Consumption("first") # {}
   /\ \E i \in Consumption("final") : Latest(i, {"first", "final"}))
    => LET shown == Snapshot(metadata)
       IN /\ shown.inputTokens = {backend.truth.input}
          /\ shown.cachedTokens = {backend.truth.cached}
          /\ shown.outputTokens = {backend.truth.output}
          /\ shown.totalTokens = {backend.truth.input + backend.truth.output}

(* At any time the numbers shown agree: cached tokens are part of the      *)
(* prompt, and a total is the sum of its parts.                            *)
NumbersAgree ==
  LET shown == Snapshot(metadata)
  IN /\ \A c \in shown.cachedTokens : \E i \in shown.inputTokens : c <= i
     /\ \A t \in shown.totalTokens : \E i \in shown.inputTokens :
          \E o \in shown.outputTokens : t = i + o

HasVisible(events) ==
  \E i \in DOMAIN events : IsPayload(events[i]) /\ Len(events[i]) \in backend.kinds["visible"]

(* The time to the first token is that of the chunk that completed the     *)
(* first visible payload; thereafter it never changes.                     *)
FirstTokenIsTimed ==
  LET complete == {n \in 1..Len(text) : HasVisible(Readings(text)[n].events)}
      first == IF complete = {} THEN Len(text) ELSE CHOOSE n \in complete : \A k \in complete : n <= k
  IN /\ (metadata.ttftMs = Missing) <=> ~HasVisible(consumed)
     /\ \A t \in metadata.ttftMs : t \in first..(first + MaxChunk - 1)

MetricsAreTrue == ReportsAreTrue /\ NumbersAgree /\ FirstTokenIsTimed

=============================================================================
