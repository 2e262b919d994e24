----------------------------- MODULE TokenMetrics -----------------------------
(***************************************************************************)
(* What the gateway reads from the payload of an event of a backend stream *)
(* (src/features/inference-gateway/metadata.ts): the time of the first     *)
(* visible piece and the numbers of tokens, by the formats of OpenAI, of   *)
(* llama.cpp and of Anthropic.                                             *)
(*                                                                         *)
(* A number that may be missing is a set of at most one number; a usage or *)
(* timings object that is absent is one without numbers.  A payload says   *)
(* which of its text fields are non-empty strings.                         *)
(***************************************************************************)
EXTENDS Integers

Missing == {}

(* emptyMetadata *)
EmptyMetadata ==
  [ttftMs |-> Missing, inputTokens |-> Missing, outputTokens |-> Missing,
   totalTokens |-> Missing, cachedTokens |-> Missing,
   promptTokensPerSecond |-> Missing, generationTokensPerSecond |-> Missing]

(* Mutant: a report without a number erases the one before. *)
NumberOrNothing(value, current) == value

(* numberOrCurrent *)
NumberOrCurrent(value, current) == IF value # Missing THEN value ELSE current

(* value ?? 0 *)
OrZero(value) == IF value = Missing THEN 0 ELSE CHOOSE n \in value : TRUE

-----------------------------------------------------------------------------
(* OpenAI, with the timings of llama.cpp. *)

OpenAiTextFields == {"text", "content", "reasoning", "reasoning_content", "tool_calls"}

HasOpenAiGeneratedDelta(payload) ==
  \E choice \in payload.choices : choice \cap OpenAiTextFields # {}

WithTtft(metadata, visible, elapsed) ==
  IF metadata.ttftMs = Missing /\ visible THEN [metadata EXCEPT !.ttftMs = {elapsed}]
  ELSE metadata

WithUsage(metadata, usage) ==
  [metadata EXCEPT !.inputTokens  = NumberOrCurrent(usage.prompt_tokens, @),
                   !.outputTokens = NumberOrCurrent(usage.completion_tokens, @),
                   !.totalTokens  = NumberOrCurrent(usage.total_tokens, @),
                   !.cachedTokens = NumberOrCurrent(usage.cached_tokens, @)]

(* prompt_n does not count the part of the prompt that came from the cache. *)
PromptTokens(timings) == {n + OrZero(timings.cache_n) : n \in timings.prompt_n}

(* The counts of the usage go before those of the timings.                 *)
WithTimings(metadata, timings) ==
  [metadata EXCEPT
     !.cachedTokens = NumberOrCurrent(timings.cache_n, @),
     !.inputTokens  = NumberOrCurrent(@, PromptTokens(timings)),
     !.outputTokens = NumberOrCurrent(@, timings.predicted_n),
     !.promptTokensPerSecond     = NumberOrCurrent(timings.prompt_per_second, @),
     !.generationTokensPerSecond = NumberOrCurrent(timings.predicted_per_second, @)]

ObserveOpenAiPayload(payload, elapsed, metadata) ==
  LET timed == WithTtft(metadata, HasOpenAiGeneratedDelta(payload), elapsed)
  IN WithTimings(WithUsage(timed, payload.usage), payload.timings)

-----------------------------------------------------------------------------
(* Anthropic. *)

AnthropicTextFields == {"text", "thinking", "partial_json"}

HasAnthropicGeneratedDelta(payload) == payload.delta \cap AnthropicTextFields # {}

(* The three parts of the prompt are one report: a part it does not name is *)
(* taken to be 0.                                                           *)
AnthropicInput(usage) ==
  LET parts == <<usage.input_tokens, usage.cache_creation_input_tokens,
                 usage.cache_read_input_tokens>>
  IN IF \E i \in 1..3 : parts[i] # Missing
       THEN {OrZero(parts[1]) + OrZero(parts[2]) + OrZero(parts[3])} ELSE Missing

ApplyAnthropicUsage(usage, metadata) ==
  [metadata EXCEPT !.inputTokens  = NumberOrCurrent(AnthropicInput(usage), @),
                   !.cachedTokens = NumberOrCurrent(usage.cache_read_input_tokens, @),
                   !.outputTokens = NumberOrCurrent(usage.output_tokens, @)]

ReportTypes == {"message_start", "message_delta"}

(* The usage of a payload is that of its message in a message_start. *)
ObserveAnthropicPayload(payload, elapsed, metadata) ==
  LET reported == IF payload.type \in ReportTypes
                    THEN ApplyAnthropicUsage(payload.usage, metadata) ELSE metadata
  IN WithTtft(reported,
              payload.type = "content_block_delta" /\ HasAnthropicGeneratedDelta(payload),
              elapsed)

-----------------------------------------------------------------------------

(* #consumeEvent, by protocol; of the protocol "none" nothing is observed. *)
Observed(protocol, payload, elapsed, metadata) ==
  CASE protocol = "openai"    -> ObserveOpenAiPayload(payload, elapsed, metadata)
    [] protocol = "anthropic" -> ObserveAnthropicPayload(payload, elapsed, metadata)
    [] protocol = "none"      -> metadata

(* snapshot: a missing total is the sum of its parts. *)
Snapshot(metadata) ==
  [metadata EXCEPT !.totalTokens =
     NumberOrCurrent(@, {i + o : i \in metadata.inputTokens, o \in metadata.outputTokens})]

=============================================================================
