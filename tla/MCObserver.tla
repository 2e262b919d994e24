------------------------------ MODULE MCObserver ------------------------------
(* Backends of the three formats for the model checker.  A prompt of five    *)
(* tokens, two of them from the cache, is answered with three.               *)
EXTENDS Observer

NoUsage == [prompt_tokens |-> {}, completion_tokens |-> {}, total_tokens |-> {},
            cached_tokens |-> {}]

NoTimings == [cache_n |-> {}, prompt_n |-> {}, predicted_n |-> {},
              prompt_per_second |-> {}, predicted_per_second |-> {}]

FullUsage == [prompt_tokens |-> {5}, completion_tokens |-> {3}, total_tokens |-> {8},
              cached_tokens |-> {2}]

FullTimings == [cache_n |-> {2}, prompt_n |-> {3}, predicted_n |-> {3},
                prompt_per_second |-> {9}, predicted_per_second |-> {4}]

OpenAi(usage, timings) ==
  [protocol |-> "openai",
   payloads |-> <<[choices |-> {{"role", "content"}}, usage |-> NoUsage, timings |-> NoTimings],
                  [choices |-> {}, usage |-> usage, timings |-> timings]>>,
   kinds |-> [visible |-> {1}, first |-> {}, final |-> {2}],
   truth |-> [input |-> 5, cached |-> 2, output |-> 3]]

Report(input, creation, read, output) ==
  [input_tokens |-> input, cache_creation_input_tokens |-> creation,
   cache_read_input_tokens |-> read, output_tokens |-> output]

Anthropic ==
  [protocol |-> "anthropic",
   payloads |-> <<[type |-> "content_block_delta", delta |-> {"text"}, usage |-> Report({}, {}, {}, {})],
                  [type |-> "message_delta", delta |-> {}, usage |-> Report({}, {}, {}, {3})],
                  [type |-> "message_start", delta |-> {}, usage |-> Report({1}, {2}, {2}, {1})]>>,
   kinds |-> [visible |-> {1}, first |-> {3}, final |-> {2}],
   truth |-> [input |-> 5, cached |-> 2, output |-> 3]]

Unobserved ==
  [protocol |-> "none", payloads |-> <<>>,
   kinds |-> [visible |-> {}, first |-> {}, final |-> {}],
   truth |-> [input |-> 0, cached |-> 0, output |-> 0]]

MCBackends == {OpenAi(FullUsage, NoTimings), OpenAi(NoUsage, FullTimings),
               OpenAi([FullUsage EXCEPT !.total_tokens = {}], FullTimings),
               Anthropic, Unobserved}

=============================================================================
