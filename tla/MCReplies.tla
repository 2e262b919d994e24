------------------------------ MODULE MCReplies ------------------------------
(* Error answers of a backend for the model checker. *)
EXTENDS Replies

Good(protocol, id) ==
  IF protocol = "openai"
    THEN ErrorBody({"error"}, "none", "none", {"message", "type", "code"}, {"message", "type"}, {})
  ELSE ErrorBody({"type", "error", "request_id"}, "error", id, {"type", "message"},
                 {"type", "message"}, {})

Bodies ==
  {{}} \union
  {{Good(protocol, id)} : protocol \in {"openai", "anthropic"}, id \in {OwnId, "other"}} \union
  {{[Good("openai", "none") EXCEPT !.error.odd = {"code"}]},
   {[Good("anthropic", OwnId) EXCEPT !.error.texts = {"type"}]},
   {[Good("openai", "none") EXCEPT !.keys = {"error", "detail"}]}}

AnyErrors ==
  [kind : {"error"}, protocol : {"openai", "anthropic"}, status : {400, 503},
   hasBody : BOOLEAN, contentType : {"json", "html"}, body : Bodies,
   headers : {{"content-type", "content-length"},
              {"content-type", "connection", "x-hop", "keep-alive", "etag"}},
   named : {{}, {"x-hop"}}]

MCErrors == {error \in AnyErrors : error.named = {} <=> "connection" \notin error.headers}

=============================================================================
