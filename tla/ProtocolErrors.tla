---------------------------- MODULE ProtocolErrors ----------------------------
(***************************************************************************)
(* Error bodies and headers of the two API protocols                       *)
(* (src/features/inference-gateway: protocol-errors.ts, openai-errors.ts,  *)
(* anthropic-errors.ts, request-preparation.ts).                           *)
(*                                                                         *)
(* Headers are sets of names.  A JSON object is known by its keys; of the  *)
(* error object in it, texts are the keys with a non-empty string and odd  *)
(* those whose value is neither a string nor null.                         *)
(***************************************************************************)
EXTENDS Integers

ErrorBody(keys, type, requestId, errorKeys, texts, odd) ==
  [keys |-> keys, type |-> type, requestId |-> requestId,
   error |-> [keys |-> errorKeys, texts |-> texts, odd |-> odd]]

(* isConformingOpenAiError *)
IsConformingOpenAiError(body) ==
  /\ body.keys = {"error"}
  /\ body.error.keys \subseteq {"message", "type", "param", "code"}
  /\ {"message", "type"} \subseteq body.error.texts
  /\ {"param", "code"} \cap body.error.odd = {}

(* isConformingAnthropicError *)
IsConformingAnthropicError(body, requestId) ==
  /\ body.keys = {"type", "error", "request_id"}
  /\ body.type = "error"
  /\ body.requestId = requestId
  /\ body.error.keys = {"type", "message"}
  /\ body.error.texts = {"type", "message"}

(* createOpenAiErrorBody; its types and messages are not empty. *)
CreateOpenAiErrorBody ==
  ErrorBody({"error"}, "none", "none", {"message", "type", "param", "code"},
            {"message", "type", "code"}, {})

(* createAnthropicErrorBody; a stream error has no request id. *)
CreateAnthropicErrorBody(requestId) ==
  ErrorBody({"type", "error"} \union (IF requestId = "none" THEN {} ELSE {"request_id"}),
            "error", requestId, {"type", "message"}, {"type", "message"}, {})

CreateProtocolErrorBody(protocol, requestId) ==
  IF protocol = "openai" THEN CreateOpenAiErrorBody ELSE CreateAnthropicErrorBody(requestId)

(* isConformingProtocolError, of a body that is the JSON of an object. *)
IsConformingProtocolError(body, protocol, requestId) ==
  IF protocol = "openai" THEN IsConformingOpenAiError(body)
  ELSE IsConformingAnthropicError(body, requestId)

-----------------------------------------------------------------------------

RequestHeadersToStrip ==
  {"authorization", "connection", "cookie", "forwarded", "host", "keep-alive",
   "proxy-authenticate", "proxy-authorization", "te", "trailer", "transfer-encoding",
   "upgrade", "via", "x-api-key", "x-forwarded-for", "x-forwarded-host",
   "x-forwarded-port", "x-forwarded-proto"}

ResponseHeadersToStrip ==
  {"connection", "keep-alive", "proxy-authenticate", "proxy-authorization", "te",
   "trailer", "transfer-encoding", "upgrade"}

(* sanitizeHeaders: without the blocked headers and those that the header *)
(* connection names.                                                      *)
SanitizedHeaders(headers, named, blocked) ==
  headers \ (blocked \union (IF "connection" \in headers THEN named ELSE {}))

RequestIdHeader(protocol) == IF protocol = "anthropic" THEN "request-id" ELSE "x-request-id"

(* prepareUpstreamRequest *)
UpstreamHeaders(headers, named) ==
  SanitizedHeaders(headers, named, RequestHeadersToStrip) \union {"x-request-id"}

(* prepareDownstreamHeaders *)
DownstreamHeaders(headers, named, protocol) ==
  SanitizedHeaders(headers, named, ResponseHeadersToStrip) \union {RequestIdHeader(protocol)}

(* removeStaleRepresentationHeaders *)
StaleHeaders == {"content-encoding", "content-length", "content-md5", "digest", "etag"}

=============================================================================
