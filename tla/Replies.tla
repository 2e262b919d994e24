------------------------------- MODULE Replies -------------------------------
(***************************************************************************)
(* What a client of the gateway gets when the backend answers with an      *)
(* error, or breaks off a stream (proxy-stream.ts and protocol-errors.ts), *)
(* down to the reader of the demo chat at the other end.                   *)
(***************************************************************************)
EXTENDS ChatEvents, ProtocolErrors, FiniteSets

CONSTANTS Errors,       \* the error answers of a backend
          MaxErrorBody, \* MAX_UPSTREAM_ERROR_BODY_BYTES
          MaxText       \* bound: the pieces of a stream

ASSUME ReplyAssumption == {MaxErrorBody, MaxText, MaxEvent} \subseteq Nat

(* What the header connection names is nothing when there is none. *)
ASSUME ErrorsAssumption ==
  \A error \in Errors :
    error.kind = "error" /\ ("connection" \notin error.headers => error.named = {})

VARIABLES answer,   \* the answer of the backend: one of Errors, or a stream
          phase,    \* "reading" an error body, "relaying" a stream, "ended"
          aborted,  \* abortController.signal.aborted
          kept,     \* totalBytes of the error body
          arrived,  \* history: the bytes of it that were read
          reply,    \* what the client was answered with, see NoReply
          sent,     \* history: what the backend sent of its stream
          net,      \* what the client has not read of it yet
          broke,    \* the backend's stream ended with an error
          client    \* buffer and status of streamDemoChat

repliesVars == <<answer, phase, aborted, kept, arrived, reply, sent, net, broke, client>>

errorVars == <<kept, arrived, reply>>
streamVars == <<sent, net, broke, client>>

NoReply == [status |-> 0, from |-> "none", headers |-> {}, body |-> "none", blamed |-> FALSE]

OwnId == "own"

RepliesInit ==
  /\ answer \in Errors \union {[kind |-> "stream"]}
  /\ phase = IF answer.kind = "error" THEN "reading" ELSE "relaying"
  /\ aborted = FALSE
  /\ kept = 0 /\ arrived = 0 /\ reply = NoReply
  /\ sent = <<>> /\ net = <<>> /\ broke = FALSE
  /\ client = [buffer |-> <<>>, status |-> "reading"]

-----------------------------------------------------------------------------
(* An error answer. *)

ReplyHeaders == DownstreamHeaders(answer.headers, answer.named, answer.protocol)

(* createProtocolErrorResponse, with the headers it is given. *)
FallbackHeaders ==
  (ReplyHeaders \ StaleHeaders) \union {"content-type", RequestIdHeader(answer.protocol)}

Fallback(status, headers, blamed) ==
  [status |-> status, from |-> "gateway", headers |-> headers,
   body |-> CreateProtocolErrorBody(answer.protocol, OwnId), blamed |-> blamed]

Cancelled == Fallback(499, {"content-type", RequestIdHeader(answer.protocol)}, FALSE)

(* The end of the handler: it looks at the signal once more. *)
AnswersClient(normalized) ==
  /\ phase' = "ended"
  /\ reply' = IF aborted THEN Cancelled ELSE normalized
  /\ UNCHANGED <<answer, aborted>> /\ UNCHANGED streamVars

(* Mutant: what fits of a chunk is kept, and the rest of it dropped. *)
ErrorChunkCut(size) ==
  /\ phase = "reading" /\ answer.hasBody
  /\ kept' = IF size <= MaxErrorBody - kept THEN kept + size ELSE MaxErrorBody
  /\ arrived' = arrived + size
  /\ UNCHANGED <<answer, phase, aborted, reply>> /\ UNCHANGED streamVars

(* readBoundedBody(): a chunk that fits is kept. *)
ErrorChunk(size) ==
  /\ phase = "reading" /\ answer.hasBody
  /\ size <= MaxErrorBody - kept
  /\ kept' = kept + size
  /\ arrived' = arrived + size
  /\ UNCHANGED <<answer, phase, aborted, reply>> /\ UNCHANGED streamVars

(* Another one cancels the body, whether that works or not. *)
ErrorOversized(size) ==
  /\ phase = "reading" /\ answer.hasBody
  /\ size > MaxErrorBody - kept
  /\ AnswersClient(Fallback(answer.status, FallbackHeaders, FALSE))
  /\ arrived' = arrived + size
  /\ UNCHANGED kept

(* A read that fails is the backend's fault unless the signal is aborted. *)
ErrorReadFails ==
  /\ phase = "reading" /\ answer.hasBody
  /\ AnswersClient(Fallback(answer.status, FallbackHeaders, TRUE))
  /\ UNCHANGED <<kept, arrived>>

(* The body is passed on when it is what the protocol asks for. *)
PassesOn ==
  /\ kept > 0
  /\ answer.contentType = "json"
  /\ answer.body # {}
  /\ \A body \in answer.body : IsConformingProtocolError(body, answer.protocol, OwnId)

ErrorBodyEnds ==
  /\ phase = "reading"
  /\ AnswersClient(IF PassesOn
               THEN [status |-> answer.status, from |-> "backend",
                     headers |-> ReplyHeaders \ StaleHeaders,
                     body |-> CHOOSE body \in answer.body : TRUE, blamed |-> FALSE]
             ELSE Fallback(answer.status, FallbackHeaders, FALSE))
  /\ UNCHANGED <<kept, arrived>>

(* The client leaves, or a timeout of its host closes the request. *)
ClientLeaves ==
  /\ phase = "reading" /\ ~aborted
  /\ aborted' = TRUE
  /\ UNCHANGED <<answer, phase>> /\ UNCHANGED <<errorVars, streamVars>>

-----------------------------------------------------------------------------
(* A stream. *)

Relay(pieces) ==
  /\ phase = "relaying"
  /\ sent' = sent \o pieces
  /\ net' = net \o pieces
  /\ UNCHANGED <<answer, aborted, client>> /\ UNCHANGED errorVars

StreamPiece(piece) ==
  /\ Len(sent) < MaxText
  /\ Relay(<<piece>>)
  /\ UNCHANGED <<phase, broke>>

StreamEnds ==
  /\ Relay(<<>>)
  /\ phase' = "ended"
  /\ UNCHANGED broke

(* Mutant: the event starts in the line in which the stream broke off. *)
StreamErrorEventInLine == <<"E", "n", "e", "n", "n">>

(* createProtocolStreamErrorEvent() *)
StreamErrorEvent == <<"n", "n", "E", "n", "e", "n", "n">>

(* reader.read() rejects, in the middle of a line or not. *)
StreamBreaks(rest) ==
  /\ phase = "relaying"
  /\ sent' = sent \o rest
  /\ net' = net \o rest \o StreamErrorEvent
  /\ phase' = "ended" /\ broke' = TRUE
  /\ UNCHANGED <<answer, aborted, client>> /\ UNCHANGED errorVars

(* The client reads what has arrived, in chunks of any size. *)
ClientReads(size) ==
  /\ client.status \in {"reading", "done"}
  /\ size \in 1..Len(net)
  /\ client' = AfterChunk(client, SubSeq(net, 1, size))
  /\ net' = SubSeq(net, size + 1, Len(net))
  /\ UNCHANGED <<answer, phase, aborted, sent, broke>> /\ UNCHANGED errorVars

ClientReadsEnd ==
  /\ client.status \in {"reading", "done"}
  /\ answer.kind = "stream" /\ phase = "ended" /\ net = <<>>
  /\ client' = [buffer |-> <<>>, status |-> AfterEnd(client)]
  /\ UNCHANGED <<answer, phase, aborted, sent, net, broke>> /\ UNCHANGED errorVars

RepliesNext ==
  \/ \E size \in 1..(MaxErrorBody + 1) : ErrorChunk(size) \/ ErrorOversized(size)
  \/ ErrorReadFails
  \/ ErrorBodyEnds
  \/ ClientLeaves
  \/ \E piece \in {"r", "n", "d", "D"} : StreamPiece(piece)
  \/ StreamEnds
  \/ \E rest \in {<<>>, <<"h">>, <<"p">>} : StreamBreaks(rest)
  \/ \E size \in 1..Len(net) : ClientReads(size)
  \/ ClientReadsEnd

RepliesSpec == RepliesInit /\ [][RepliesNext]_repliesVars

-----------------------------------------------------------------------------
(* Properties. *)

(* Whatever a backend answers, and however much of it, an error reply is   *)
(* of the client's protocol and of this request: a body as that protocol   *)
(* defines it with the request id of the header, never one that was only   *)
(* read in part, and no header about another body or another connection.   *)
(* Only a read that failed while the client was there blames the backend.  *)
RepliesSpeakProtocol ==
  /\ kept <= MaxErrorBody
  /\ reply.from # "none" =>
       /\ reply.status = IF aborted THEN 499 ELSE answer.status
       /\ IsConformingProtocolError(reply.body, answer.protocol, OwnId)
       /\ answer.protocol = "anthropic" => reply.body.requestId = OwnId
       /\ RequestIdHeader(answer.protocol) \in reply.headers
       /\ reply.headers \cap (StaleHeaders \union ResponseHeadersToStrip) = {}
       /\ (answer.named \ {RequestIdHeader(answer.protocol), "content-type"}) \cap reply.headers = {}
       /\ reply.from = "backend" => reply.body \in answer.body /\ kept = arrived /\ ~aborted
       /\ reply.blamed => ~aborted

LineStart(t, i) == i = 1 \/ t[i - 1] = "n"

LineEnd(t, i) ==
  i = Len(t) \/ t[i + 1] = "n" \/ (t[i + 1] = "r" /\ i + 2 <= Len(t) /\ t[i + 2] = "n")

HasBlankLine(t) == Boundaries(t) # {}

(* A stream as the protocol has it: one complete data line per event, and  *)
(* no event near the limit.                                                *)
WellFormed(t) ==
  LET data == {i \in DOMAIN t : t[i] \in {"d", "D"}}
  IN /\ \A i \in data : LineStart(t, i) /\ LineEnd(t, i)
     /\ \A i, j \in data : i < j => HasBlankLine(SubSeq(t, i + 1, j - 1))
     /\ \A i, j \in 1..Len(t) : j - i >= MaxEvent - 3 => HasBlankLine(SubSeq(t, i, j))

(* A stream that broke off at any piece, also inside a line or a blank     *)
(* line, never looks complete to the chat, unless its [DONE] had arrived;  *)
(* and a well-formed stream never looks broken.                            *)
FailureIsSeen ==
  /\ client.status = "complete" /\ broke =>
       \E i \in DOMAIN sent : sent[i] = "D" /\ LineStart(sent, i)
  /\ client.status = "failed" => broke \/ ~WellFormed(sent)
  /\ Len(client.buffer) <= MaxEvent

=============================================================================
