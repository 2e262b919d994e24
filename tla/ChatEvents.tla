------------------------------ MODULE ChatEvents ------------------------------
(***************************************************************************)
(* How the demo chat reads the body of an answer                           *)
(* (src/features/public-demo/demo-chat-transport.ts).  Next to "r" and "n" *)
(* a text has these pieces, each within one line:                          *)
(*   d  data: and a JSON object       D  data: [DONE]                      *)
(*   h  data: and the start of JSON   p  the start of a field name         *)
(*   E  event: error                  e  data: and the JSON of an error    *)
(***************************************************************************)
EXTENDS Integers, SseText

CONSTANT MaxEvent   \* MAX_SSE_EVENT_BYTES

Pieces == {"r", "n", "d", "D", "h", "p", "E", "e"}

(* split(/\r?\n/), the lines by where they start. *)
LineStarts(event) == {i \in 1..Len(event) : i = 1 \/ event[i - 1] = "n"}

LineAt(event, i) ==
  LET breaks == {k \in i..Len(event) : event[k] = "n"}
      next == CHOOSE k \in breaks : \A m \in breaks : k <= m
  IN IF breaks = {} THEN SubSeq(event, i, Len(event))
     ELSE IF next > i /\ event[next - 1] = "r" THEN SubSeq(event, i, next - 2)
     ELSE SubSeq(event, i, next - 1)

(* trim() leaves one piece of the line. *)
TrimsTo(line, piece) ==
  \E k \in DOMAIN line : line[k] = piece /\ \A j \in DOMAIN line \ {k} : line[j] = "r"

DataLines(event) == {i \in LineStarts(event) : event[i] \in {"d", "D", "h", "e"}}

(* processEvent(): an error event throws, and so does data that is not     *)
(* JSON, as two lines of it; the JSON of an error has no choices.          *)
Meaning(event) ==
  LET data == DataLines(event)
      Parses(json) == \E i \in data : data = {i} /\ TrimsTo(LineAt(event, i), json)
  IN IF \E i \in LineStarts(event) : TrimsTo(LineAt(event, i), "E") THEN "failure"
     ELSE IF \E i \in data : data = {i} /\ LineAt(event, i) = <<"D">> THEN "done"
     ELSE IF Parses("d") THEN "delta"
     ELSE IF data = {} \/ Parses("e") THEN "nothing"
     ELSE "failure"

(* The buffer, and whether streamDemoChat still reads. *)
ChatStates == [buffer : Seq(Pieces), status : {"reading", "done", "failed"}]

(* One event after the other until [DONE], a failure or the end of the     *)
(* complete ones.                                                          *)
ProcessCompleteEvents[s \in ChatStates] ==
  IF s.status # "reading" \/ Boundaries(s.buffer) = {} THEN s
  ELSE LET b == Leftmost(s.buffer)
           event == SubSeq(s.buffer, 1, b[1] - 1)
           meaning == IF Len(event) > MaxEvent THEN "failure" ELSE Meaning(event)
       IN ProcessCompleteEvents[
            IF meaning = "failure" THEN [buffer |-> <<>>, status |-> "failed"]
            ELSE IF meaning = "done" THEN [buffer |-> <<>>, status |-> "done"]
            ELSE [s EXCEPT !.buffer = SubSeq(@, b[1] + b[2], Len(@))]]

(* A chunk: what remains may not grow beyond an event; nothing is read     *)
(* after [DONE].                                                           *)
AfterChunk(s, chunk) ==
  IF s.status # "reading" THEN s
  ELSE LET t == ProcessCompleteEvents[[s EXCEPT !.buffer = @ \o chunk]]
       IN IF Len(t.buffer) > MaxEvent THEN [buffer |-> <<>>, status |-> "failed"] ELSE t

(* The end of the body: what remains is an event. *)
AfterEnd(s) ==
  IF s.status = "reading" /\ Meaning(s.buffer) = "failure" THEN "failed" ELSE "complete"

=============================================================================
