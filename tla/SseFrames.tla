------------------------------ MODULE SseFrames ------------------------------
(***************************************************************************)
(* How the stream observer of the gateway (class SseMetadataObserver of    *)
(* src/features/inference-gateway/metadata.ts) finds the events in a body  *)
(* that arrives in chunks: it looks for blank lines, keeps what is after   *)
(* the last one, and drops an event that grows beyond a limit.  Texts are  *)
(* sequences of three characters: \r, \n and any other.                    *)
(***************************************************************************)
EXTENDS Integers, SseText, Ranks

CONSTANTS MaxFrame,     \* MAX_SSE_FRAME_LENGTH
          MaxChunk,     \* bound on the length of a chunk
          MaxText       \* bound on the length of the body

ASSUME LimitAssumption == MaxFrame \in Nat \ 0..3
ASSUME BoundsAssumption == MaxChunk \in Nat \ {0} /\ MaxText \in Nat

VARIABLES buffer,       \* #buffer
          dropping,     \* #droppingOversizedFrame
          consumed,     \* history: what #consumeEvent was called with
          text,         \* history: the text received so far
          finished      \* finish() has run

vars == <<buffer, dropping, consumed, text, finished>>

Chars == {"r", "n", "x"}

Init ==
  /\ buffer = <<>>
  /\ dropping = FALSE
  /\ consumed = <<>>
  /\ text = <<>>
  /\ finished = FALSE

-----------------------------------------------------------------------------
(* #consumeText *)

(* The loop over the boundaries of the pending text. *)
Split[s \in [rest : Seq(Chars), dropping : BOOLEAN, events : Seq(Seq(Chars))]] ==
  IF Boundaries(s.rest) = {} THEN s
  ELSE LET b == Leftmost(s.rest)
           event == SubSeq(s.rest, 1, b[1] - 1)
       IN Split[[rest |-> SubSeq(s.rest, b[1] + b[2], Len(s.rest)),
                 dropping |-> FALSE,
                 events |-> IF s.dropping \/ Len(event) > MaxFrame
                              THEN s.events ELSE Append(s.events, event)]]

(* Mutant: one character of a dropped event is kept. *)
SuffixTooShort(t) == SubSeq(t, Len(t), Len(t))

(* slice(-3) *)
Suffix(t) == IF Len(t) <= 3 THEN t ELSE SubSeq(t, Len(t) - 2, Len(t))

Oversized(t) == Len(t) > MaxFrame

(* The state after the text t was appended to the buffer. *)
Consumed(t) ==
  LET s == Split[[rest |-> buffer \o t, dropping |-> dropping, events |-> consumed]]
      drops == s.dropping \/ Oversized(s.rest)
  IN [rest |-> IF drops THEN Suffix(s.rest) ELSE s.rest,
      dropping |-> drops, events |-> s.events]

Observe(chunk) ==
  /\ ~finished /\ Len(text) + Len(chunk) <= MaxText
  /\ LET s == Consumed(chunk)
     IN buffer' = s.rest /\ dropping' = s.dropping /\ consumed' = s.events
  /\ text' = text \o chunk
  /\ UNCHANGED finished

(* What is left at the end is an event, unless it belongs to a dropped one. *)
Leftover(s) ==
  IF ~s.dropping /\ s.rest # <<>> THEN Append(s.events, s.rest) ELSE s.events

Finish ==
  /\ ~finished
  /\ LET s == Consumed(<<>>)
     IN dropping' = s.dropping /\ consumed' = Leftover(s)
  /\ buffer' = <<>>
  /\ finished' = TRUE
  /\ UNCHANGED text

Next ==
  \/ \E chunk \in UNION {[1..n -> Chars] : n \in 1..MaxChunk} : Observe(chunk)
  \/ Finish

Spec == Init /\ [][Next]_vars

-----------------------------------------------------------------------------
(* Properties. *)

(* The types, and the memory of the observer: the buffer never holds more  *)
(* than one event of the largest size, and only the end of one it drops.   *)
TypeOK ==
  /\ buffer \in Seq(Chars) /\ Len(buffer) <= IF dropping THEN 3 ELSE MaxFrame
  /\ dropping \in BOOLEAN /\ finished \in BOOLEAN
  /\ text \in Seq(Chars) /\ consumed \in Seq(Seq(Chars))

(* The events of a whole text, read one character at a time: an event ends *)
(* where a blank line is complete.                                         *)
EndsEvent(t) == \E line \in BlankLines : IsSuffix(line, t)

WithoutBlankLine(t) ==
  LET line == CHOOSE l \in BlankLines :
                IsSuffix(l, t) /\ \A k \in BlankLines : IsSuffix(k, t) => Len(k) <= Len(l)
  IN SubSeq(t, 1, Len(t) - Len(line))

Read(s, char) ==
  LET t == Append(s.rest, char)
  IN IF EndsEvent(t) THEN [rest |-> <<>>, events |-> Append(s.events, WithoutBlankLine(t))]
     ELSE [rest |-> t, events |-> s.events]

Unread == [rest |-> <<>>, events |-> <<>>]

Readings(whole) ==
  LET read[n \in 0..Len(whole)] ==
        IF n = 0 THEN Unread ELSE Read(read[n - 1], whole[n])
  IN read

EventsOf(whole) ==
  LET s == Readings(whole)[Len(whole)]
  IN IF finished /\ s.rest # <<>> THEN Append(s.events, s.rest) ELSE s.events

(* However the body is cut into chunks, also inside a blank line and       *)
(* inside events that are dropped, the observer sees exactly the events of *)
(* the whole text, in order and as soon as they are complete, without      *)
(* those above the limit, and in bounded memory.  Only an event within     *)
(* three characters of the limit may be missed as well, when a chunk ends  *)
(* inside its blank line.                                                  *)
EventsIndependentOfChunks ==
  TypeOK /\
  LET events == EventsOf(text)
  IN \E seen \in SUBSET DOMAIN events :
       /\ consumed = At(events, seen)
       /\ \A i \in seen : Len(events[i]) <= MaxFrame
       /\ \A i \in DOMAIN events \ seen : Len(events[i]) > MaxFrame - 3

=============================================================================
