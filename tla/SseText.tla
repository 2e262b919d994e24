------------------------------- MODULE SseText -------------------------------
(***************************************************************************)
(* Where the events of a text/event-stream end, for the observer in the    *)
(* gateway (metadata.ts) and for the reader in the demo chat               *)
(* (demo-chat-transport.ts), which look for the same pattern.  A text is a *)
(* sequence of "r", "n" and anything else.                                 *)
(***************************************************************************)
EXTENDS Integers, SequencesExt

(* The matches of the pattern \r?\n\r?\n. *)
BlankLines == {<<"n", "n">>, <<"r", "n", "n">>, <<"n", "r", "n">>,
               <<"r", "n", "r", "n">>}

MatchAt(t, i, len) == i + len - 1 <= Len(t) /\ SubSeq(t, i, i + len - 1) \in BlankLines

(* exec(): the leftmost match, if any; of a pattern that starts there there *)
(* is at most one.                                                          *)
Boundaries(t) == {b \in (1..Len(t)) \X (2..4) : MatchAt(t, b[1], b[2])}

Leftmost(t) == CHOOSE b \in Boundaries(t) : \A c \in Boundaries(t) : b[1] <= c[1]

=============================================================================
