------------------------------ MODULE DemoChat ------------------------------
(***************************************************************************)
(* The chat of the public demo (src/features/public-demo): a prompt opens  *)
(* a stream, its deltas wait in a buffer for the next animation frame, and *)
(* the stream completes, fails, is stopped by the user or outlives its     *)
(* page.  The fetch, its body and the frames are external.                 *)
(***************************************************************************)
EXTENDS Ranks

CONSTANTS MaxTurns,      \* bound on the prompts of a conversation
          MaxDeltas,     \* bound on the deltas of an answer
          MaxChunk       \* bound on the events of a chunk

ASSUME BoundsAssumption == {MaxTurns, MaxDeltas, MaxChunk} \subseteq Nat \ {0}

VARIABLES messages,      \* messages
          isStreaming,
          phase,         \* of streamDemoChat: "idle", "fetching", "reading"
          completed,     \* completed: [DONE] was read
          aborted,       \* controller.signal.aborted
          buffer,        \* content and reasoning of the delta buffer
          frame,         \* frame # null
          mounted,       \* the page is shown
          bodies,        \* the answers whose response body is open, 0 for
                         \* those of earlier conversations
          received       \* history: the deltas of each answer, in order

vars == <<messages, isStreaming, phase, completed, aborted, buffer, frame, mounted, bodies,
          received>>

stream == <<phase, completed, aborted, buffer, frame>>

Fields == {"content", "reasoning"}
Empty == [f \in Fields |-> <<>>]
Joined(a, b) == [f \in Fields |-> a[f] \o b[f]]

(* What an event of a body may be to processEvent: a delta of one field or *)
(* of both, [DONE], or an error.  One without any of these changes nothing.*)
Deltas == Fields \union {"both"}
Events == Deltas \union {"done", "error"}
Chunks == UNION {[1..n -> Events] : n \in 0..MaxChunk}

(* The deltas of an answer are numbered; the text of a field is the        *)
(* sequence of the numbers of those that have the field.                   *)
With(field, deltas, before) ==
  {n \in before + 1..before + Len(deltas) : deltas[n - before] \in {field, "both"}}

TextBehind(before, deltas) == [f \in Fields |-> Ascending(With(f, deltas, before))]

Text(deltas) == TextBehind(0, deltas)

Init ==
  /\ messages = <<>> /\ received = <<>>
  /\ isStreaming = FALSE
  /\ phase = "idle" /\ completed = FALSE /\ aborted = FALSE
  /\ buffer = Empty /\ frame = FALSE
  /\ mounted = TRUE
  /\ bodies = {}

-----------------------------------------------------------------------------
(* State updates of a page that is gone have no effect.                    *)
Show(ms) == messages' = IF mounted THEN ms ELSE messages

Current == Len(messages)

Appended(text) == [messages EXCEPT ![Current].text = Joined(@, text)]

WithStatus(ms, status) == [ms EXCEPT ![Current].status = status]

(* submitPrompt *)
Submit ==
  /\ mounted /\ ~isStreaming /\ Len(messages) < 2 * MaxTurns
  /\ messages' = messages \o <<[role |-> "user", text |-> Empty, status |-> "complete"],
                               [role |-> "assistant", text |-> Empty, status |-> "streaming"]>>
  /\ received' = received \o <<<<>>, <<>>>>
  /\ isStreaming' = TRUE
  /\ phase' = "fetching" /\ completed' = FALSE /\ aborted' = FALSE
  /\ buffer' = Empty /\ frame' = FALSE
  /\ UNCHANGED <<mounted, bodies>>

(* The end of submitPrompt: flush() with the text pending then, the status *)
(* and the finally block, without a pause.                                 *)

(* Mutant: the frame that is due flushes later. *)
FinishUnflushed(pending, status) ==
  /\ Show(WithStatus(messages, status))
  /\ buffer' = pending /\ frame' = (pending # Empty)
  /\ isStreaming' = IF mounted THEN FALSE ELSE isStreaming
  /\ phase' = "idle"
  /\ UNCHANGED <<completed, aborted, mounted>>

(* Mutant: only an answer that completes frees the form. *)
FinishBusy(pending, status) ==
  /\ Show(WithStatus(Appended(pending), status))
  /\ buffer' = Empty /\ frame' = FALSE
  /\ isStreaming' = IF mounted /\ status = "complete" THEN FALSE ELSE isStreaming
  /\ phase' = "idle"
  /\ UNCHANGED <<completed, aborted, mounted>>

Finish(pending, status) ==
  /\ Show(WithStatus(Appended(pending), status))
  /\ buffer' = Empty /\ frame' = FALSE
  /\ isStreaming' = IF mounted THEN FALSE ELSE isStreaming
  /\ phase' = "idle"
  /\ UNCHANGED <<completed, aborted, mounted>>

FailedStatus == IF aborted THEN "stopped" ELSE "failed"

(* Mutant: the signal is not given to the fetch. *)
AbortedNot(answer) == bodies

(* What the signal of the fetch closes; the platform does it at once. *)
Aborted(answer) == bodies \ {answer}

(* The fetch or a read rejects: the service cannot be reached, the         *)
(* connection breaks, or the signal is aborted.                            *)
Rejects ==
  /\ phase # "idle"
  /\ Finish(buffer, FailedStatus)
  /\ bodies' = bodies \ {Current}
  /\ UNCHANGED received

OpenUnlessAborted == IF aborted THEN bodies ELSE bodies \union {Current}

(* The response is not a stream, or an error: its body is not read, and    *)
(* stays open.                                                             *)
Refused ==
  /\ phase = "fetching"
  /\ Finish(buffer, FailedStatus)
  /\ bodies' = OpenUnlessAborted
  /\ UNCHANGED received

Answered ==
  /\ phase = "fetching"
  /\ phase' = "reading"
  /\ bodies' = OpenUnlessAborted
  /\ UNCHANGED <<messages, isStreaming, completed, aborted, buffer, frame, mounted, received>>

(* What processCompleteEvents makes of events: the deltas before a [DONE]  *)
(* or an error.                                                            *)
StopsAt(events) ==
  LET stops == {i \in DOMAIN events : events[i] \in {"done", "error"}}
  IN IF stops = {} THEN Len(events) + 1 ELSE CHOOSE i \in stops : \A j \in stops : i <= j

DeltasOf(events) == SubSeq(events, 1, StopsAt(events) - 1)

Ending(events) == IF StopsAt(events) <= Len(events) THEN events[StopsAt(events)] ELSE "none"

(* After [DONE] the body is read to its end and ignored. *)
Read(events) == IF completed THEN <<>> ELSE DeltasOf(events)

(* enqueue() *)
Pending(deltas) == Joined(buffer, TextBehind(Len(received[Current]), deltas))

Hear(deltas) ==
  /\ Len(received[Current]) + Len(deltas) <= MaxDeltas
  /\ received' = [received EXCEPT ![Current] = @ \o deltas]

(* A chunk of the body.  An error in it gives up the reader, not the body. *)
Chunk(events) ==
  /\ phase = "reading"
  /\ LET deltas == Read(events)
         pending == Pending(deltas)
     IN /\ Hear(deltas)
        /\ IF ~completed /\ Ending(events) = "error"
             THEN Finish(pending, FailedStatus)
             ELSE /\ buffer' = pending
                  /\ frame' = (frame \/ deltas # <<>>)
                  /\ completed' = (completed \/ Ending(events) = "done")
                  /\ UNCHANGED <<messages, isStreaming, phase, aborted, mounted>>
  /\ UNCHANGED bodies

(* The end of the body, with an event that no blank line closes. *)
End(events) ==
  /\ phase = "reading" /\ Len(events) <= 1
  /\ LET deltas == Read(events)
     IN /\ Hear(deltas)
        /\ Finish(Pending(deltas),
                  IF ~completed /\ Ending(events) = "error" THEN FailedStatus ELSE "complete")
  /\ bodies' = bodies \ {Current}

(* The frame of the buffer: its callback, and flush(). *)
Frame ==
  /\ frame
  /\ frame' = FALSE
  /\ Show(Appended(buffer))
  /\ buffer' = Empty
  /\ UNCHANGED <<isStreaming, phase, completed, aborted, mounted, bodies, received>>

(* onStop; there is no controller when nothing streams. *)
Stop ==
  /\ mounted /\ phase # "idle"
  /\ aborted' = TRUE
  /\ bodies' = Aborted(Current)
  /\ UNCHANGED <<messages, isStreaming, phase, completed, buffer, frame, mounted, received>>

(* The effect of the page that is left. *)
Unmount ==
  /\ mounted
  /\ mounted' = FALSE
  /\ aborted' = (aborted \/ phase # "idle")
  /\ bodies' = IF phase # "idle" THEN Aborted(Current) ELSE bodies
  /\ UNCHANGED <<messages, isStreaming, phase, completed, buffer, frame, received>>

StartNewConversation ==
  /\ mounted /\ ~isStreaming /\ messages # <<>>
  /\ messages' = <<>> /\ received' = <<>>
  /\ bodies' = {0 : answer \in bodies}
  /\ UNCHANGED <<isStreaming, mounted>> /\ UNCHANGED stream

(* External: a body nobody reads ends, or is collected with its response. *)
BodyEnds ==
  /\ \E answer \in bodies :
       /\ ~(phase = "reading" /\ answer = Current)
       /\ bodies' = bodies \ {answer}
  /\ UNCHANGED <<messages, isStreaming, mounted, received>> /\ UNCHANGED stream

Next ==
  \/ BodyEnds \/ Refused
  \/ Submit \/ Rejects \/ Answered \/ Frame \/ Stop \/ Unmount \/ StartNewConversation
  \/ \E events \in Chunks : Chunk(events) \/ End(events)

Spec == Init /\ [][Next]_vars

-----------------------------------------------------------------------------
(* Properties. *)

(* What is shown of an answer is what was received of it, in order: all of *)
(* it once the answer ended, however it ended, and until then all but what *)
(* waits for the next frame.                                               *)
TranscriptIsExact ==
  mounted => \A i \in DOMAIN messages :
    messages[i].role = "assistant" =>
      Text(received[i]) =
        IF messages[i].status = "streaming" THEN Joined(messages[i].text, buffer)
        ELSE messages[i].text

(* The form is busy exactly while an answer streams, and that is the last  *)
(* message: no end of a stream leaves it busy, and no other stream is open *)
(* meanwhile.  A stream outlives its page only until its abort is seen.    *)
BusyWhileStreaming ==
  /\ mounted =>
       /\ isStreaming <=> phase # "idle"
       /\ {i \in DOMAIN messages : messages[i].status = "streaming"} =
            IF isStreaming THEN {Current} ELSE {}
  /\ ~mounted /\ phase # "idle" => aborted

(* A response body is open while its answer is read; of the answers that   *)
(* were stopped, that ended or whose page was left none stays open.  Only  *)
(* one that broke its protocol may, until it ends by itself: a visitor     *)
(* then occupies more than the one stream that is shown.                   *)
OnlyFailuresLeaveBodies ==
  /\ aborted => Current \notin bodies \ {0}
  /\ \A answer \in bodies \ {0} :
       \/ phase = "reading" /\ answer = Current
       \/ mounted => messages[answer].status = "failed"
  /\ phase = "reading" /\ ~aborted => Current \in bodies

=============================================================================
