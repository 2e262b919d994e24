----------------------------- MODULE ConsolePage -----------------------------
(***************************************************************************)
(* The live inference console as its reader sees it: the page in one tab   *)
(* (ui/personal-live-console-page.tsx), its successive event sources, and  *)
(* behind each of them a personal event stream of LiveConsole.  The events *)
(* of a stream pass the validation of personal-console-events.ts before    *)
(* they become lines.                                                      *)
(*                                                                         *)
(* wire[s] holds what stream s has given to the platform and the page has  *)
(* not been told yet.  The number of an event, and the numbers a gap       *)
(* stands for, travel along to say which events a line is about; a comment *)
(* stands for none, its span is empty.                                     *)
(***************************************************************************)
EXTENDS LiveConsole

CONSTANTS Emitted,      \* Emitted[n]: the n-th event the gateway publishes
          MaxLines,     \* PERSONAL_CONSOLE_MAX_LINES
          Lifetimes     \* bound: what is left of a session when a stream starts

(* The streams are the successive sources of the tab: their number is the  *)
(* bound of its connection attempts.                                       *)
ASSUME PageAssumption ==
  /\ MaxLines \in Nat \ {0}
  /\ IsFiniteSet(Streams) /\ Streams = 1..Cardinality(Streams)
  /\ Lifetimes \subseteq Nat \ {0}

RequestKinds == {"discovery", "generation", "routing_rejection"}

Decisions == {"admitted", "rejected"}

Outcomes == {"cancelled", "completed", "configuration_error", "rejected", "upstream_error"}

(* The events a request reports of itself (createGatewayRequestLifecycle,  *)
(* request-lifecycle.ts).  capacity, times, statuses and metrics are sets: *)
(* of at most one snapshot, and of the numbers that are not null.  Limits  *)
(* are positive, clocks do not run backwards, statuses are those of HTTP;  *)
(* metrics are what the backend said.                                      *)
Snapshots == [counts : SUBSET Nat, limits : SUBSET (Nat \ {0})]

Reported(e) ==
  /\ e.requestKind \in RequestKinds
  /\ e.capacity \subseteq Snapshots
  /\ e.times \subseteq Nat
  /\ \/ e.type = "request_started"
     \/ e.type = "queued" /\ e.capacity # {}
     \/ e.type = "admission_decided" /\ e.decision \in Decisions /\ e.capacity # {}
     \/ e.type = "first_output" /\ e.times # {}
     \/ /\ e.type = "terminal"
        /\ e.outcome \in Outcomes
        /\ e.decision \in Decisions \union {"not_applicable"}
        /\ e.statuses \subseteq 100..599
        /\ e.metrics \subseteq Int

ASSUME EmittedAssumption ==
  /\ DOMAIN Emitted = 1..MaxEvents
  /\ \A n \in 1..MaxEvents : Reported(Emitted[n])

VARIABLES page,   \* the state of the mounted component, see FreshPage
          conn,   \* conn[s]: the event source of stream s, see NoSource
          wire    \* wire[s]: items under way from stream s to the page

pageVars == <<vars, page, conn, wire>>

FreshPage == [mounted |-> FALSE, connection |-> "connecting", lines |-> <<>>,
              nextKey |-> 0, connectionAttempt |-> 0]

(* active is the variable of the effect that created the source; heard is  *)
(* the last event number that reached its listeners.                       *)
NoSource == [state |-> "none", active |-> FALSE, heard |-> 0]

PageInit ==
  /\ Init
  /\ page = FreshPage
  /\ conn = [s \in Streams |-> NoSource]
  /\ wire = [s \in Streams |-> <<>>]

-----------------------------------------------------------------------------
(* projectPersonalConsoleEvent(): an event is shown when the fields of its *)
(* type pass.                                                              *)

IsLifecycleBase(e) == e.requestKind \in RequestKinds

(* counts may be 0, limits may not. *)
IsCapacity(snapshot) == snapshot.counts \subseteq Nat /\ snapshot.limits \subseteq Nat \ {0}

HasCapacity(e) == e.capacity # {} /\ \A snapshot \in e.capacity : IsCapacity(snapshot)

IsMetadata(metrics) == metrics \subseteq Nat

ProjectTerminal(e) ==
  /\ e.outcome \in Outcomes
  /\ e.decision \in Decisions \union {"not_applicable"}
  /\ e.statuses \subseteq 100..599
  /\ e.times \subseteq Nat
  /\ \A snapshot \in e.capacity : IsCapacity(snapshot)
  /\ IsMetadata(e.metrics)

Projected(e) ==
  /\ IsLifecycleBase(e)
  /\ CASE e.type = "request_started"    -> TRUE
       [] e.type = "queued"             -> HasCapacity(e)
       [] e.type = "admission_decided"  -> e.decision \in Decisions /\ HasCapacity(e)
       [] e.type = "first_output"       -> e.times # {} /\ e.times \subseteq Nat
       [] e.type = "terminal"           -> ProjectTerminal(e)
       [] OTHER                         -> FALSE

(* An item of the wire becomes a line; comments are not dispatched. *)
Shown(item) ==
  \/ item.kind = "gap"
  \/ item.kind = "event" /\ Projected(Emitted[item.from])

-----------------------------------------------------------------------------
(* The page. *)

(* slice(-PERSONAL_CONSOLE_MAX_LINES) *)
LastLines(lines) == SubSeq(lines, Max2(1, Len(lines) - MaxLines + 1), Len(lines))

(* append() *)
Appended(s, item) ==
  [page EXCEPT
     !.nextKey = @ + 1,
     !.lines = LastLines(Append(@, [key |-> page.nextKey + 1, source |-> s, kind |-> item.kind,
                                    from |-> item.from, to |-> item.to]))]

(* The effect: a new source asks for the stream. *)
CreateSource(s) ==
  /\ s = page.connectionAttempt + 1
  /\ conn' = [conn EXCEPT ![s] = [state |-> "requested", active |-> TRUE, heard |-> 0]]
  /\ UNCHANGED <<vars, wire>>

Mount(s) ==
  /\ ~page.mounted
  /\ CreateSource(s)
  /\ page' = [FreshPage EXCEPT !.mounted = TRUE, !.connectionAttempt = s]

(* The button of a disconnected page; the source it replaces is closed. *)
Reconnect(s) ==
  /\ page.mounted /\ page.connection = "disconnected"
  /\ CreateSource(s)
  /\ page' = [page EXCEPT !.connection = "connecting", !.connectionAttempt = s]

(* Mutant: the page goes and its source stays. *)
LeftOpen(s) == [conn[s] EXCEPT !.active = FALSE]

(* active = false; source.close() *)
Dropped(s) == [conn[s] EXCEPT !.active = FALSE, !.state = "closed"]

(* The cleanup of the effect. *)
Unmount ==
  /\ page.mounted
  /\ page' = [FreshPage EXCEPT !.connectionAttempt = page.connectionAttempt]
  /\ conn' = [s \in Streams |-> IF conn[s].active THEN Dropped(s) ELSE conn[s]]
  /\ UNCHANGED <<vars, wire>>

ClearTab ==
  /\ page.lines # <<>>
  /\ page' = [page EXCEPT !.lines = <<>>]
  /\ UNCHANGED <<vars, conn, wire>>

(* onopen *)
OnOpen(s) ==
  /\ conn[s].state = "served"
  /\ conn' = [conn EXCEPT ![s].state = "opened"]
  /\ page' = IF conn[s].active THEN [page EXCEPT !.connection = "live"] ELSE page
  /\ UNCHANGED <<vars, wire>>

(* Mutant: a line of a source that was given up is still appended. *)
OnEventLate(s) ==
  /\ conn[s].state \in {"opened", "closed"} /\ wire[s] # <<>>
  /\ LET item == Head(wire[s])
     IN /\ page' = IF page.mounted /\ Shown(item) THEN Appended(s, item) ELSE page
        /\ conn' = [conn EXCEPT ![s].heard = item.to]
  /\ wire' = [wire EXCEPT ![s] = Tail(@)]
  /\ UNCHANGED vars

(* A listener.  The interface of an event source does not promise that     *)
(* nothing waits for the listeners when close() returns.                   *)
OnEvent(s) ==
  /\ conn[s].state \in {"opened", "closed"} /\ wire[s] # <<>>
  /\ LET item == Head(wire[s])
     IN /\ page' = IF conn[s].active /\ Shown(item) THEN Appended(s, item) ELSE page
        /\ conn' = [conn EXCEPT ![s].heard = item.to]
  /\ wire' = [wire EXCEPT ![s] = Tail(@)]
  /\ UNCHANGED vars

(* onerror *)
OnError(s) ==
  /\ conn' = [conn EXCEPT ![s] = Dropped(s)]
  /\ page' = IF conn[s].active THEN [page EXCEPT !.connection = "disconnected"] ELSE page
  /\ UNCHANGED vars

(* The server refused, or its stream has ended and all of it was told. *)
StreamEnds(s) ==
  /\ \/ conn[s].state = "refused"
     \/ conn[s].state = "opened" /\ ~st[s].open /\ wire[s] = <<>>
  /\ OnError(s)
  /\ UNCHANGED wire

(* External: the network fails; what was under way is lost. *)
NetworkFails(s) ==
  /\ conn[s].state \in {"requested", "served", "opened", "refused"}
  /\ OnError(s)
  /\ wire' = [wire EXCEPT ![s] = <<>>]

-----------------------------------------------------------------------------
(* The server: the steps of LiveConsole, and what they give to the wire. *)

(* handlePersonalEventStreamRequest(): what the session cookie leads to. *)
Serve(s, session) ==
  /\ conn[s].state = "requested"
  /\ IF session = "unrestricted"
       THEN /\ \E left \in Lifetimes : Connect(s, now + left)
            /\ conn' = [conn EXCEPT ![s].state = "served"]
       ELSE /\ conn' = [conn EXCEPT ![s].state = "refused"]
            /\ UNCHANGED vars
  /\ UNCHANGED <<page, wire>>

(* Items that wait in stream s, with the events they stand for. *)
Numbered(s, items) ==
  LET Span(i) ==
        LET before == st[s].told + Weights(SubSeq(items, 1, i - 1))
        IN IF items[i].kind = "event"
             THEN [kind |-> "event", from |-> items[i].n, to |-> items[i].n]
           ELSE [kind |-> items[i].kind, from |-> before + 1, to |-> before + Weight(items[i])]
  IN [i \in DOMAIN items |-> Span(i)]

(* Of the items queued in s, those that a step moved to the platform. *)
Moved(s, queued) == Numbered(s, SubSeq(queued, 1, Len(queued) - Len(st'[s].pending)))

Carries(s) == conn[s].state \in {"served", "opened"}

Wire(queued) ==
  /\ wire' = [s \in Streams |->
                IF Carries(s) /\ st'[s].open THEN wire[s] \o Moved(s, queued[s]) ELSE wire[s]]
  /\ UNCHANGED <<page, conn>>

Pending == [s \in Streams |-> st[s].pending]

ServerPublish(p) ==
  /\ Publish(p)
  /\ Wire([s \in Streams |->
             IF s \in listeners[p] THEN QueuedEvent(st[s].pending, st[s].published + 1)
             ELSE st[s].pending])

ServerPull(s) == Pull(s) /\ Wire(Pending)

(* A source that is closed does not read on. *)
ServerRead(s) == Carries(s) /\ Read(s) /\ UNCHANGED <<page, conn, wire>>

ServerRevalidate(s) ==
  /\ Revalidate(s)
  /\ Wire([Pending EXCEPT ![s] = QueuedKeepAlive(@)])

(* A revocation shows when the stream is revalidated, and a revalidation   *)
(* may end the stream at any time: sessions are not revoked here.          *)

(* The server learns that a source is gone, or cannot reach it any more. *)
ServerAbort(s) == Abort(s) /\ UNCHANGED <<page, conn, wire>>

ServerTick == Tick /\ UNCHANGED <<page, conn, wire>>

PageNext ==
  \/ \E s \in Streams :
       \/ Mount(s) \/ Reconnect(s) \/ OnOpen(s) \/ OnEvent(s) \/ StreamEnds(s)
       \/ NetworkFails(s)
       \/ \E session \in {"unrestricted", "restricted", "none", "unreadable"} : Serve(s, session)
       \/ ServerPull(s) \/ ServerRead(s) \/ ServerRevalidate(s)
       \/ ServerAbort(s)
  \/ Unmount \/ ClearTab
  \/ \E p \in Principals : ServerPublish(p)
  \/ ServerTick

PageSpec == PageInit /\ [][PageNext]_pageVars

(* The platform pulls, the browser keeps reading and runs its callbacks. *)
PageFairness ==
  \A s \in Streams :
    /\ WF_pageVars(ServerPull(s)) /\ WF_pageVars(ServerRead(s))
    /\ WF_pageVars(OnOpen(s)) /\ WF_pageVars(OnEvent(s)) /\ WF_pageVars(StreamEnds(s))

FairPageSpec == PageSpec /\ PageFairness

-----------------------------------------------------------------------------
(* Properties. *)

(* What the gateway reports truly may not be dropped: only an event with a *)
(* negative number, which only a backend can have made up, is not shown.   *)
MadeUp(n) == \E number \in Emitted[n].metrics : number < 0

NothingBetween(first, last) == \A n \in first..last : MadeUp(n)

(* The lines of a tab are the last ones of what it was told, without a     *)
(* hole: within a connection each line continues where the one above it    *)
(* stops, gaps counted with their width, up to the last event that was     *)
(* heard, and lines of different connections do not mix.                   *)
LinesAreExact ==
  LET lines == page.lines
      n == Len(lines)
  IN /\ n <= MaxLines
     /\ \A i \in 1..n : lines[i].key = page.nextKey - n + i
     /\ \A i \in 1..(n - 1) :
          \/ /\ lines[i].source = lines[i+1].source
             /\ lines[i].to < lines[i+1].from
             /\ NothingBetween(lines[i].to + 1, lines[i+1].from - 1)
          \/ ~conn[lines[i].source].active
     /\ \A s \in Streams : conn[s].active =>
          LET mine == {i \in 1..n : lines[i].source = s}
          IN /\ mine # {} => /\ n \in mine
                             /\ NothingBetween(lines[n].to + 1, conn[s].heard)
             /\ n = 0 /\ page.nextKey = 0 => NothingBetween(1, conn[s].heard)

(* The page tends its sources: a source is open exactly while the page is  *)
(* mounted and not shown as disconnected, there is never a second one, and *)
(* the badge is live only after the stream was opened.                     *)
SourcesAreTended ==
  LET open == {s \in Streams : conn[s].state \notin {"none", "closed"}}
  IN /\ Cardinality(open) = IF page.mounted /\ page.connection # "disconnected" THEN 1 ELSE 0
     /\ \A s \in Streams : conn[s].active <=> s \in open
     /\ \A s \in open : page.connection = "live" <=> conn[s].state = "opened"

(* While a tab stays connected, every published event is shown, or counted *)
(* in a gap, or is one that may not be shown; and when the stream ends,    *)
(* for a session that ended or a server that went away, the tab says so.   *)
EventsAreSeen ==
  /\ \A s \in Streams : \A n \in 1..MaxEvents :
       (conn[s].state = "opened" /\ st[s].published >= n)
         ~> (conn[s].heard >= n \/ conn[s].state # "opened")
  /\ \A s \in Streams :
       (conn[s].state = "opened" /\ ~st[s].open) ~> (conn[s].state # "opened")

=============================================================================
