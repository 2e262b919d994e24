----------------------------- MODULE LiveConsole -----------------------------
(***************************************************************************)
(* The live inference console on the server: the in-process event source   *)
(* (live-event-source.server.ts) and the personal event streams that       *)
(* subscribe to it (personal-event-stream.server.ts), each with a bounded  *)
(* list of pending items in front of a ReadableStream, and a timer that    *)
(* reads the browser session again.                                        *)
(*                                                                         *)
(* A callback (publication, pull, timer, abort, cancel) runs to completion *)
(* and is one action.  Published events are numbered per stream; the       *)
(* numbers exist only here.  Time is counted in ticks.                     *)
(***************************************************************************)
EXTENDS Integers, FiniteSets, SequencesExt

CONSTANTS Principals,    \* signed-in accounts
          Streams,       \* response bodies; one identity serves again after closing
          Owner,         \* Owner[s]: the principal of the session behind s
          MaxPending,    \* LIVE_CONSOLE_MAX_PENDING_EVENTS
          Interval,      \* LIVE_CONSOLE_SESSION_REVALIDATION_MS, in ticks
          MaxEvents,     \* bound: events published during one stream
          MaxTime        \* bound: the last tick

ASSUME StreamAssumption ==
  /\ Owner \in [Streams -> Principals]
  /\ MaxPending \in Nat \ {0}
  /\ Interval \in Nat \ {0}

ASSUME BoundAssumption == MaxEvents \in Nat \ {0} /\ MaxTime \in Nat \ {0}

VARIABLES now,          \* the clock
          listeners,    \* listenersByPrincipal; an absent key is {}
          st            \* st[s]: the variables of stream s, see Closed

vars == <<now, listeners, st>>

(* room is how many chunks the platform takes before desiredSize is 0: one *)
(* for its queue, one more for a reader that already waits.                *)
(* due is when the revalidation timer fires (0: none), expires and revoked *)
(* describe the session (revoked = 0: it still stands).  published and     *)
(* told count the events of this stream and those it delivered or declared *)
(* lost.                                                                   *)
Closed == [open |-> FALSE, pending |-> <<>>, room |-> 0, due |-> 0,
           expires |-> 0, revoked |-> 0, published |-> 0, told |-> 0]

Init ==
  /\ now = 1
  /\ listeners = [p \in Principals |-> {}]
  /\ st = [s \in Streams |-> Closed]

-----------------------------------------------------------------------------
(* Pending items: an event with its number, a gap with its droppedEvents,  *)
(* a keep-alive comment.                                                   *)

Event(n) == [kind |-> "event", n |-> n]
Gap(n) == [kind |-> "gap", n |-> n]
KeepAlive == [kind |-> "comment", n |-> 0]

(* How many events an item stands for. *)
Weight(item) ==
  IF item.kind = "event" THEN 1 ELSE IF item.kind = "gap" THEN item.n ELSE 0

(* The events a list of items stands for, <<i, k>> the k-th of the i-th.   *)
StoodFor(items) == UNION {{i} \X (1..Weight(items[i])) : i \in DOMAIN items}

Weights(items) == Cardinality(StoodFor(items))

Min2(a, b) == IF a <= b THEN a ELSE b
Max2(a, b) == IF a >= b THEN a ELSE b

(* Mutant: the event that makes place for a new gap is not counted. *)
QueuedEventMiscounted(pending, n) ==
  IF Len(pending) < MaxPending THEN Append(pending, Event(n))
  ELSE IF Last(pending).kind = "gap" THEN Append(Front(pending), Gap(Last(pending).n + 1))
  ELSE Append(Front(pending), Gap(1))

(* queueEvent(): a full list turns its last item into a gap, or widens it. *)
QueuedEvent(pending, n) ==
  IF Len(pending) < MaxPending THEN Append(pending, Event(n))
  ELSE IF Last(pending).kind = "gap" THEN Append(Front(pending), Gap(Last(pending).n + 1))
  ELSE Append(Front(pending), Gap(1 + Weight(Last(pending))))

(* Mutant: a keep-alive is added to a full list, and to another one. *)
QueuedKeepAliveAlways(pending) == Append(pending, KeepAlive)

(* queueKeepAlive(): it pumps only when it added something. *)
QueuedKeepAlive(pending) ==
  IF Len(pending) >= MaxPending \/ KeepAlive \in ToSet(pending) THEN pending
  ELSE Append(pending, KeepAlive)

(* pump(): moves items to the platform while it has room. *)
Pumped(q) ==
  LET k == Min2(q.room, Len(q.pending))
      moved == SubSeq(q.pending, 1, k)
  IN [q EXCEPT !.pending = SubSeq(@, k + 1, Len(@)),
               !.room = @ - k,
               !.told = @ + Weights(moved)]

(* Mutant: the timer ignores when the session expires. *)
NextCheckIgnoringExpiry(expires) == now + Interval

(* scheduleRevalidation() *)
NextCheck(expires) == now + Max2(1, Min2(Interval, expires - now))

(* readBrowserSession() on the token of s finds nothing. *)
SessionGone(s) == st[s].revoked # 0 \/ st[s].expires <= now

-----------------------------------------------------------------------------

(* A GET with an unrestricted session: start() enqueues the greeting,      *)
(* which takes the room of the platform's queue, subscribes and arms the   *)
(* timer.  expires > now for a session that was found.  Any other request  *)
(* is refused and leaves nothing behind.                                   *)
Connect(s, expires) ==
  /\ ~st[s].open
  /\ listeners' = [listeners EXCEPT ![Owner[s]] = @ \union {s}]
  /\ st' = [st EXCEPT ![s] = [Closed EXCEPT !.open = TRUE,
                                            !.due = NextCheck(expires),
                                            !.expires = expires]]
  /\ UNCHANGED now

(* Mutant: the listener set of a principal goes with its first tab. *)
UnsubscribedAll(s) == [listeners EXCEPT ![Owner[s]] = {}]

(* The function subscribe() returned. *)
Unsubscribed(s) == [listeners EXCEPT ![Owner[s]] = @ \ {s}]

(* cleanup() *)
Cleanup(s) ==
  /\ st[s].open
  /\ listeners' = Unsubscribed(s)
  /\ st' = [st EXCEPT ![s] = Closed]
  /\ UNCHANGED now

(* The request's signal, or the reader of the body. *)
Abort(s) == Cleanup(s)

(* publishToPrincipal(): every listener of the principal queues the event  *)
(* and pumps.  The open streams of p all count it, registered or not.      *)
Publish(p) ==
  LET audience == {s \in Streams : st[s].open /\ Owner[s] = p}
      Counted(q) == [q EXCEPT !.published = @ + 1]
  IN /\ audience # {}
     /\ \A s \in audience : st[s].published < MaxEvents
     /\ st' = [s \in Streams |->
                 IF s \notin audience THEN st[s]
                 ELSE IF s \notin listeners[p] THEN Counted(st[s])
                 ELSE Pumped([Counted(st[s]) EXCEPT
                                !.pending = QueuedEvent(@, st[s].published + 1)])]
     /\ UNCHANGED <<now, listeners>>

(* The consumer takes a chunk, or starts to wait for one. *)
Read(s) ==
  /\ st[s].open
  /\ st[s].room < 2
  /\ st' = [st EXCEPT ![s].room = @ + 1]
  /\ UNCHANGED <<now, listeners>>

(* Mutant: pull() does not pump. *)
PullIdle(s) == st[s].open /\ st[s].room > 0 /\ UNCHANGED vars

(* The platform calls pull() while it has room. *)
Pull(s) ==
  /\ st[s].open
  /\ st[s].room > 0
  /\ st[s].pending # <<>>
  /\ st' = [st EXCEPT ![s] = Pumped(@)]
  /\ UNCHANGED <<now, listeners>>

(* revalidate(), when its timer fires. *)
RevalidateGone(s) ==
  /\ st[s].open /\ st[s].due = now
  /\ SessionGone(s)
  /\ Cleanup(s)

(* The session store throws. *)
RevalidateThrows(s) ==
  /\ st[s].open /\ st[s].due = now
  /\ Cleanup(s)

RevalidateStands(s) ==
  /\ st[s].open /\ st[s].due = now
  /\ ~SessionGone(s)
  /\ LET items == QueuedKeepAlive(st[s].pending)
         q == [st[s] EXCEPT !.pending = items, !.due = NextCheck(st[s].expires)]
     IN st' = [st EXCEPT ![s] = IF items = st[s].pending THEN q ELSE Pumped(q)]
  /\ UNCHANGED <<now, listeners>>

Revalidate(s) == RevalidateGone(s) \/ RevalidateThrows(s) \/ RevalidateStands(s)

(* External: sign-out, password change, disablement or eviction ends the   *)
(* session, or restricts it, while the stream is open.                     *)
Revoke(s) ==
  /\ st[s].open /\ ~SessionGone(s)
  /\ st' = [st EXCEPT ![s].revoked = now]
  /\ UNCHANGED <<now, listeners>>

(* External: the clock; timers that are due run before it moves on. *)
Tick ==
  /\ now < MaxTime
  /\ \A s \in Streams : st[s].open => st[s].due > now
  /\ now' = now + 1
  /\ UNCHANGED <<listeners, st>>

Next ==
  \/ Tick
  \/ \E p \in Principals : Publish(p)
  \/ \E s \in Streams :
       \/ \E expires \in (now + 1)..(now + Interval + 1) : Connect(s, expires)
       \/ Abort(s)
       \/ Read(s)
       \/ Pull(s)
       \/ Revalidate(s)
       \/ Revoke(s)

Spec == Init /\ [][Next]_vars

-----------------------------------------------------------------------------
(* Properties. *)

Items ==
  {KeepAlive} \union {Event(n) : n \in 1..MaxEvents} \union {Gap(n) : n \in 1..MaxEvents}

StreamStates ==
  [open : BOOLEAN, pending : Seq(Items), room : 0..2,
   due : 0..(MaxTime + Interval), expires : 0..(MaxTime + Interval + 1),
   revoked : 0..MaxTime, published : 0..MaxEvents, told : 0..MaxEvents]

TypeOK ==
  /\ now \in 1..MaxTime
  /\ listeners \in [Principals -> SUBSET Streams]
  /\ st \in [Streams -> StreamStates]
  /\ \A s \in Streams : Len(st[s].pending) <= MaxPending

(* Loss is exact: what an open stream has delivered, and what still waits  *)
(* in it, accounts for every event published to its principal since it     *)
(* connected, once, at its place, as itself or inside a gap.               *)
LossIsExact ==
  \A s \in Streams : st[s].open =>
    LET items == st[s].pending
        before(i) == st[s].told + Weights(SubSeq(items, 1, i - 1))
    IN /\ st[s].told + Weights(items) = st[s].published
       /\ \A i \in DOMAIN items :
            items[i].kind = "event" => items[i].n = before(i) + 1

(* The pending list is bounded also under keep-alives, and at most one     *)
(* keep-alive waits for a slow reader.                                     *)
SlowReaderIsBounded ==
  /\ TypeOK
  /\ \A s \in Streams :
       Cardinality({i \in DOMAIN st[s].pending : st[s].pending[i] = KeepAlive}) <= 1

(* A stream is subscribed exactly while it is open, whatever its sibling   *)
(* tabs do, and an open stream always has its next revalidation scheduled. *)
StreamsAreTended ==
  /\ \A s \in Streams : st[s].open <=> s \in listeners[Owner[s]]
  /\ \A s \in Streams : st[s].open <=> st[s].due >= now

(* A stream does not outlive its session: it closes when the session       *)
(* expires, and at most one interval after the session was revoked.        *)
SessionOutlivesStream ==
  \A s \in Streams : st[s].open =>
    /\ now <= st[s].expires
    /\ st[s].revoked # 0 => now - st[s].revoked <= Interval

=============================================================================
