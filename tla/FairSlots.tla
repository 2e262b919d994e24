------------------------------ MODULE FairSlots ------------------------------
(***************************************************************************)
(* What generation admission promises, without counters, lists or splices: *)
(* at most Slots requests run; a request waits only while all slots are    *)
(* taken; a slot that is given back while somebody waits passes at once to *)
(* a waiter nobody is ahead of.  A waiter is ahead of the later waiters of *)
(* its own principal, and a principal is ahead of those that joined, or    *)
(* were served, after it last joined or was served.                        *)
(***************************************************************************)
EXTENDS Integers, FiniteSets

CONSTANTS Principals, Requests, Owner, Slots

VARIABLES running,    \* requests that hold a slot
          waiting,    \* requests that wait for one
          older,      \* <<s, r>>: waiter s came before waiter r of its principal
          turn        \* <<p, q>>: principal p is to be served before q

vars == <<running, waiting, older, turn>>

Init ==
  /\ running = {}
  /\ waiting = {}
  /\ older = {}
  /\ turn = {}

Wanting(set) == {Owner[r] : r \in set}

(* The parts of the two orders that still matter when only `set` waits. *)
OlderWithin(rel, set) == {e \in rel : e[1] \in set /\ e[2] \in set}

TurnWithin(rel, set) == {e \in rel : {e[1], e[2]} \subseteq Wanting(set)}

Start(r) ==
  /\ r \notin running \union waiting
  /\ Cardinality(running) < Slots
  /\ waiting = {}
  /\ running' = running \union {r}
  /\ UNCHANGED <<waiting, older, turn>>

Wait(r) ==
  /\ r \notin running \union waiting
  /\ Cardinality(running) = Slots
  /\ waiting' = waiting \union {r}
  /\ older' = older \union {<<s, r>> : s \in {s \in waiting : Owner[s] = Owner[r]}}
  /\ turn' = IF Owner[r] \in Wanting(waiting) THEN turn
             ELSE turn \union (Wanting(waiting) \X {Owner[r]})
  /\ UNCHANGED running

GiveUp(r) ==
  /\ r \in waiting
  /\ waiting' = waiting \ {r}
  /\ older' = OlderWithin(older, waiting')
  /\ turn' = TurnWithin(turn, waiting')
  /\ UNCHANGED running

Finish(r) ==
  /\ r \in running
  /\ waiting = {}
  /\ running' = running \ {r}
  /\ UNCHANGED <<waiting, older, turn>>

(* Nobody is ahead of w. *)
First(w) ==
  /\ w \in waiting
  /\ \A e \in older : e[2] # w
  /\ \A e \in turn : e[2] # Owner[w]

HandOver(r, w) ==
  LET p == Owner[w]
      left == waiting \ {w}
      others == Wanting(left) \ {p}
  IN /\ r \in running
     /\ First(w)
     /\ running' = (running \ {r}) \union {w}
     /\ waiting' = left
     /\ older' = OlderWithin(older, left)
     /\ turn' = {e \in TurnWithin(turn, left) : e[1] # p}
                  \union (IF p \in Wanting(left) THEN others \X {p} ELSE {})

Next ==
  \E r \in Requests :
    \/ Start(r)
    \/ Wait(r)
    \/ GiveUp(r)
    \/ Finish(r)
    \/ \E w \in Requests : HandOver(r, w)

Spec == Init /\ [][Next]_vars

=============================================================================
