---------------------------- MODULE MCConsolePage ----------------------------
(* A small instance of ConsolePage for TLC: one account, one tab. *)
EXTENDS ConsolePage

CONSTANT p1

MCOwner == [s \in 1..2 |-> p1]

Snapshot == [counts |-> {0, 1}, limits |-> {1}]

Started == [type |-> "request_started", requestKind |-> "generation", decision |-> "none",
            outcome |-> "none", capacity |-> {}, times |-> {}, statuses |-> {}, metrics |-> {}]

Decided == [Started EXCEPT !.type = "admission_decided", !.decision = "admitted",
                           !.capacity = {Snapshot}]

Ended == [Started EXCEPT !.type = "terminal", !.decision = "admitted", !.outcome = "completed",
                         !.capacity = {Snapshot}, !.times = {0}, !.statuses = {200},
                         !.metrics = {0}]

(* A request that was shown, and one whose backend reported nonsense. *)
MCEmitted == <<Decided, [Ended EXCEPT !.metrics = {0, -1}], Ended>>

=============================================================================
