----------------------------- MODULE MCAnalytics -----------------------------
(* Small instances of Analytics for TLC. *)
EXTENDS Analytics

CONSTANTS q1, q2

MCRequests == {q1, q2}

MCHours == {1, 2}

MCHour == {1}
=============================================================================
