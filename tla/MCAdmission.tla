----------------------------- MODULE MCAdmission -----------------------------
(* A small instance of Admission for TLC: one principal whose backlog may   *)
(* never end, and one request of each of two others.                       *)
EXTENDS Admission

CONSTANTS p1, p2, p3, a1, a2, a3, a4, b1, c1

MCPrincipals == {p1, p2, p3}

MCRequests == {a1, a2, a3, a4, b1, c1}

MCOwner == (a1 :> p1) @@ (a2 :> p1) @@ (a3 :> p1) @@ (a4 :> p1) @@ (b1 :> p2) @@ (c1 :> p3)
=============================================================================
