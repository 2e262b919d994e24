------------------------------ MODULE MCGateway ------------------------------
(* Small instances of Gateway for TLC. *)
EXTENDS Gateway, TLC

CONSTANTS p1, p2, a1, a2, b1

MCPrincipals == {p1, p2}

MCRequests == {a1, b1}

MCRequests3 == {a1, a2, b1}

MCOwner == (a1 :> p1) @@ (b1 :> p2)

MCOwner3 == (a1 :> p1) @@ (a2 :> p1) @@ (b1 :> p2)
=============================================================================
