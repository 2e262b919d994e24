---------------------------- MODULE MCDemoTokens ----------------------------
(***************************************************************************)
(* Instances of DemoTokens.                                                *)
(***************************************************************************)
EXTENDS DemoTokens, TLC

CONSTANTS n1, n2, n3, global

MCNames == {n1, n2, n3, global}
NameSymmetry == Permutations({n1, n2, n3})

AllOperations == {"login", "register", "issue", "view"}

MCMaximum == [k \in Kinds |-> IF k = "login" THEN 2 ELSE 1]
MCWindow == [k \in Kinds |-> IF k \in {"view", "registration"} THEN 1 ELSE 2]

=============================================================================
