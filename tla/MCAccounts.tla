----------------------------- MODULE MCAccounts -----------------------------
(***************************************************************************)
(* An instance of Accounts.                                                *)
(***************************************************************************)
EXTENDS Accounts, TLC

CONSTANTS u1, u2, n1, n2, c1, c2, k1, s1, s2, s3

MCIds == {u1, u2}
MCNames == {n1, n2}
MCCalls == {c1, c2}
MCSessionIds == {s1, s2, s3}

(* Which free id an insertion takes (FreshId) makes no difference that a    *)
(* permutation of the ids would not undo, so they are symmetric too.       *)
MCSymmetry ==
  Permutations(MCIds) \union Permutations(MCNames) \union Permutations(MCCalls)
    \union Permutations(MCSessionIds)

MCOperations ==
  {"bootstrap", "register", "login", "change", "disable", "temporary", "recover", "create", "revoke"}

=============================================================================
