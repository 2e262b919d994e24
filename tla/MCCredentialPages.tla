------------------------- MODULE MCCredentialPages -------------------------
(* Listings of models for the model checker. *)
EXTENDS CredentialPages

MCListings == {<<>>, <<"bad">>, <<"a", "bad", "b", "a">>, <<"a", "b", "c", "d">>}

=============================================================================
