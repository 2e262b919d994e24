-------------------------------- MODULE Ranks --------------------------------
(***************************************************************************)
(* The numbers of a finite set in order, and what a filter keeps of a list.*)
(***************************************************************************)
EXTENDS Integers, Sequences, FiniteSets

Ascending(numbers) ==
  [i \in 1..Cardinality(numbers) |->
     CHOOSE n \in numbers : Cardinality({m \in numbers : m <= n}) = i]

(* The entries of a list at some of its places. *)
At(list, places) ==
  IF places = DOMAIN list THEN list
  ELSE LET order == Ascending(places)
       IN [i \in DOMAIN order |-> list[order[i]]]

=============================================================================
