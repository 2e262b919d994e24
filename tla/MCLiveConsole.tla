---------------------------- MODULE MCLiveConsole ----------------------------
(* Small instances of LiveConsole for TLC. *)
EXTENDS LiveConsole, TLC

CONSTANTS p1, s1, s2

MCTwoTabs == (s1 :> p1) @@ (s2 :> p1)

(* The two tabs of MCTwoTabs are interchangeable: they have one owner. *)
MCTabs == Permutations({s1, s2})
=============================================================================
