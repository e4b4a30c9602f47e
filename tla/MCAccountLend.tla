---------------------------- MODULE MCAccountLend ----------------------------
(* AccountLend for TLC: the requests of one kind are interchangeable. *)
EXTENDS AccountLend, TLC

Symmetry == Permutations(Route) \cup Permutations(Applet)
==============================================================================
