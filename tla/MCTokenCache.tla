--------------------------- MODULE MCTokenCache ---------------------------
(* Constants for TLC. *)
EXTENDS TokenCache, TLC

\* Threads are interchangeable, and so are accounts.
Symmetry == {p @@ q : p \in Permutations(Thread), q \in Permutations(Slot)}
==============================================================================
