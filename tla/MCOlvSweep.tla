----------------------------- MODULE MCOlvSweep -----------------------------
(* Constants for TLC. *)
EXTENDS OlvSweep, TLC

\* Threads are interchangeable, and so are handles and places.
Symmetry == {p @@ q @@ r : p \in Permutations(Thread), q \in Permutations(Handle),
                           r \in Permutations(Place)}
==============================================================================
