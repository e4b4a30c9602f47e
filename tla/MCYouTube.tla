------------------------------ MODULE MCYouTube ------------------------------
(* Constants for TLC: the workers are interchangeable. *)
EXTENDS YouTube, TLC

Symmetry == Permutations(Worker)
=============================================================================
