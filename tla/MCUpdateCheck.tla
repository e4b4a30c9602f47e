---------------------------- MODULE MCUpdateCheck ----------------------------
(* Constants for TLC. *)
EXTENDS UpdateCheck

\* One that runs, one below it with a higher patch, one above by its patch, one by its minor
\* with a lower patch, and the next major.
MCrunning == <<1, 1, 1>>
MCVersion == {<<1, 0, 2>>, <<1, 1, 1>>, <<1, 1, 2>>, <<1, 2, 0>>, <<2, 0, 0>>}
==============================================================================
