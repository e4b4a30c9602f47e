\* Two requests inside account_lend() at once.
CONSTANTS
    Route = {r1, r2}
    Applet = {a1}
    LendsApart = FALSE
SYMMETRY Symmetry
SPECIFICATION Spec
INVARIANT RestoredAtRest
