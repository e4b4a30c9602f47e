\* Two requests of the menu, a game or the HOME Menu and one of the applet, which overlap
\* during the real call, over any number of titles.
CONSTANTS
    Route = {r1, r2}
    Applet = {a1}
    LendsApart = TRUE
SYMMETRY Symmetry
SPECIFICATION Spec
INVARIANTS LentCallGoesThere RestoredAtRest
