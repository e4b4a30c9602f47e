\* Two threads, two accounts, any console: requests, title starts, account loads, visits to
\* the applet and the overlay, changes of the Miiverse and relaunches without limit.
CONSTANTS
    Thread = {t1, t2}
    Slot = {s1, s2}
SYMMETRY Symmetry
SPECIFICATION Spec
INVARIANTS TokenOfTheAccount WarmForTheApplet
PROPERTY LentAppletGetsOwn
