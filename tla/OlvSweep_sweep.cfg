\* Two ranges of the library, and an applet with two threads and two file handles.
CONSTANTS
    Thread = {t1, t2}
    Handle = {h1, h2}
    Place = {p1, p2}
SYMMETRY Symmetry
SPECIFICATION Spec
INVARIANTS LibraryFollows AppletFollows OnlyTheList
