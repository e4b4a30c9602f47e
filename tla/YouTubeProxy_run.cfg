\* Two connections at most, an accept thread that gives up on its second error in a row, and
\* any number of runs of the app.
CONSTANTS
    Slot = {s1, s2}
    MaxFailures = 1
    KnockReaches = TRUE
SPECIFICATION FairSpec
INVARIANTS TlsOutlivesWorkers NsslBalanced SlotsHaveWorkers
PROPERTIES StopReturns WorkersLeave
