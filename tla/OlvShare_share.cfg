\* Two workers sharing in turn, two Miiverses, any number of shares and processes.
CONSTANTS
    Caller = {w1, w2}
    Hosts = {juxt, rose}
    ThreadFirst = TRUE
SPECIFICATION ShareFairSpec
PROPERTIES OneThread OneScreenAMinute FailureKept Settles
