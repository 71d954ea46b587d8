\* Three Execute calls on one peer, c1 a resharing and the others signings,
\* each with one of two session ids: a caller may give a resharing the
\* session id of a signing still pending.
CONSTANTS
    c1 = c1
    c2 = c2
    c3 = c3
    c4 = c4
    s1 = s1
    s2 = s2
    s3 = s3
    NoCall = NoCall
    Calls <- MCCalls
    Sessions <- MCSessions
    Kind <- MCMixed
    SidChoices <- MCAnySids
SPECIFICATION Spec
INVARIANTS
    KeyshareReleased
\* A keyshare lock that is never released leaves the later constructors
\* blocked with nothing left to do; that is what this run is about, so
\* the stop is not reported as a deadlock.
CHECK_DEADLOCK FALSE
