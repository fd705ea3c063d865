\* Three callers that start and validate, so that one holds a runtime while one
\* starts and one is queued when close() comes.  A closed manager with nobody
\* left in it is the end.
SPECIFICATION FairSpec
CONSTANTS
    Starters = {t1, t2, t3}
    Closers = {c1}
    Close = Close
INVARIANTS EverythingOwned ClosedLeavesNothing
PROPERTIES CallersReturn
CHECK_DEADLOCK FALSE
