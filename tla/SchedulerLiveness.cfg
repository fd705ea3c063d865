\* Two checks on one worker, one manual caller: who waits for whom.
SPECIFICATION FairSpec
CONSTANTS
    Ids = {a, b}
    Gens = {g1, g2}
    Intervals = {60}
    Workers = {w1}
    Futures = {f1}
    MaxQueue = 2
    SaveMayFail = TRUE
    NoJob = NoJob  NoItem = NoItem  NoFuture = NoFuture
    Removed = Removed  Unknown = Unknown
PROPERTIES ManualWorkResolves UpdateTerminates
