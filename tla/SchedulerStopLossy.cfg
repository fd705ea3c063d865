\* stop() when a failing save swallows the cancellation of a task.
SPECIFICATION FairSpec
CONSTANTS
    Ids = {a, b}
    Gens = {g1, g2}
    Intervals = {60}
    Workers = {w1}
    Futures = {f1}
    MaxQueue = 2
    SaveMayFail = TRUE
    NoJob = NoJob  NoItem = NoItem  NoFuture = NoFuture
    Removed = Removed  Unknown = Unknown
PROPERTIES StopTerminates
