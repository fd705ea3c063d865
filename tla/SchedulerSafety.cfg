\* Two checks, two workers, a queue of one slot less than the checks.
SPECIFICATION Spec
CONSTANTS
    Ids = {a, b}
    Gens = {g1, g2}
    Intervals = {30, 60}
    Workers = {w1, w2}
    Futures = {f1}
    MaxQueue = 1
    SaveMayFail = TRUE
    NoJob = NoJob  NoItem = NoItem  NoFuture = NoFuture
    Removed = Removed  Unknown = Unknown
INVARIANTS NoOverlap Bookkeeping NoTombstoneLeak StopLeavesNoTask
PROPERTIES StartsOnlyCurrentWork
SYMMETRY MCSymmetry
