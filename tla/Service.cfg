SPECIFICATION FairSpec
CONSTANTS
    Starters = {s1, s2}
    Stoppers = {x1}
    Handlers = {h1}
    Direct = {d1}
    Executors = {e1, e2}
    StopTask = StopTask  Down = Down  None = None
INVARIANTS OneExecutor DataLockCoversWork
 
