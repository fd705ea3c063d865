SPECIFICATION Spec
CONSTANTS
    Checks = {a}
    Gens = {g1, g2}
    Revs = {r1, r2}
    MaxBoots = 3
    Absent = Absent  NoResult = NoResult
INVARIANTS FreshIsOurs MemoryIsCurrent
