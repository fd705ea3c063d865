SPECIFICATION Spec
CONSTANTS
    ka = ka  kb = kb  kc = kc  g1 = g1  g2 = g2
    Users = {u1, u2}
    Keys = {ka, kb}
    Gens = {g1, g2}
    Inventories <- MCMixed
    Limit = 2
    InitialBackoff = 0
    MaxBackoff = 0
    NRuntimes = 3
    Owner = Owner  NoGen = NoGen  AnyGen = AnyGen
SYMMETRY Symmetry
INVARIANTS SlotsConserved EveryProcessOwned UsesOwnGeneration OnlyDesiredKept ClosedLeavesNothing
