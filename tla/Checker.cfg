SPECIFICATION FairSpec
CONSTANTS
    a = a  b = b  ra = ra  ta = ta  ea = ea  pb = pb
    Checks = {a, b}
    Targets = {ra, ta, ea, pb}
    Of <- MCOf
    Kind <- MCKind
    Quorum <- MCQuorum
    Offset <- MCOffset
    Interval = 2
    MaxParallel = 1
    MaxThroughput = 1
    MaxRestarts = 1
    None = None
INVARIANTS NothingLeaks 
PROPERTIES DeferralShrinks CyclesEnd
