SPECIFICATION InventorySpec
CONSTANTS
    s1 = s1  s2 = s2  e = e  n = n  m = m  f = f  g = g  h = h  t1 = t1  t2 = t2
    i1 = i1  i2 = i2  i3 = i3  i4 = i4
    Sources = {s1, s2}
    ExternalIds = {e}
    Names = {n, m}
    Fingerprints = {f, g, h}
    EntryIds = {i1, i2, i3, i4}
    None = None
    Feeds <- MCFeeds
    Restored <- MCRestored
    Configs <- MCConfigs
    First <- MCBoth
INVARIANTS NoCheckLost RepeatAccepted
PROPERTIES ExternalIdKept
SYMMETRY MCSymmetry
