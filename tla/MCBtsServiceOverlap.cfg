\* Two PUTs of one owner in flight at once.
CONSTANTS
    Keys = {k1, k2}
    Configs = {c1, c2}
    DefaultConfig = c1
    Unset = Unset
    MaxBts = 2
    OsmuxPortStart = 6001
    OsmuxPortCount = 2
    Ttl = 0
    Puts = {p1, p2}
    Overlapping = {k1, k2}
    Deleting = {}
    Plain = {k1, k2}
    None = None

SYMMETRY Symmetry
SPECIFICATION ServiceSpec

PROPERTY ConfirmedKept
