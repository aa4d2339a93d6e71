\* Two PUTs in flight, of two owners, and everything else in between.
CONSTANTS
    Keys = {k1, k2}
    Configs = {c1, c2}
    DefaultConfig = c1
    Unset = Unset
    MaxBts = 2
    OsmuxPortStart = 6001
    OsmuxPortCount = 2
    Ttl = 0
    Puts = {p1, p2}
    Overlapping = {}
    Deleting = {k1, k2}
    Plain = {k1, k2}
    None = None

SYMMETRY Symmetry
SPECIFICATION ServiceSpec

INVARIANT ServiceTypeOK
INVARIANT LiveRecordIsOwners
INVARIANT BscAgrees
PROPERTY NewIdNotReportedInUse
PROPERTY ConfirmedKept
PROPERTY ImplementsLease
