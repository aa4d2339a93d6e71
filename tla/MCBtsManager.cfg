\* Three owners, three ids, two ports: both the ids and the ports run out.
CONSTANTS
    Keys = {k1, k2, k3}
    Configs = {c1, c2}
    DefaultConfig = c1
    Unset = Unset
    MaxBts = 3
    OsmuxPortStart = 6001
    OsmuxPortCount = 2
    Ttl = 1

SYMMETRY OwnerSymmetry
SPECIFICATION SpecReuse

INVARIANT TypeOK
INVARIANT MapsInverse
INVARIANT PortsAccounted
INVARIANT IdsAccounted
PROPERTY TakesOnlyFreeIds
PROPERTY LiveAssignmentKept
PROPERTY ReleasedIdKept
PROPERTY ImplementsLease
