\* Two owners, two BTSs, two ports, two websockets.
CONSTANTS
    Keys = {k1, k2}
    Configs = {c1}
    DefaultConfig = c1
    Unset = Unset
    MaxBts = 2
    OsmuxPortStart = 6001
    OsmuxPortCount = 2
    Ttl = 0
    Sockets = {s1, s2}

SPECIFICATION MediaSpec

INVARIANT MediaTypeOK
INVARIANT NoPortLeak
INVARIANT PortOfLease
PROPERTY NamedIsServed
