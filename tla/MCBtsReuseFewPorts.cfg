\* Fewer ports than ids, as in DEFAULT_OPTIONS (1024 of 65536).
CONSTANTS
    Keys = {k1, k2, k3}
    Configs = {c1}
    DefaultConfig = c1
    Unset = Unset
    MaxBts = 3
    OsmuxPortStart = 6001
    OsmuxPortCount = 2
    Ttl = 0

SYMMETRY OwnerSymmetry
SPECIFICATION SpecReuse

INVARIANT ReleasedIdReusable
