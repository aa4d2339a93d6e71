\* Two sessions, one after or over the other, two messages, one failure or
\* closeWs; every ring and cache is full with one message.
CONSTANTS
    MaxOpens = 2
    MaxMessages = 2
    MaxFaults = 1
    RingSize = 1
    CacheSize = 1

CHECK_DEADLOCK FALSE
SPECIFICATION Spec

INVARIANT WorkerTypeOK
INVARIANT UplinkConserved
INVARIANT DownlinkConserved
PROPERTY RslHeldBack
PROPERTY MessagesArrive
