\* Three requests, their timers, and two losses of the connection.
CONSTANTS
    r1 = r1
    r2 = r2
    r3 = r3
    NoRequest = NoRequest
    Requests <- MCRequests
    Size <- MCSize
    MaxCloses = 2

SPECIFICATION VtySpec

INVARIANT VtyTypeOK
INVARIANT NeverIdleWithWork
PROPERTY CleanAnswer
PROPERTY EveryRequestSettles

\* All requests settled is the end.
CHECK_DEADLOCK FALSE
