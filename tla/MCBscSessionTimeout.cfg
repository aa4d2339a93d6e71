\* Four calls; the timers of two commands fire and their answers come late.
CONSTANTS
    w1 = w1
    w2 = w2
    w3 = w3
    w4 = w4
    Nobody = Nobody
    Writers <- MCFour
    Target <- MCTarget
    MaxRefused = 0
    MaxTimeouts = 2

SPECIFICATION SessionSpec

INVARIANT WritesOwnBts

CHECK_DEADLOCK FALSE
