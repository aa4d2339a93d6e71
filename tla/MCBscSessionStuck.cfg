\* As MCBscSession.cfg: what a refused command leaves to the calls after it.
CONSTANTS
    w1 = w1
    w2 = w2
    w3 = w3
    w4 = w4
    Nobody = Nobody
    Writers <- MCThree
    Target <- MCTarget
    MaxRefused = 1
    MaxTimeouts = 0

SPECIFICATION SessionSpec

PROPERTY FailsOnlyByItself

CHECK_DEADLOCK FALSE
