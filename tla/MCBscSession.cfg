\* Three calls in any order and overlap; the BSC refuses a command of up to two of
\* them, and the timer of one command may fire.
CONSTANTS
    w1 = w1
    w2 = w2
    w3 = w3
    w4 = w4
    Nobody = Nobody
    Writers <- MCThree
    Target <- MCTarget
    MaxRefused = 2
    MaxTimeouts = 1

SPECIFICATION SessionSpec

INVARIANT SessionTypeOK
INVARIANT WritesOwnBtsInTime
INVARIANT DoneIsComplete
INVARIANT SessionGivenBack

\* All calls settled is the end.
CHECK_DEADLOCK FALSE
