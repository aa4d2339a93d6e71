\* Three calls of any method, two workers.
CONSTANTS
    Calls = {a, b, c}
    Kinds <- SomeMethods
    MaxWorkers = 2

CHECK_DEADLOCK FALSE
SPECIFICATION Spec

INVARIANT TrxTypeOK
INVARIANT PromisesAccounted
PROPERTY TransceiverKept
PROPERTY CallersAnswered
