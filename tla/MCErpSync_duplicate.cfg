\* Two workers, no fault, no operator: the sweep alone makes them post twice.
SPECIFICATION Spec
CONSTANTS
    Jobs <- OneJob
    Workers = {w1, w2}
    Connections <- OnlyRealtime
    MaxRetries = 3
    Faults = {}
    MaxMsgs = 2
    MaxFaults = 0
    MaxManual = 0
INVARIANTS NoDuplicatePosting
CHECK_DEADLOCK FALSE
