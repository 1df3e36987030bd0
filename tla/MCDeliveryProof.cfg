\* Wrong codes against one invoice.
SPECIFICATION Spec
CONSTANTS
    Bills = {b1}
    Phone <- EveryPhone
    Configured = {"sms"}
    Verifiers = {v1, v2}
    MaxAttempts = 2
    MaxSends = 2
    MaxTries = 3
    Distances = {0, 200, 201}
INVARIANT WrongCodesLock
CHECK_DEADLOCK FALSE
