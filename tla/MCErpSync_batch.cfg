\* Batch mode, no fault, no operator: only the agent serves the job.
SPECIFICATION FairSpec
CONSTANTS
    Jobs <- OneJob
    Workers = {w1}
    Connections <- OnlyBatch
    MaxRetries = 2
    Faults = {}
    MaxMsgs = 1
    MaxFaults = 0
    MaxManual = 0
PROPERTIES PendingJobServed
CHECK_DEADLOCK FALSE
