\* One document, two workers, every kind of fault, every connection.
SPECIFICATION Spec
CONSTANTS
    Jobs <- OneJob
    Workers = {w1, w2}
    Connections <- AnyConnection
    MaxRetries = 2
    Faults = {"web", "broker", "worker", "erp", "agent", "report"}
    MaxMsgs = 1
    MaxFaults = 1
    MaxManual = 1
SYMMETRY WorkerSymmetry
INVARIANTS TypeOK AckMeansPosted SyncedMeansPosted RetryBudgetConsistent
PROPERTIES PendingOnlyByRetry ImplementsPromise
