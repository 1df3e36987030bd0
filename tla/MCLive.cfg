\* Realtime mode, no lost message: every job is decided; roots are delivered.
SPECIFICATION LiveSpec
CONSTANTS
    trip = trip
    visit = visit
    NoRecord = NoRecord
    Jobs <- OneJob
    Workers = {w1, w2}
    Connections <- OnlyRealtime
    MaxRetries = 2
    Faults = {"erp"}
    MaxMsgs = 1
    MaxFaults = 1
    MaxManual = 1
INVARIANTS GivenUpMeansExhausted
PROPERTIES JobsDecided RootsDelivered
CHECK_DEADLOCK FALSE
