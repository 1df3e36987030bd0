\* Two overlapping calls of synchronize(), one mishap.
SPECIFICATION Spec
CONSTANTS
    trip = trip
    visit = visit
    receipt = receipt
    NoRecord = NoRecord
    Records = {trip, visit, receipt}
    Kind <- KindOf
    Parent <- ParentOf
    Cycles = {c1, c2}
    Slots = {1, 2}
    MaxMishaps = 1
INVARIANTS TypeOK AppliedMeansStored SyncedMeansStored NoCheckpointBeforeTrip OnlyOrphansRemembered
SYMMETRY CycleSymmetry
