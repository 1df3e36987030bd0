\* A trip is pushed when it starts and again when it ends.
SPECIFICATION Spec
CONSTANTS
    trip = trip
    visit = visit
    receipt = receipt
    NoRecord = NoRecord
    Records = {trip}
    Kind <- KindOf
    Parent <- ParentOf
    Cycles = {c1}
    Slots = {1, 2}
    MaxMishaps = 0
INVARIANTS SyncedIsCurrent
