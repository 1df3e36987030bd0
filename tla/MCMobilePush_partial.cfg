\* A trip and a receipt taken during it; one failure.
SPECIFICATION FairSpec
CONSTANTS
    trip = trip
    visit = visit
    receipt = receipt
    NoRecord = NoRecord
    Records = {trip, receipt}
    Kind <- KindOf
    Parent <- ParentOf
    Cycles = {c1}
    Slots = {1, 2}
    MaxMishaps = 1
PROPERTIES EveryRecordDelivered
