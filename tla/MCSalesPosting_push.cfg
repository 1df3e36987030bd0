\* Pushed documents, two at a time, a death, deadlocks.
SPECIFICATION FairSpec
CONSTANTS
    Docs <- Docs5
    Doc <- PushedMix
    Items <- AB
    CreditLimit = 4
    Edits = {}
    MaxOpen = 2
    MaxAborts = 1
    MaxEdits = 0
INVARIANTS SeriesGapless PaidMeansCovered
PROPERTIES EveryRequestAnswered
CHECK_DEADLOCK FALSE
