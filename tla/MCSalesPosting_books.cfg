\* Online and pushed documents, an over-allocated receipt, DELETE and customer edits.
SPECIFICATION Spec
CONSTANTS
    Docs <- Docs4
    Doc <- BooksMix
    Items <- AB
    CreditLimit = 4
    Edits = {"signature", "customer", "approve", "destroy"}
    MaxOpen = 2
    MaxAborts = 1
    MaxEdits = 2
INVARIANTS TypeOK LedgerExplainsStock  NumbersUnique
 
CHECK_DEADLOCK FALSE
