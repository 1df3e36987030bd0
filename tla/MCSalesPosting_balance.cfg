\* Two invoices of one customer finalized at the same time.
SPECIFICATION Spec
CONSTANTS
    Docs <- Docs2
    Doc <- TwoInvoices
    Items <- AB
    CreditLimit = 4
    Edits = {}
    MaxOpen = 2
    MaxAborts = 0
    MaxEdits = 0
INVARIANTS BalanceExact
CHECK_DEADLOCK FALSE
