CONSTANTS
    NoHash = NoHash
    MaxUsize = 7
    Ids = {d1}
    Closed = Closed
    Sources <- MCSources
    Inserts <- MCInserts
    Edits <- MCEdits
    Transactions <- MCTransactions
    Selections <- MCSelections
    OverflowChecks = TRUE
    MaxRevision = 3
    MaxOpens = 2
    MaxBytes = 4
SPECIFICATION Spec
CONSTRAINT Bound
INVARIANTS
    TypeOK
    HistoryExact
    RevisionNamesText
    CleanIsSaved
PROPERTY FailedCallChangesNothing
