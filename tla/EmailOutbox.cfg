SPECIFICATION FairOutboxSpec
CONSTANTS
    Count = 2
    Workers = {old, new}
    NoWorker = NoWorker
    maxAttempts = 2
    batchSize = 2
    MaxCrashes = 2
INVARIANTS
    RetriesAreBounded
PROPERTIES
    ResultsAreTrue
    NothingIsForgotten
