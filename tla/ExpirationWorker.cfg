SPECIFICATION FairWorkerSpec
CONSTANTS
    cat = cat
    Letters = {cat}
    NoId = NoId
    NoRow = NoRow
    Never = Never
    NilTTL = NilTTL
    Ids = {i1, i2}
    Clients = {c1}
    RequestWords <- OneWord
    TTLArgs <- ShortTTL
    DefaultTTL = 1
    MaxTTLHours = 1
    MaxWordLength = 1
    MaxCollisionAttempts = 2
    BatchSize = 1
    MaxNow = 2
    MaxAttempts = 2
    HistoryRetention = 1
    MaxFaults = 1
    MaxRestarts = 1
INVARIANT WorkerTypeOK
PROPERTY SweepDrains
PROPERTY ImplementsEntryStore
PROPERTY DueEntriesAreSwept
PROPERTY CancelStopsWorker
PROPERTY HistoryIsCleaned
