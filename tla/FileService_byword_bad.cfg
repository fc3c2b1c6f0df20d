SPECIFICATION FileSpec
CONSTANTS
    cat = cat
    Letters = {cat}
    NoId = NoId
    NoRow = NoRow
    Never = Never
    NilTTL = NilTTL
    Ids = {i1, i2}
    Clients = {c1}
    RequestWords <- OneWord
    TTLArgs <- ShortTTL
    DeleteRefs <- OneWord
    DefaultTTL = 1
    MaxTTLHours = 1
    MaxWordLength = 1
    MaxCollisionAttempts = 2
    BatchSize = 2
    MaxNow = 1
    MaxFaults = 0
INVARIANT RowKeepsFile
SYMMETRY Symmetry
