SPECIFICATION FileSpec
CONSTANTS
    cat = cat
    Letters = {cat}
    NoId = NoId
    NoRow = NoRow
    Never = Never
    NilTTL = NilTTL
    Ids = {i1, i2}
    Clients = {c1, c2}
    RequestWords <- OneWord
    TTLArgs <- ShortTTL
    DeleteRefs <- Refs
    DefaultTTL = 1
    MaxTTLHours = 1
    MaxWordLength = 1
    MaxCollisionAttempts = 1
    BatchSize = 2
    MaxNow = 1
    MaxFaults = 1
INVARIANT FileTypeOK
INVARIANT RowKeepsFileById
INVARIANT ObjectHasRow
SYMMETRY Symmetry
VIEW ButReply
