SPECIFICATION Spec
CONSTANTS
    cat = cat
    Letters = {cat}
    NoId = NoId
    NoRow = NoRow
    Never = Never
    NilTTL = NilTTL
    Ids = {i1, i2}
    Clients = {c1}
    RequestWords <- OneWord
    TTLArgs <- EdgeTTLs
    DefaultTTL = 1
    MaxTTLHours = 1
    MaxWordLength = 2
    MaxCollisionAttempts = 2
    BatchSize = 1
    MaxNow = 2
PROPERTY RestoreReportsOriginal
SYMMETRY Symmetry
