SPECIFICATION PgSpec
CONSTANTS
    cat = cat
    Letters = {cat}
    NoId = NoId
    NoRow = NoRow
    Never = Never
    NilTTL = NilTTL
    Ids = {i1, i2}
    Clients = {c1, c2}
    Workers = {k1}
    Drivers = {"postgres"}
    RequestWords <- OneWord
    TTLArgs <- ShortTTL
    DefaultTTL = 1
    MaxTTLHours = 1
    MaxWordLength = 2
    MaxCollisionAttempts = 2
    BatchSize = 2
    MaxNow = 2
INVARIANT PgNoUniqueError
SYMMETRY Symmetry
