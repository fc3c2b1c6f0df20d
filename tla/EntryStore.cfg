SPECIFICATION Spec
CONSTANTS
    cat = cat
    Letters = {cat}
    NoId = NoId
    NoRow = NoRow
    Never = Never
    NilTTL = NilTTL
    Ids = {i1, i2, i3}
    Clients = {c1}
    RequestWords <- MixedWords
    TTLArgs <- EdgeTTLs
    DefaultTTL = 1
    MaxTTLHours = 1
    MaxWordLength = 2
    MaxCollisionAttempts = 3
    BatchSize = 2
    MaxNow = 2
INVARIANT TypeOK
INVARIANT UniqueWordStatus
INVARIANT NoUniqueError
PROPERTY EntryLifecycle
PROPERTY AnswerResolves
PROPERTY CollisionReported
PROPERTY ImplementsDirectory
SYMMETRY Symmetry
