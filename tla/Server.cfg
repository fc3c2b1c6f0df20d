SPECIFICATION FairServerSpec
CONSTANTS
    cat = cat
    Letters = {cat}
    NoId = NoId
    NoRow = NoRow
    Never = Never
    NilTTL = NilTTL
    Ids = {i1, i2}
    Clients = {c1}
    Requests = {r1}
    RequestWords <- OneWord
    TTLArgs <- ShortTTL
    DefaultTTL = 1
    MaxTTLHours = 1
    MaxWordLength = 1
    MaxCollisionAttempts = 2
    BatchSize = 2
    MaxNow = 1
    URLHours = 0
    MaxRestarts = 1
INVARIANT ServerTypeOK
INVARIANT HistoryIsTrue
PROPERTY SignalEnds
VIEW ButReply
CHECK_DEADLOCK FALSE
