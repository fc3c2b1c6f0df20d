SPECIFICATION ToolsSpec
CONSTANTS
    Letters = {10}
    NoId = NoId
    NoRow = NoRow
    Never = Never
    NilTTL = NilTTL
    Unset = Unset
    Garbage = Garbage
    NoToken = NoToken
    Anonymous = Anonymous
    AnyRun = AnyRun
    AnyOne = AnyOne
    NoPattern = NoPattern
    Down = Down
    NoDeployment = NoDeployment
    Unasked = Unasked
    Ids = {i1, i2}
    Clients = {c1}
    RequestWords <- OneWord
    TTLArgs <- NilTTLOnly
    DefaultTTL = 1
    MaxTTLHours = 1
    MaxWordLength = 2
    MaxCollisionAttempts = 3
    BatchSize = 2
    MaxNow = 1
    Claims <- MCClaims
    Given <- MCGiven
    Headers <- MCHeaders
    Deployments <- MCDeployments
    Redeployments <- MCRedeployments
    Queries <- MCQueries
    Limits = {1, 2, 3}
    Readers = {FALSE}
    DefaultLimit = 1
    MaxLimit = 2
    MaxPatternLength = 2
INVARIANT ToolsTypeOK
INVARIANT WalkComplete
INVARIANT CreatedByIsTrue
INVARIANT S3Isolated
SYMMETRY Symmetry
