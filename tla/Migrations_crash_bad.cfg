SPECIFICATION FairMigSpec
CONSTANTS
    Replicas = {r1}
    Files = 4
    Repeatable <- RepeatableFiles
    MaxCrashes = 1
PROPERTY StartsAfterCrash
