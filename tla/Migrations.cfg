SPECIFICATION FairMigSpec
CONSTANTS
    Replicas = {r1, r2, r3}
    Files = 4
    Repeatable <- RepeatableFiles
    MaxCrashes = 2
INVARIANT MigTypeOK
INVARIANT ServingIsMigrated
INVARIANT AppliedInOrder
INVARIANT OneWriterPerColumn
PROPERTY ReplicasConverge
