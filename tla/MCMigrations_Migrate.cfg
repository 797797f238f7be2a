SPECIFICATION FairSpec
CONSTANTS
    older = older
    newer = newer
    restarted = restarted
    Servers = {older, newer, restarted}
    NoServer = NoServer
    dir <- MCDir
    Repeatable = {2}
INVARIANTS
    SchemaConsistent
    OneAtATime
PROPERTIES
    InReleaseOrder
    StartUpEnds
CHECK_DEADLOCK FALSE
