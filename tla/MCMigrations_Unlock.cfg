SPECIFICATION FairSpec
CONSTANTS
    older = older
    newer = newer
    restarted = restarted
    Servers = {older, newer, restarted}
    NoServer = NoServer
    dir <- MCDir
    Repeatable = {2}
INVARIANT ClosedReleases
CHECK_DEADLOCK FALSE
