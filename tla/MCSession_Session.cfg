SPECIFICATION Spec
CONSTANTS
    Fetches <- MCFetches
    Platforms <- MCPlatforms
    MaxTokens = 2
    MaxLaunches = 2
    BatchSize = 2
INVARIANTS
    SessionConsistent
    LogoutIsFinal
    UploadReport
PROPERTIES
    LoopAndLaunchEnd
