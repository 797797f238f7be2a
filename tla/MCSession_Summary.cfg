SPECIFICATION Spec
CONSTANTS
    Fetches <- MCFetches
    Platforms = {"web"}
    MaxTokens = 2
    MaxLaunches = 2
    BatchSize = 2
PROPERTY SummaryAtTheEnd
