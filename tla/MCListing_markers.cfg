SPECIFICATION Spec
CONSTANTS
    Slash = 2
    Configs <- MCConfigs
    NoPrefix = NoPrefix
    Files <- MCFiles
    Foreign <- MCForeign
    Queries <- MCQueries
    Starts <- MCStarts
    NoStart = NoStart
    Limits = {1, 2}
    MaxWrites = 1
    MaxPages = 6
    NoToken = NoToken
INVARIANT MarkersComplete
