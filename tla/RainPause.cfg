SPECIFICATION MCPausedSpec
CONSTANTS
    Events <- MCEvents
    Scopes <- MCScopes
    OccurredAt <- MCOccurredAt
    Windows <- MCWindows
    RowHash <- MCRowHash
    SlotHash <- MCSlotHash
    DetailLines <- MCDetailLines
    Snapshots <- MCArrivals
    Widths <- MCWidths
    Sizes <- MCSizes
    DefaultWindow = 1
    ColumnCap = 1
    GlobalCap = 2
    QueueCap = 1
    RainStep = 2
    Generations = 8
    Stride = 5
    StripWindow = 2
    StripStored = 2
    StripVisible = 2
    LegendWidth = 10
    MaxTime = 4
    MaxRefreshes = 3
PROPERTY PausedTimeStaysOut
