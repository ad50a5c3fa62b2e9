SPECIFICATION MCSpec
CONSTANTS
    Events <- MCEvents
    Scopes <- MCScopes
    OccurredAt <- MCOccurredAt
    Windows <- MCWindows
    RowHash <- MCRowHash
    SlotHash <- MCSlotHash
    DetailLines <- MCDetailLines
    Snapshots <- MCSnapshots
    Widths <- MCWidths
    Sizes <- MCSizes
    DefaultWindow = 1
    ColumnCap = 2
    GlobalCap = 2
    QueueCap = 1
    RainStep = 2
    Generations = 8
    Stride = 5
    StripWindow = 2
    StripStored = 2
    StripVisible = 2
    LegendWidth = 10
    MaxTime = 4
    MaxRefreshes = 2
INVARIANTS
    FieldIsSound
    MissedFramesDoNotMatter
    OneRainChain
PROPERTIES
    PauseStopsTime
    FairShare
    StripTakesTurns
    NavigationHolds
