\* An organization selector: expansion, polling, enrichment, time and quitting interleave.
SPECIFICATION FairSpec
CONSTANTS
    Repositories <- MCRepositories
    Selections <- MCSelections
    NoSelection = NoSelection
    Exact = NoSelection
    ScopesOf <- MCScopesOf
    PathSelections <- MCPathSelections
    Delays <- MCDelays
    Floor = 1
    Interval = 4
INVARIANTS
    PairIsOneRefresh
    OneChain
    RetryHonored
    ExpansionsAreSpaced
    MarkersAreKept
PROPERTIES
    KeepsRefreshing
