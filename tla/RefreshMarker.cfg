\* The selection marker against its documentation in state.go.
SPECIFICATION Spec
CONSTANTS
    Repositories <- MCRepositories
    Selections <- MCSelections
    NoSelection = NoSelection
    Exact = NoSelection
    ScopesOf <- MCScopesOf
    PathSelections <- MCPathSelections
    Delays <- MCDelays
    Floor = 1
    Interval = 4
INVARIANT
    MarkerIsTrue
