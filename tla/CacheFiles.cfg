\* Two processes, each with one store, on one directory.
SPECIFICATION FilesFairSpec
CONSTANTS
    s1 = s1  s2 = s2  p1 = p1  p2 = p2
    None = None
    Stores = {s1, s2}
    Processes = {p1, p2}
    ProcessOf <- OnePerProcess
    Identities = {1, 2, 3}
INVARIANT
    LocksExclude
PROPERTIES
    HandlesAreSound
    DatabaseIsWhole
    OpenEnds
