\* One process, two keys whose rows exceed the limit, expiry and a clock that is set back.
SPECIFICATION Spec
CONSTANTS
    p1 = p1  p2 = p2  k1 = k1  k2 = k2
    None = None
    Processes = {p1}
    KeyOrder <- TwoKeys
    PathsOf <- MCPathsOf
    MaxTime = 1
    Skew = 1
    TTL = 1
    EvidenceRecords = 2
    ChildRecords = 2
    RetainedPages = 2
    TemporaryPages = 4
    WriteReservation = 1
    CleanupReservation = 1
    EvidenceBatch = 1
    ChildBatch = 2
    VacuumPages = 1
INVARIANTS
    WithinLimits
PROPERTIES
    InvalidKeepsPriority
    EvictionIsLast
