\* Two processes replace, touch, damage, expire and clean up one record.
SPECIFICATION FairSpec
CONSTANTS
    p1 = p1  p2 = p2  k1 = k1  k2 = k2
    None = None
    Processes = {p1, p2}
    KeyOrder <- OneKey
    PathsOf <- MCPathsOf
    MaxTime = 1
    Skew = 1
    TTL = 1
    EvidenceRecords = 2
    ChildRecords = 3
    RetainedPages = 3
    TemporaryPages = 4
    WriteReservation = 1
    CleanupReservation = 1
    EvidenceBatch = 2
    ChildBatch = 2
    VacuumPages = 1
PROPERTIES
    ClocksKeepUp
    ExpiredLeaves
