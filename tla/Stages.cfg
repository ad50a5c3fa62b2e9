SPECIFICATION MCSpec
CONSTANTS
  Half = 32
  Second = 4
  DefaultInterval = 2
  UnixEpoch = 3
  Now = 5
  Absent = Absent
  Unreadable = Unreadable
  Headers <- MCHeaders
  Statuses = {200, 401, 403, 404, 429, 500}
  Organizations = {"a", "b"}
  Requests <- MCRequests
  Bodies <- MCBodies
  Links <- MCLinks
  ExpansionRequests = 3
  PageSize = 2
  MaxScopes = 4
  MaxSelectedRepositories = 3
  Objects = {"b", "c", "h"}
  Paths = {"p", "q", "r", "long"}
  BytesOf <- MCBytesOf
  Descriptors <- MCDescriptors
  CommitPages <- MCCommitPages
  Comparisons <- MCComparisons
  PullRequests <- MCPullRequests
  PageLinks <- MCPageLinks
  MaxEvidencePages = 3
  MaxEvidencePaths = 3
  MaxChangedPathBytes = 3
  MaxEvidenceBytes = 3
  MaxCompareFiles = 2
  Polls <- MCPolls
  Pages <- MCPages
  NoMatcher = 0
  SelectedBy <- MCSelectedBy
  Selections <- MCSelections
  Activities <- MCActivities
  Results <- MCResults
  MaxSnapshotEvents = 3
  ScopeLimit = 4
  RepositoryLimit = 2
  Nothing = Absent
  Values <- MCValues
  Repositories <- MCRepositories
  Illegal = {"!"}
  ChangedPaths <- MCPaths
  Matchers <- MCMatchers
  Segments <- MCSegments
  Texts <- MCTexts
  Lines <- MCLines
  ReadsAs <- MCReadsAs
  MaxOrganizationSelectors = 2
INVARIANTS
    ListingIsFair
    AllocationIsTrue
    OutcomeIsProven
    DelayHonoursReplies
    PollIsTrue
    SnapshotIsTrue
    PatternIsKept
    LineIsUnderstood
PROPERTIES
    LookupSettles
    LoopMatches
CHECK_DEADLOCK FALSE
