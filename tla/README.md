# Verification of orgtop in TLA+

orgtop is a terminal program that shows the recent activity of GitHub
repositories. It polls events, completes them with the changed paths that its
path scopes need (the *evidence*), and shows the result in three views that
animate between refreshes. A local SQLite file caches evidence across runs and
is shared by every orgtop process of a user.

This directory holds TLA+ models of the program, TLC configurations that check
them on small instances, and proofs that TLAPS checks for every instance.
`PROJECT.json` maps each definition to the source lines it stands for, and lists
for each property mutations of the code that break it.

    tlc -workers 2 -config Coordinator.cfg MCCoordinator.tla
    tlapm CoordinatorProofs.tla

## 1. The system

Paths are relative to `src/internal` unless they start with `cmd/`.

| Component | State it keeps | Operations | Interacts with | Modules |
|---|---|---|---|---|
| Command line: `cli/` | none | scan, read the selection, answer the first class of error | assembly | `Arguments`, `Matching` |
| Refresh lifecycle: `tui/refresh.go`, `selection.go`, `enrichment.go`, `state.go` | fixed selection, next expansion instant, published state, `pending`, the armed timer | start a refresh, the refresh command, apply its result, quit | starts the command goroutine; calls expander, source, enrichment; hands the published state to the views | `RefreshLifecycle` |
| Organization expansion: `github/expand*.go` | the listings of one round | list pages under a request budget, allocate round-robin | HTTP, refresh command through `cmd/orgtop/source.go` | `Expansion` |
| GitHub polling: `github/source.go`, `normalize.go`, `schedule.go` | none between calls | fetch one page per repository, normalize it, classify failures, instruct a delay | HTTP, refresh command | `Polling`, `Schedule` |
| Enrichment coordinator: `enrichment/coordinator.go`, `bounds.go` | identities, aliases, queue, ledger, slots, running, limited | lookup, admit, dispatch, gate, perform, settle, save, derive, maintain, assemble | one goroutine per work unit; adapters; cache | `Coordinator`, `EvidenceSettlement` |
| GitHub evidence adapters: `github/enrich*.go` | none between calls | read, classify, follow pages, derive a compare | HTTP, coordinator | `EvidenceRead` |
| Evidence and outcomes: `domain/evidence.go`, `outcome.go`, `github/evidence.go` | values | keys, provenance, outcome kinds | coordinator, membership | `Evidence` |
| Scopes, membership, retention: `domain/{scope,event,membership,scoped_snapshot}.go` | values | select, retain, evaluate an event, count coverage | refresh command, views | `Snapshot` |
| Path patterns: `cli/pattern.go`, `domain/{matcher,path}.go` | values | scan, validate, canonicalize, match | command line, membership | `Matching` |
| Cache store: `cache/{store,maintenance,record,key,schema}.go` | records on disk; queues of invalid and touched keys; `disabled` | lookup, save, touch, maintenance, close | coordinator; other processes through SQLite and the lock | `CacheStore` |
| Cache lock: `cache/lock*.go` | held regions, process-wide guards | acquire, release, convert, close | other processes | `CacheLock` |
| Cache lifecycle: `cache/reset.go`, `store.go`, `location.go`, `paths*.go` | the canonical file, sidecars, bootstrap, tombstone | open, bootstrap, rebuild, reset | crashes, other processes | `CacheFiles` |
| Rain view: `tui/rain*.go` | drops, paused queue, cursor, tick chain, window | tick, pause, resume, reconcile, page | published state, timers | `Rain` |
| Interesting view: `tui/interesting*.go` | rotation start, reference, selection | tick, reconcile | published state | `Interesting` |
| Stream and Overview: `tui/stream*.go`, `overview.go`, `viewport.go` | focus, offset, open detail | keys, follow a publication | published state | `Stream` |
| Program model: `tui/model.go`, `rain_tick.go` | view, size, context | route messages and keys | everything in `tui` | `Program` |
| Credential: `auth/` | none | a token from the environment or `gh` | `cmd/orgtop` | - |
| Assembly: `cmd/orgtop` | open resources | launch, deferred releases | everything | parts in `RefreshLifecycle`, `CacheFiles` |
| Presentation: the other files of `tui/` | none | render | views | - |

What is hard in it:

* *Concurrency inside one evidence call.* A main goroutine that admits, gates
  and assembles; a goroutine per unit; a mutex that is sometimes not taken
  because `group.Wait` is supposed to exclude everybody else; rate limits and
  cancellation that arrive at any moment.
* *Time.* Three sources may instruct waits (expansion, poll, enrichment); an
  expansion is spaced from its completion, but applied later; one timer chain
  must neither end nor fork. A header's seconds are multiplied into a 64-bit
  duration. Rain's clock runs, stops, and is fed by ticks and refreshes that may
  arrive out of order.
* *Partial failure.* A refresh has three phases and any one may fail; only a
  complete success may change what is shown. A poll and a lookup are many
  requests, and each is whole or nothing.
* *Sharing a file.* Several processes, advisory locks with POSIX semantics, and a
  database that may be replaced under a running one.
* *Crashes* between the file operations of bootstrap, rebuild and reset.
* *Budgets and truncation* in expansion, commit pages, the queue, the cache, the
  rain field and the strip: who is left out must be fair and must be disclosed.

`PROJECT.json` lists the hazards behind these statements at the lines where they
bite, with the properties that would catch each one going wrong.

## 2. Plan

The order is that of importance.

1. `Coordinator`, `EvidenceSettlement` (its abstract specification),
   `CoordinatorProofs`. Done: every safety property and the refinement are proved.
2. `RefreshLifecycle`, `RefreshProofs`. Done.
3. `CacheStore`, `CacheStoreProofs`. Modelled and checked; types, limits, clocks and the
   order of a clean-up proved.
4. `CacheLock` and `CacheFiles`, which composes the lock with the files,
   `CacheFilesProofs`. Modelled and checked; safety proved.
5. `Published`, `Rain`, `Interesting`, `Stream`, composed by `Program`,
   `ProgramProofs`. Modelled and checked; the field and its admission, its clock, the
   tick chain, the strip and all of navigation proved.
6. `Schedule` and `Evidence`, shared by `Expansion`, `EvidenceRead`, `Polling` and
   `Snapshot`; `Matching`, `Arguments`; all explored by `MCStages`. `GitHubProofs`
   covers `Schedule`, `Polling`, `EvidenceRead` and `Expansion`; `SnapshotProofs` covers
   `Snapshot`, the loop of `Matching` and `Arguments`.
7. `Ranking`, which says what a sort promises, and `DataLemmas`, what the proofs need of
   sorting, sums and recursion.

Left, in this order:

* `PatternIsKept` of `Matching`;
* an abstract specification of `CacheStore`: a partial map from keys to records
  that only loses expired, queued or evicted ones;
* the Windows variant of the lock, whose locks belong to a handle.

## 3. What is modelled

Where the code sorts, a module that is proved about does not compute the order but says
what it is: `InOrder` of `Ranking` lists a finite set so that every member comes at the
place that its rank gives it. The code's comparisons are total, with a tie broken by a
key or by the place in the input, so the list is the one that a sort leaves.

### Coordinator

One call of `Coordinator.Evidence`. The process `main` is the calling goroutine;
`pc`, `stage` and `cursor` say where it is. `worker[k]` is the goroutine of work
unit `k`. A critical section of `run.mu` is one step, and so is every statement
between two of them that another goroutine could observe.

| Code | Model |
|---|---|
| `settle`, first loop; `admit`; `lookup` | `AdmitEvent`, `Admit`, `LookupResults` |
| `deriveCompares` | `DeriveCompare` |
| `dispatch` | `StartDispatch`, `TakeSlot`, `GateRefuse`, `GateAdmit`, `Refuse`, `Launch`, `StartJoin`, `Join` |
| the goroutine's body, `perform`, `settleIdentity`, `save` | `Send`, `Receive`, `NextPage`, `ReceiveRefs`, `Settle`, `CheckSave`, `Save` |
| its deferred cleanup | `Leave`, `Release` |
| `maintainCache` | `MaintainCache` |
| `settle`, last loop; `resolve`, `forDescriptor` | `Assemble`, `Answer`, `Resolve`, `ForDescriptor` |
| the context | `Cancel`, possible between any two steps |

Data is abstracted to what the properties tell apart: a descriptor is its key and
the `before` object of its event, a set of changed paths is the key it was proven
for, an outcome is its kind, that key, its provenance and its retry instant. The
zero value of a missing map key is kept (`Missing`), because in Go it is a
complete outcome with no path. The adapter is modelled by the classes of answer
`github/enrich.go` can give; the cache by a set of keys with valid records, and
by errors that may happen at every call.

`Release` merges the release of the slot with the end of the goroutine: nobody
observes the instant between them. `deriveCompares` has a branch for a derived
compare with an empty key, which the production adapter cannot produce.

`EvidenceSettlement` says what a call promises without stages, queue, goroutines
or locks; `Settles` is the refinement.

### RefreshLifecycle

The update loop and the command of the refresh in flight.

| Code | Model |
|---|---|
| `New`, `Init` | `Init`: the first refresh is already in flight |
| `startRefresh` on a tick; `refresh` | `StartRefresh`, `Refresh`, `ExpansionDue` |
| expansion inside the command, `cmd/orgtop/source.go` | `Expand`, `Stops`, `Polling` |
| `Source.Refresh` | `FetchPage`, `FetchFails` |
| `enrich` | `Enrich` |
| `applyRefresh` with `applyExpansion`, `published`, `degraded`, `delay`, `rateLimit` | `ApplyRefresh` with `FixedSelection`, `Schedule`, `Show`, `NextTimer`, ... |
| quit keys | `Cancel` |
| time | `Tick` |

Time runs in units of the 60 second polling floor, and an instant is the distance
to it. `Tick` is possible at any moment, also while a request or a message is
under way, so a result may be applied arbitrarily late. A snapshot is abstracted
to the repositories whose pages it holds. `RateLimitBadge` is what `badges.go` makes of
the limit of the latest attempt and of the pair's enrichment; `last` remembers, for the
properties only, which limits the latest attempt met. The causes and texts of failures,
cache degradation, and what the same handler does to the rain, interesting and stream
views are left out (the latter is in `Program`). `State.Scopes` always
equals the published selection's scopes and is not a variable of its own.

An observation. The badge names the earlier of two instants (`badges.go:63`): that of
the latest attempt's limit, and that of the enrichment of the pair on screen, which a
failure keeps. After a success whose enrichment was limited, the next refresh waits that
instant out; if it is limited itself, the badge goes on naming the old instant, while
`badges.go:73-75` says it names when rate-limited work *next* becomes eligible.

### CacheStore

The database file and the processes that share it. `db` holds the record under
each key, `pages` the page count, `bytes` the length of all owned files; `invalid`,
`touched` and `disabled` are the fields of each process's `Store`.

| Code | Model |
|---|---|
| `Store.Lookup`, `queueInvalid`, `queueTouch` | `Miss`, `FindInvalid`, `Hit` |
| `run.save`, `Store.Save`, `admitWrite`, `writeEntry` | `RequestSave`; `Save` with `Admits`, `ProjectsWithin`, `ProjectedPages`, `Written`; `FailSave` |
| `maintainCache` | the phases `working`, `due`, `cleaning` |
| `Store.Touch` | `Touch` |
| `Store.MaintenanceDue` | `FindDue`, `FindNotDue`; `SkipMaintenance` for its errors |
| `Store.Maintain`, `selectBatch`, `compact` | `Maintain`, `Batch` with `Selected` and `Consider`, `InvalidCarry`, `Compact` |
| `Open`, `Close`, the end of a process | `Start`, `Stop` |
| the wall clock | `Clock`, which runs or is set back |

An operation is one step because it holds the admission region throughout; the
clock that a replacement carries is read before it waits for that region, so
`RequestSave` is a step of its own. `MaintenanceDue` takes no region but reads
only. A record is one page, and its changed paths are a number. The bytes an
operation writes are any amount up to its reservation: the reservations
themselves are an assumption here. `Damage` is any other writer of the file that
makes a record fail its invariants. Stored path bytes, the second budget of a
batch that counts paths, are not told apart from child rows. The fields `closed`
and `mu` and the opening of the file are in `CacheFiles`.

Two things a reader may trip over. `WithClock` and the coordinator's `Now` are
set by tests only, so in the program every operation reads the wall clock, though
comments call it the refresh's fixed clock. And a cache is maintained *at* its
ceiling but not above it: `MaintenanceDue` asks for `used >= retainedBytes`,
`admit` refuses `used > retainedBytes`; `Stuck` in `ExpiredLeaves` is that gap.

### CacheLock and CacheFiles

`CacheLock` is the lifecycle region of the maintenance lock: an in-process guard
first, then an `fcntl` record lock, which belongs to the process. `LockRegion`,
`ReleaseRegion`, `CloseLock` and `DropLocks` (the end of a process) change it.
`CacheFiles` extends it with the canonical database, its sidecars, the bootstrap
file and the tombstone, and with a program counter per store. A file operation is
one step, and `Crash` may end a process between any two.

| Code | Model |
|---|---|
| `Open`, `openLocked`, `begin` | `Open`, `Acquire`, `Probe`, `CheckHeader`, `OpenSound`, `OpenCorrupt`, `Inspect`, `Advance` |
| `underExclusiveLifecycle`, with the release at line 162 and the reacquisition | `Wanted`, `Guard`, `Acquire`, `Release`, `plan` |
| `repairPaths` | `Repair`, `Pending` |
| `bootstrap`, `createSchema` | `CreateBootstrap`, `CreateSchema`, `CommitSchema`, `Publish`, `RemoveBootstrap` |
| `rebuild`, `recordRebuild` | `RecordRebuild`, then the steps of the discard and of the bootstrap |
| `Reset`, `discardDatabase` | `Reset`, `Rename`, `RemoveSidecars`, `RemoveTombstone` |
| an operation of a refresh, `Close` while it runs | `BeginOperation`, `EndOperation`, `Close` |
| any error | `Fail`, then `CloseDatabase`, `Unlock` |
| other programs | `Damage`, `Broaden` |

The three sidecars come and go together and are one file. A database is an
identity and what its header and structure say. What `CacheStore` does to rows is
left out here, and what happens here is `Start` and `Stop` there.

The region covers an open database but for one interval: to narrow the mode of a
sidecar, a store gives its shared access up with the database open, and waits for
exclusive access (`store.go:162`). `RegionCovers` says that this is the only one.
`HandleIsCanonical` says that a database is the canonical one when it is opened, and
cannot cease to be while its store holds the region; only in that interval can another
process reset or rebuild it. Nothing is opened again afterwards, so the store then goes
on with a database that is gone, although `store.go:86-88` says no concurrent process
can do that while the database is in use, and lines 219-220 that no handle stays open
after shared access is released.

Observations. The decision to rebuild is taken under shared access and not taken again
after the escalation, so a store may discard a database that another has just rebuilt;
the handle of that other store must be closed by then, and is (`HandleIsCanonical`). A
second store in one process would lose its record locks with the first one's `Close`;
the program opens one, and so do the runs.

### Program: Rain, Interesting, Stream

The code's transitions are functions from one view value to the next, and so are
the operators of `Rain`, `Interesting` and `Stream`; `Published` is what they
read. `Program` has the state and one action per message: `Resize`, `RainTick`,
`Refresh`, `RefreshFails`, `SwitchView`, `Scroll`, `Detail`, `TogglePause`,
`StepWindow`, `TurnPage`, and `Pass` for time. Each does everything the handler
does to every view: a refresh reconciles Rain and the strip, clamps Overview and
Stream, and lets focus and detail follow.

Rain's clock is logical. `Applied` takes over an instant, `Advanced` steps, with
the remainder of a fall carried; `Rebuilt` is `rebuild`, with `Capped`,
`RoundRobin` and `Place` for the admission; `AssignSlots` and `Field` place what is
kept on columns and rows and count what collides or is hidden. Glyphs, labels and
colours are left out, and the hashes are constants. A tick carries the instant at
which it fired, which may be older than what the loop has handled since.

Two clocks age an item: the cursor, which a pause stops, and each refresh that is not
paused and does not rebase, which measures the age from the event to the cursor and keeps
the larger. `NoIntervalTwice` says that no age exceeds both. The second refresh after a
resume thus adds the paused time, which a comment and the specification say never
happens: finding 5.

The strip's next turn is a Scope, not a place: `Remapped` finds it again among the Scopes
of the next refresh, or takes the place it had. `TurnsContinue` relates one refresh to
the next by what is shown: the first entry is a turn of the first Scope, from the one that
is owed the turn on, that has an event.

Observations. A future-dated item that expires may be readmitted younger by the same
refresh; `AgesNeverShrink` exempts it. Counts beside a frozen field may be older
than what is drawn. A scroll key in a body without rows resets the offset that a
resize would have kept. The 64-bit phase cannot wrap within a reachable number
of ticks; `Generations` makes the chain's generation wrap.

### The calls of a refresh, and the command line

Each is a small machine of its own, from its argument to its result, and
`MCStages` explores each on every input of its sets. Requests are one step, with
the reply or its failure chosen freely.

| Code | Model |
|---|---|
| `pollDelay`, `retryDelay`, `delayUntil`, status mapping | `Schedule`: `PollDelay`, `RetryDelay`, `DelayUntil`, `StatusError`; every product wraps |
| `Expander.Expand`, `list`, `add`, `allocate`, `admit` | `Expansion`: `Expand`, `NextListing`, `FetchListingPage`, `ListingBreaksOff`, `ListingRefused`, `BeginAllocation`, `Allocate`, `Publish` |
| the constructors of descriptors and outcomes, the classification of a payload | `Evidence` |
| `Changed`, `CurrentPullRequest`, `commitEvidence`, `compareEvidence` | `EvidenceRead`: `Changed`, `CurrentPullRequest`, `Dispatch`, `ReadCommitPage`, `ReadComparison`, `ReadPullRequest`, `ReadRefused`, `BreaksOff`, `Cancel` |
| `Source.Refresh`, `fetch`, `NormalizeEvents`, `classify` | `Polling`: `Poll`, `FetchPage`, `PollRefused`, `PollBreaksOff`, `FinishPoll` |
| `NewScopeSet`, `RetainWithCoverage`, `settle`, `Evaluate`, `NewRetainedSnapshot` | `Snapshot`: `NewScopeSet`, `Retain`, `SettleIdentity`, then `NoEvidenceWanted`, `NoEvidence` or `Enriched`, then `NewRetainedSnapshot` |
| `parsePathValue` and its scan, `NewPathMatcher`, `matchSegment` | `Matching`: `ParsePathValue`, `Scan*`, `TakeLiteral`, `TakeWildcard`, `Retry`, `TextEnds` |
| `ParseArgs`, `validateSelections`, `expandSelections` | `Arguments`: `Scan`, `Validate`, `Decide` |

Data: a page link is the number of the page it names; paths, objects and names
are values, and what the code refuses to parse is a value outside the set; paths
have lengths so that byte capacities bind. A pattern is a sequence of code points,
which the code compares as UTF-8 bytes: the orders agree. What a text reads as
behind each flag is a constant of `Arguments` (`ReadsAs`). `Snapshot` assumes of
the enrichment what the interface promises, an outcome per event or fewer. No outcome
is canceled there: `refresh.go:161-163` discards a canceled attempt before a snapshot is
made of it, so the answers of `Evaluate` and `NewRetainedSnapshot` to one are left out.
`NewScopedSnapshot`, which tests alone call, is not modelled.

The machine word is `Half` = 32 with four units a second, so a header of nine
seconds overflows and one of three does not. `KeepsFloor` says no overflow makes
a wait shorter than the floor, `HonoursRetry` and `HonoursPoll` that a wait which
fits is honoured whole.

Observations. The `visited` check of the commit walk can never fire: the page bound
and the increasing page numbers come first. Which class of error the command line
answers is not quite what its comments say: more than twenty repositories named by
qualified paths, with too many organizations, are reported as selector capacity,
which `scope.go:72-73` ranks lower; and an unknown flag is reported before a
malformed value to its left.

## 4. What TLC checks

| Run | Shows | Distinct states |
|---|---|---|
| `coordinator` | Four identities for a queue of three and two requests; a commit named by two pushes with different parents; two-page commits; two possible retry instants; one cache write; pull requests that may derive the same compare, or one a push already named, in the second stage. Bounds, proven completeness, prefix dispatch, sharing of the limit, accounting of unknown outcomes, the exclusion around `group.Wait`, the refinement, and termination under fairness. | 319 344 |
| `coordinator_http` | A disagreement, finding 1. | |
| `refresh` | An organization whose expansion may find nothing, one repository beside a path scope, or two; failures and limits in every phase; quitting at any moment; no marker is missing or left over; polling and expansion never die. | 77 453 |
| `refresh_marker` | A disagreement, finding 2. | |
| `cache_one` | One process, two keys with three paths in all, room for two rows; batches of one record, expiry, a clock set back. The limits hold, no queued invalid record loses its turn, eviction is the last resort and follows use. | 43 478 |
| `cache_two` | Two processes and one record: its times never go back, and under fairness expired evidence leaves. | 67 282 |
| `cache_saved` | A disagreement, finding 3. | |
| `cache_files` | Two processes open, bootstrap, use, damage, rebuild, reset, close and crash on one directory. | 294 773 |
| `views` | Four Scopes, three events, two refreshes, ticks, keys and resizes. | 163 099 |
| `rain_merge` | A bug, finding 4. | |
| `rain_pause` | A disagreement, finding 5. | |
| `stages` | The command line and the calls of a refresh, each from start to end. | 104 117 |

Some properties are conjunctions, put together where one question has several
parts; `PROJECT.json` has a mutant for each part:

| Property | Parts |
|---|---|
| `HandlesAreSound` | `FilesTypeOK`, `RegionCovers`, `HandleIsCanonical`, `OperationHasHandles` |
| `DatabaseIsWhole` | `SidecarsMatch`, `BornComplete`, `ForeignKept` |
| `FieldIsSound` | `RainTypeOK`, `FieldIsConfirmed`, `FieldAccounts`, `FieldFits` |
| `PauseStopsTime` | `FrozenWhilePaused`, `ResumeAgesNothing`, `AgesNeverShrink`, `NoIntervalTwice` |
| `StripTakesTurns` | `StripIsFull`, `StripIsFair`, `TurnsContinue`, `TicksKeepOrder` |
| `NavigationHolds` | `FocusVisible`, `DetailFollows`, `AnchorStaysVisible` |
| `AllocationIsTrue` | `CountsAddUp`, `MoreIsDisclosed`, `ExactKeepsPrecedence`, `EarlierTurnFirst` |
| `OutcomeIsProven` | `CompleteIsOneCommit`, `CompleteIsWhole`, `ComparisonIsWhole`, `WalkAdvances`, `CancellationIsNoFailure`, `CurrentPRStaysCurrent` |
| `PollIsTrue` | `PollIsAtomic`, `ClassificationsAgree` |
| `SnapshotIsTrue` | `NewestAreRetained`, `RowsAccount`, `NothingIsGuessed`, `StreamShowsUndecided` |
| `PatternIsKept` | `SpelledBack`, `ScanAgreesWithDomain`, `CanonicalMeansRequested` |
| `LoopMatches` | `LoopDecides`, `LoopEnds` |
| `LineIsUnderstood` | `ScansAgree`, `CountIsOfTheProduct`, `SelectionIsRequested` |

The type invariants of `Coordinator` and `RefreshLifecycle`, `PollsFixedSelection`
and `CancelFreezes` are proved (section 5) and not run again.

**Bounds.** The coordinator's constants `Requests`, `QueuedUnits`, `Concurrency`,
`CacheReads`, `CacheWrites`, `MaxPages` are the bounds of `bounds.go` and
`domain`, given small values so that the inputs exceed them: each refusal branch
fires. Two goroutines suffice to interleave and a third unit to be refused, to
wait, or to be settled before a limit is known. Events are
coalesced by a key they share or by a compare they derive; a request bound of two
leaves one or none to the second stage. The refresh model has no bound of its own: instants are capped at 0 when
they pass, ages at `Interval`, and the instructed delays are one shorter and one
longer than what separates them (`Floor` = 1, `Interval` = 4, delays 1 and 3).
Two repositories are enough for a page to fail after another was fetched.

The cache model caps the clock with `MaxTime`: two instants make a record expire
and come back to life when the clock is set back. Limits and the order of a batch
need two keys (`cache_one`), races two processes and one key (`cache_two`); with
one key the limits never bind, so the latter says nothing of them.

`cache_files` has one store in each of two processes, as the program opens them,
and `Identities` = 1 .. 3: the database found, and two made since. Identities are
used again once no file and no handle has them, so the run is not bounded in
length.

`views` caps the clock at `MaxTime` = 4 and the refreshes at `MaxRefreshes` = 2; one
window of three instants, so items expire; a global capacity of two and a
queue of one, so admission must choose; three terminal sizes, of which one leaves
no row to the body. `MCNext` restricts sessions to keep the product of independent
views small: Stream and Overview do not read Rain, nor Rain them, so a session
either scrolls, or turns to Rain and stays there. Two refreshes are what it
takes for an item to arrive, wait and be measured again, and for one round of turns to
follow another. `rain_pause` allows a third, the one that ages an item by the pause, and
lets time pass only while Rain is paused, so that all that passes is paused time.

`stages` does not interleave its six machines: only arguments pass between the
calls. Each bound (`ExpansionRequests` = 3, `PageSize` = 2, `MaxScopes` = 4,
`MaxSelectedRepositories` = 3, `MaxEvidencePages` = 3, `MaxEvidencePaths` = 3,
`MaxEvidenceBytes` = 3, `MaxCompareFiles` = 2, `MaxSnapshotEvents` = 3,
`ScopeLimit` = 4, `RepositoryLimit` = 2, `MaxOrganizationSelectors` = 2) is met and
exceeded by some input of `MCStages`.

**Deadlock** is checked in every run but `stages`, where a call ends and nothing
follows; `Returned` is the coordinator's stutter after it has returned, and time
always passes in the refresh model.

**Fairness.** `Coordinator!FairSpec` has weak fairness of `main` and of each
goroutine: the Go scheduler runs runnable goroutines, and every request ends
because the HTTP client has a timeout of 30 seconds. It does not assume that
anybody cancels. `RefreshLifecycle!FairSpec` has weak fairness of time, of the
timer, of the command and of the update loop: timers fire, requests end, and
Bubble Tea delivers every message. Nothing is assumed to succeed.
`CacheStore!FairSpec` says that a waiting replacement ends, and, strongly, that
refreshes again and again reach their end, ask for maintenance and get the
admission region: the operations are short, and the busy wait of the lock spans
many of them. A process may still stop at any moment; if none is left running,
nothing is promised. `CacheFiles!FilesFairSpec` has weak fairness of each store's
own next step or its failure (a wait for a region fails at its deadline); damage
and crashes are never forced. `ReadFairness`
and `LoopFairness` are weak fairness of the next step of a sequential function:
requests end, the loop runs.

**Findings**

1. *Requests and pages.* `bounds.go:20-21` says every attempted request spends
   one from the `Requests` bound. The gate (`coordinator.go:264`) charges one per
   work unit, while a commit unit sends one request per page
   (`github/enrich_commit.go:26-60`). `HttpWithinBudget` is violated by one
   two-page commit and one compare under a bound of two.
2. *The selection marker.* `state.go:106-107` says SELECTION STALE marks whether
   the shown selection is the one the latest due expansion produced.
   `published` (`tui/refresh.go:220`) clears it only in a refresh that expanded
   itself: after a failed expansion, one that succeeds in a refresh whose poll
   fails leaves the marker, and the next refresh publishes exactly that selection
   with the marker on, until the next expansion.
3. *A fresh record deleted.* `store.go:69-71` says the queue holds rows that
   failed their invariants and that exactly these are deleted. A lookup queues
   the key of an invalid record; the same refresh acquires the evidence and
   `Save` replaces the record, but the key stays queued and `Maintain` deletes
   whatever is stored under it: the repair of a damaged record lasts until the end
   of the refresh that made it.
4. *A resume keeps the older drops.* `merged` (`rain.go:263`) appends the queue
   behind the field, and the admission keeps the first of each column, so in a
   full column every newer arrival that waited is rejected. `rain.go:406-407` says
   each Scope keeps its *newest* candidates, and line 260 that older field items
   may be evicted. The next refresh that is not paused admits by recency again.
5. *Paused time catches up.* `rain.go:197-199` and `specs/v0.2.0.md:1056-1057` say paused
   duration never catches up. The first input after a resume only rebases, but the next
   refresh measures each item's age from its event (`rain.go:371`, 381), and adds the
   pause. The test `rain_state_test.go:79` expects what the code does.

Three observations about the cache have no run. `maintenance.go:490-491` says eviction
stops as soon as every bound is at its target, and lines 65-66 that a batch does not
empty a store that is merely full; but `selectBatch` gives `overTarget` the bytes
measured before the batch (lines 408, 417, 533), which nothing it selects lowers, so
above the byte target it evicts until the budgets of the batch are spent.
`EvictionIsLast` takes the bytes as the code does. `maintenance.go:500` says nothing
carries forward for a record that is gone, but a queue that names only removed
records stays (line 421), and every later refresh finds maintenance due; and
`specs/v0.2.0.md:2253-2255` says projected counts that reach a limit request
maintenance, while `MaintenanceDue` (line 357) compares committed counts only.

## 5. What TLAPS proves

The theorems hold for every value of the constants that satisfies the named
assumptions, so for every organization, input, bound and delay.

`CoordinatorProofs`:

* `Invariance`: `Spec => []IInv`, hence `TypeCorrect` and `CompleteSafe`
  (`CompleteIsProven`).
* `CompleteIsProven` is about the last step only, and says nothing of the many
  before it. Its proof must exclude that an identity some event needs is still
  at the map's zero value when `Assemble` reads it. `Tracked` is that argument:
  each seen key is settled, waits in a queue, is being asked, or is a pull
  request with a derived compare; when main is past both joins only the first
  and the last remain, and `Linked` says the last one's compare was seen, too.
  `Untouched` keeps a key whose turn is to come from being settled twice,
  `Queued` keeps a key from being queued twice, `Control` gives main its
  exclusion, and `Proven` carries what the adapter or the cache proved from the
  reply to the identity.
* Assumptions: the key sets are disjoint, the bounds positive
  (`Bounds.normalized`), the parent a function of the commit.

* `BoundsInv`, which rests on that invariant, is for `BoundsSafe` (`LedgerWithinBounds`)
  and `MainAloneSafe` (`MainAlone`). `Counted` says what each counter counts: `slots`,
  `running` and `ledger.requests` are the numbers of goroutines that hold a slot, run, or
  were launched. Only so do the guards bound anything, because a goroutine lowers a
  counter long after main raised it.
* `OrderInv` is for `PrefixSafe` (`DispatchIsPrefix`): a reason to refuse never lapses
  (`Stopping`), hence units are launched in the order of both stages (`Ordered`). That
  a spent budget, a limit and a cancellation are all permanent is what the claim
  stands on, and it is proved as `StoppedStays`.
* `SettledOnce` is an action property; `RateLimitSafe`, `UnknownSafe` and
  `SettlesContract` (`Spec => Settles`) follow from `OInv`. `Retried` makes the ledger's
  retry instant the latest of the replies settled so far, `Accounted` backs every settled
  identity by the bound, flag or reply that settled it, `Sourced` reaches every identity
  from the event it was asked for, and `Saved` has a goroutine store only what it
  settled. In the refinement each action that settles, saves or answers is a step of
  `EvidenceSettlement`; the others stutter.

`RefreshProofs`:

* `LifecycleInvariant`: `Spec => []IInv`, and from it `TypeSafe`, `PairSafe`,
  `PollSafe`, `ChainSafe`, `RetrySafe`, `SpacingSafe`, `MarkersSafe`. `CancelSafe`
  proves the action property `CancelFreezes`. `MarkersSafe` (`MarkersAreKept`) says both
  that no marker is left over and that none is missing: RATE LIMITED is there exactly when
  the latest attempt met a limit, wherever it met it, or when the pair that is still shown
  had its enrichment limited. `Met` ties what a command has met to what its result says,
  and `LimitsEffect` what is said to what is shown.
* The strengthening: `Captured` (the selection a command captured is still the
  model's when the result is applied), `Collected` (the pages fetched are those
  of that selection), `Fixed` (an expander without a selection has never
  succeeded), `Covered` (every displayed retry instant is covered by the running
  timer, so that a refresh started by that timer cannot come too early) and
  `Spaced` (time since an expansion plus what is left of its wait is the wait).
* Assumptions: `Floor` is positive and no larger than `Interval`; delays are
  natural numbers.

`CacheFilesProofs`, for any number of stores, processes, failures and crashes:

* `StationInvariance`: which region, guard and handle a store has at each program
  counter, for each plan.
* `CustodyInvariance`: the kernel knows of every lock a store believes in (`Granted`),
  and the files agree with it (`FilesInv`: a tombstone means the database is gone, and
  a store in the middle of a discard has cleared what it has passed). From it
  `LocksSafe`, `HandlesSafe`, `DatabaseSafe`. `HandlesSafe` is about steps where it says
  that an open database stays the canonical one: whoever takes it away has the region
  exclusively, so its store has not got the region, and has given it up to narrow a mode
  (`HandleLost`).
* Hypothesis `OneStorePerProcess`, of all but the first: `cmd/orgtop` opens one store
  in a process. It is needed: closing any descriptor of the lock file drops the
  process's POSIX locks, so a second store would lose its own.

`CacheStoreProofs`, for any number of processes, keys and paths:

* `TypeInvariance`, `LimitsSafe` (`WithinLimits`) and `ClocksSafe` (`ClocksKeepUp`). Each
  child row is a pair of its record and its number (`ChildRows`), so that rows are
  bounded as a cardinality; the temporary envelope needs that it has room for the
  greatest reservation above a full database (`BoundAssumption`).
* `EvictionSafe` (`EvictionIsLast`) and `PrioritySafe` (`InvalidKeepsPriority`). A batch
  grows by one offer after another (`Considering`, `Selecting`): it never gives up a
  record, and once a record does not fit it takes none (`SelectionGrows`). So an open
  batch has all that it was offered (`SelectionComplete`), and one that evicts was still
  open after the invalid and the expired (`InvalidFirst`, `ExpiredSecond`). What it
  evicts comes from the front of the order of use (`EvictedLast`), because a record that
  is left behind was not offered before it, and the last one entered while a bound was
  above its target, the bytes being those before the batch. The attempt corrected `EvictionIsLast`: what counts as evicted is
  what the cleaning process did not queue itself. As it first read, the
  queues of all processes were exempted, and with several processes it was false: the
  record whose removal brings the bounds down may be one that another has queued.

`GitHubProofs`:

* `DelaySafe` and `PollSafe`, from `PollInv`. The arithmetic is that of a word of any
  width: `WrappedInWord` and `SecondsFit` say when a product survives, and
  `PollDelayHonours` and `RetryDelayHonours` what is honoured whole.
* `OutcomeSafe`, from `LookupInv`: `WalkIsOneCommit` keeps that every page so far is of
  the commit asked for, and that the walk holds the paths of all of them. The pages
  are joined by `FlattenSeq`, a recursive function; `FlatteningExists` and
  `FlattenOneMore` establish its recursion by a least counterexample, which the
  well-foundedness of the naturals gives without an operator as parameter.
* `ListingSafe`, `MoreSafe` and `PrecedenceSafe`, from `ExpansionInv`. `ListingIsFair` is
  not inductive, because it forgets where the round stands: `RoundsFair` compares what
  each selector will have got when the round under way ends (`RoundsOf`), and
  `NextIsFirstOpen` proves that the code's arithmetic modulo the number of selectors
  finds the first open one from there. `ScopesSound` carries the capacities and the
  exact Scopes from the first candidate to the publication.
* `AllocationSafe` (`AllocationIsTrue`), from `AllocationInv` on top of it. `RecordsListed`
  says that what is kept of a selector's pages is all of them, without contradiction, so
  that records are as many as names. `TurnsCounted` counts each turn for its selector, and
  `TurnsHonoured` is the fairness of the round robin made inductive: who had a turn and is
  missing met a full selection, which stays full (`ReferencesGrow`), and a later candidate
  finds room in a full one only where its repository was selected exactly (`RoomInFull`,
  `TurnAdds`), because no two turns are about the same repository (`OneTurnEach`).
* Hypothesis `AbsentIsNothing`, of all but `DelaySafe` and `PollSafe`: the value that stands for a missing one
  has none of the fields `kind`, `operation`, `entry` and `scopes`, so it is not
  mistaken for an outcome, a descriptor, a call or a selection. Assumptions: headers have
  their fields, what is decoded is a sequence, repository names have a rank in their
  canonical order, and an exact selection passed
  `domain.NewScopeSet`, as the command line's does.

`ProgramProofs`, for any number of Scopes and events, every capacity, window, terminal
size and sequence of messages:

* `ViewsInvariance`: `Spec => []ViewsInv`, and from it `ChainSafe` (`OneRainChain`),
  `ConfirmedSafe` (`FieldIsConfirmed`) and `FitsSafe` (`FieldFits`). `Settled` says what a
  rain value is between two handlers, and `Follows` what a transition makes of it; one
  lemma for each transition of `rain.go` establishes `Follows`, and `StepViews` shows
  that each handler is one of these transitions followed by a resize. The capacities
  rest on `RankedFew`: in a strict order no more than `c` members have a place under
  `c`. `RoundsCapped` applies it to the rounds, although their order is not the one the
  code sorts by.
* `PauseSafe` (`PauseStopsTime`) is `Follows` read as an action property. It must
  exclude that an item which moves between field and queue, or is measured again by a
  refresh, gets younger, or moves while frozen (`CandidatesSucceed`,
  `RebuildingRebuilds`). `AgesOnce` is the other side: a refresh advances an item first and
  then measures it, and neither counts what the other has.
* `NavigationSafe` (`NavigationHolds`), from two more invariants. `PagesInv`: the start
  is a multiple of the page for the terminal's width, and the anchor is its Scope
  (`StepsToPage` is the arithmetic of the page keys). `StreamInv`: what a state line
  stands for has no list, and freshness agrees with the start of Rain, so that a failed
  refresh changes no line count (`FailureKeepsLines`). `RanksTaken` shows that every
  place of an order is somebody's, which makes `eventIndex` and the list inverse to each
  other.
* `StripSafe` (`StripTakesTurns`). The strip is chosen by a loop over queues: each turn
  takes the next entry of a Scope that is not shown yet, or passes. The loop is a
  recursive function, so what holds of a turn is shown turn by turn (`RunOk`, with a
  lemma for each kind of turn) and carried to the end by `Carried`; that it ends before
  its bound follows from a measure, what is left in the queues times the number of
  Scopes and the turns without an entry (`Progress`). `Chosen` then says that the strip is
  as full as rows or entries allow, and that no Scope gets a second entry while another
  with one to show has none. What a tick leaves of the strip's order is a statement about
  two selections, before and after it: time only takes entries away from the far end of a
  queue (`QueueShortens`), and the proof runs the two selections side by side, where the
  later one is always what the earlier one has left (`Alongside`), even when it has run
  out first (`Ended`, `Complete`). That turns go on from refresh to refresh
  (`TurnsContinue`) needs to know, in the middle of the loop, whose turn it is: the place
  is the start and the idle turns, around the end (`Leads`), so a Scope that was passed
  over before the first entry had an empty queue (`NothingEarlier`). `RemappingOwes`
  finds the Scope that is owed the turn again, and `SelectingOwes` leaves the next one.
* `FramesSafe` (`MissedFramesDoNotMatter`) and `TypesSafe` (`RainTypeOK`), from
  `CountsInv` and `StripInv`: the rows left to the field are what the strip does not take,
  so the strip must have a length first. `AdvancingInTwo` is the claim about two steps and
  one: the remainders add up (`RestAdded`) and the turns do (`TurnedTwice`).
* `FieldSound` (`FieldIsSound`) adds the account of the field to the four before
  (`FieldDraws`): each item on the page is drawn, hidden behind another or on a row that
  the field has not got, and the three counts add up to the items.

* `FairSafe` (`FairShare`). The column cap keeps the newest of a Scope, and the rounds
  take the candidates in order of their place in their column, so one that comes
  before a taken one is taken (`RoundsFromTheFront`). Then whoever is left out had a place
  that nobody taken exceeds, and no column gave more than its places up to there
  (`RoundsAreFair`, from `RankedFew`). A refresh measures the kept items anew, and
  `ReconcilingIsFair` follows them through that.

`SnapshotProofs`, for every selection, activity, outcome and bound:

* `SnapshotTrue` (`SnapshotIsTrue`). Retention and settling are inductive as they stand.
  The published snapshot is a function of what they left (`Published`), and the rest is
  about that function: which Scopes hold an event and on what ground (`Memberships`,
  `HeldIsDecided`, `DecidedIsBacked`), and how the rows count. A row's numbers are sums
  over its members, which `SumOfFibres` turns into cardinalities (`RowCounts`); that rows
  which overlap exceed the number of events is shown by counting pairs of a Scope and an
  event (`RowsOverlap`). `StreamShows` says that the stream keeps what could not be
  decided.
* `MatchingDecides` (`LoopDecides`, the safety half of `LoopMatches`), for every segment
  and every text. What a segment means is a set of offsets that grows token by token;
  `MeantByOffsets` turns it into one sequence of offsets through the whole text (`LeadsAcross`),
  which needs the recursion unfolded once (`Iterates`). The loop goes back to its last
  wildcard only. That this is enough is the invariant `Decides`: the loop knows one way
  to where it stands (`Reached`), and every way through the whole text has its last
  wildcard end no earlier than the loop has it end (`AheadOf`); a wildcard before it never
  has to take more, because what a later start can reach the loop reaches from here.
  Assumption `MatchingAssumption`: a literal is not empty, as `validateLiteral` of
  `matcher.go` demands.
* `LineSafe` (`LineIsUnderstood`), for every command line, from `LineInv`. Three scans go
  over the same arguments with rules of their own for where to stop. They are recursive
  functions, so the proof runs them side by side: `Alike` relates their states argument
  by argument, and says that `flag.Parse` meets no flag that one of the other two would
  have answered (`Understood`). `ValuesGathered` says what the values read so far have
  left: of each kind, those whose key no earlier value has. Then the count: the Scopes of
  the product have distinct keys, as many as repositories times patterns, and what the
  qualified paths add are the keys not among them (`CountSound`); removing duplicates
  from the list keeps each key once and the spelling it first came with
  (`AcceptedIsSound`). Assumption `ArgumentsAssumption`: every argument
  reads as something behind a flag, and no pattern has the key that stands for a whole
  repository. Hypothesis `AbsentIsNoAnswer`: the value that stands for nothing is neither
  a request for help or version, nor has it the fields of an answer.

  The attempt corrected the model twice. `ScansAgree` also claimed that no *unknown* flag
  carries a value, which `flag.Parse` does meet, and fails at; `MCStages` now has such a
  flag. And the scans were written as `CASE` with guards that overlap, of which TLA+
  leaves open which one is taken though TLC takes the first; they are `IF` chains now,
  in the order of the code.

`DataLemmas` is what these proofs need about data, since no induction principle can be
instantiated here. An order is described by ranks: `RanksDiffer`, `RanksTaken` and
`RankedFew` are about any strict order, and `InOrderLists` concludes that `InOrder` lists
each member once and in order. A sum is a number of points, the pairs of a member
and a number below its value (`SumCounts`), so that sums are compared as finite sets are.
That a function defined by recursion exists and has a property at every argument is
shown by a least counterexample, which the well-foundedness of the naturals gives
(`Iterates`, `Carried`, `FlatteningExists`). `BothJoined` and `FlattenHas` say what is in
a concatenation.

Every strengthening was checked with TLC as an invariant of the runs' instances
before it was proved.

**Only model-checked:**

* liveness (`Termination`, `KeepsRefreshing`, `ExpiredLeaves`, `OpenEnds`,
  `LookupSettles`, `LoopEnds`): fairness and `ENABLED` are out of the prover's reach;
* `PatternIsKept` of `Matching`: that the tokens, the spelling and the canonical form of
  a pattern are each other's. Tokens are collected, coalesced, split and canonicalized by
  recursive definitions, and the claim is that these undo each other, which is an
  induction over data at every one of them.

## 6. What is not modelled

* *Credential resolution*: two environment variables and one bounded command,
  tried in order before the program starts.
* *Presentation*: the rendering of a state to text. How many lines and rows there
  are is modelled, because navigation depends on it.
* *Assembly*: exit codes and the wiring of constructors.
* *Normalization*: titles and the wording of actions; the lexical rules of names.
* *Cache*: SQL, security descriptors, where the directory lies, the Windows locks.
* *Tooling*: the scripts and task files that build and publish releases.

They are sequential translations or outside the running program, and hold no
state that a model checker could reach and a unit test could not.
