----------------------------- MODULE CacheFiles -----------------------------
(***************************************************************************)
(* The files of the cache directory (src/internal/cache/store.go, reset.go,*)
(* paths.go) under stores that open, create, rebuild, use and close them,  *)
(* and under --reset-cache, while any process may end between two steps.   *)
(*                                                                         *)
(* A file operation is one step.  The three sidecars are one file here:    *)
(* they come and go together.  A database is known by an identity and by   *)
(* what its header and its structure say.  Any step of an Open or a Reset  *)
(* may fail; what is in flight then is closed.                             *)
(*                                                                         *)
(* A definition whose comment says "Bug:" is a plausible mistake in the    *)
(* definition after it; no specification uses it.                          *)
(***************************************************************************)
EXTENDS CacheLock, Sequences

CONSTANTS
    Identities,      \* tells databases apart; a bound
    None             \* no file, no handle

Databases == [id : Identities, health : {"sound", "corrupt", "foreign"}]

ASSUME FileAssumption ==
    /\ Identities # {}
    /\ None \notin Databases \cup Identities \cup {"partial", "complete"}

VARIABLES
    db,          \* the canonical database
    wal,         \* the identity of the database the sidecars belong to
    boot,        \* the bootstrap file
    tomb,        \* a tombstone exists
    broad,       \* the directory or an owned file has a broader mode
    pc,          \* where a store is
    plan,        \* why it takes the region: the step under exclusive access
    handle,      \* the identity of the database it has open
    rebuilt,     \* s.rebuilt
    busy         \* an operation of a refresh is in flight

files == <<db, wal, boot, tomb, broad>>
stores == <<pc, plan, handle, rebuilt, busy>>
filesVars == <<lockVars, files, stores>>

Plans == {"open", "setUp", "rebuild", "narrow", "reset"}

\* What follows an acquisition, and what follows a step under exclusive access.
AfterShared == [open |-> "probe", setUp |-> "check", rebuild |-> "check", narrow |-> "using"]
AfterExclusive == [setUp |-> "repair", rebuild |-> "identify", narrow |-> "repair",
                   reset |-> "repair"]
AfterRepair == [setUp |-> "pending", narrow |-> "convert", reset |-> "identify"]
\* bootstrap, which cleans up before it creates.  Bug: it trusts that no sidecars
\* are left.
BootstrapUncleaned == "bootRemove"
Bootstrap == "bootSidecars"

\* What follows a removal.
AfterDiscard == [rebuild |-> Bootstrap, reset |-> "closing"]

\* clearInterruptedReset, wherever it is called.
AfterCleaning == [resumeSidecars |-> "resumeTombstone", resumeTombstone |-> "exists",
                  discardSidecars |-> "discardTombstone",
                  discardTombstone |-> "discardBootstrap",
                  bootSidecars |-> "bootTombstone", bootTombstone |-> "bootRemove"]

Points == {"down", "share", "exclude", "convert", "escalate", "probe", "repair", "pending",
           "exists", "identify", "discardBootstrap", "bootRemove", "bootCreate", "bootSchema",
           "bootRename", "check", "openDatabase", "inspect", "using", "closing", "unlocking"}
              \cup DOMAIN AfterCleaning

FilesTypeOK ==
    /\ LockTypeOK
    /\ db \in Databases \cup {None}
    /\ wal \in Identities \cup {None}
    /\ boot \in {None, "partial", "complete"}
    /\ tomb \in BOOLEAN /\ broad \in BOOLEAN
    /\ pc \in [Stores -> Points]
    /\ plan \in [Stores -> Plans]
    /\ handle \in [Stores -> Identities \cup {None}]
    /\ rebuilt \in [Stores -> BOOLEAN]
    /\ busy \in [Stores -> BOOLEAN]

Earlier == CHOOSE id \in Identities : TRUE

\* An empty directory, orphaned sidecars, or a database of somebody else.
FilesInit ==
    /\ LockInit
    /\ \/ db = None /\ wal \in {None, Earlier}
       \/ db = [id |-> Earlier, health |-> "foreign"] /\ wal = None
    /\ boot = None /\ tomb = FALSE /\ broad \in BOOLEAN
    /\ pc = [s \in Stores |-> "down"]
    /\ plan = [s \in Stores |-> "open"]
    /\ handle = [s \in Stores |-> None]
    /\ rebuilt = [s \in Stores |-> FALSE]
    /\ busy = [s \in Stores |-> FALSE]

At(s, point) == pc[s] = point
Goto(s, point) == pc' = [pc EXCEPT ![s] = point]
Step(s, from, to) ==
    /\ At(s, from) /\ Goto(s, to)
    /\ UNCHANGED <<lockVars, plan, handle, rebuilt, busy>>

-----------------------------------------------------------------------------
(* The lifecycle region                                                    *)

Open(s) ==
    /\ At(s, "down") /\ Goto(s, "share") /\ RetainFile(s)
    /\ plan' = [plan EXCEPT ![s] = "open"]
    /\ UNCHANGED <<files, handle, rebuilt, busy>>

Reset(s) ==
    /\ At(s, "down") /\ Goto(s, "exclude") /\ RetainFile(s)
    /\ plan' = [plan EXCEPT ![s] = "reset"]
    /\ UNCHANGED <<files, handle, rebuilt, busy>>

Wanted(s) == IF At(s, "share") THEN "shared" ELSE "exclusive"

Guard(s) ==
    /\ pc[s] \in {"share", "exclude"} /\ TakeGuard(s, Wanted(s))
    /\ UNCHANGED <<files, stores>>

Acquire(s) ==
    /\ pc[s] \in {"share", "exclude"} /\ held[s] = "none" /\ LockRegion(s, Wanted(s))
    /\ Goto(s, IF At(s, "share") THEN AfterShared[plan[s]] ELSE AfterExclusive[plan[s]])
    /\ UNCHANGED <<files, plan, handle, rebuilt, busy>>

\* The first half of underExclusiveLifecycle and of convert: the region is free
\* until the store has it again.
Release(s) ==
    /\ \/ At(s, "escalate") /\ Goto(s, "exclude")
       \/ At(s, "convert") /\ Goto(s, "share")
    /\ ReleaseRegion(s)
    /\ UNCHANGED <<files, plan, handle, rebuilt, busy>>

-----------------------------------------------------------------------------
(* prepare                                                                 *)

Probe(s) ==
    /\ IF broad \/ tomb \/ db = None
         THEN /\ At(s, "probe") /\ Goto(s, "escalate")
              /\ plan' = [plan EXCEPT ![s] = "setUp"]
              /\ UNCHANGED <<lockVars, handle, rebuilt, busy>>
         ELSE Step(s, "probe", "check")
    /\ UNCHANGED files

\* repairOwnedPaths
Repair(s) ==
    /\ At(s, "repair") /\ Step(s, "repair", AfterRepair[plan[s]])
    /\ broad' = FALSE
    /\ UNCHANGED <<db, wal, boot, tomb>>

Pending(s) ==
    /\ Step(s, "pending", IF tomb THEN "resumeSidecars" ELSE "exists")
    /\ UNCHANGED files

Exists(s) ==
    /\ Step(s, "exists", IF db = None THEN Bootstrap ELSE "convert")
    /\ UNCHANGED files

\* checkHeader
CheckHeader(s) ==
    /\ db # None /\ db.health # "foreign"
    /\ Step(s, "check", "openDatabase")
    /\ UNCHANGED files

\* openDatabase of a sound database: the write-ahead log comes with it.
OpenSound(s) ==
    /\ At(s, "openDatabase") /\ Goto(s, "inspect")
    /\ db # None /\ db.health = "sound"
    /\ handle' = [handle EXCEPT ![s] = db.id]
    /\ wal' = db.id
    /\ UNCHANGED <<lockVars, db, boot, tomb, broad, plan, rebuilt, busy>>

\* The one rebuild attempt of a process.  Bug: it is not recorded.
NeverRecorded(s) == UNCHANGED rebuilt
RecordRebuild(s) == rebuilt' = [rebuilt EXCEPT ![s] = TRUE]

\* openDatabase of a corrupt one: its connection is closed again.
OpenCorrupt(s) ==
    /\ At(s, "openDatabase") /\ Goto(s, "escalate")
    /\ db # None /\ db.health = "corrupt" /\ ~rebuilt[s]
    /\ plan' = [plan EXCEPT ![s] = "rebuild"]
    /\ RecordRebuild(s)
    /\ wal' \in {wal, db.id}
    /\ UNCHANGED <<lockVars, db, boot, tomb, broad, handle, busy>>

Inspect(s) ==
    /\ \/ ~broad /\ Step(s, "inspect", "using")
       \/ /\ broad /\ At(s, "inspect") /\ Goto(s, "escalate")
          /\ plan' = [plan EXCEPT ![s] = "narrow"]
          /\ UNCHANGED <<lockVars, handle, rebuilt, busy>>
    /\ UNCHANGED files

-----------------------------------------------------------------------------
(* discardDatabase, clearInterruptedReset and bootstrap, one file each     *)

\* canonicalIsOwned and the rename.  Bug: the header is not looked at.
OwnedIfAny == db # None
Owned == db # None /\ db.health # "foreign"
Rename(s) ==
    /\ db = None \/ Owned
    /\ Step(s, "identify", "discardSidecars")
    /\ db' = None /\ tomb' = (tomb \/ db # None)
    /\ UNCHANGED <<wal, boot, broad>>

RemoveSidecars(s) ==
    /\ pc[s] \in {"resumeSidecars", "discardSidecars", "bootSidecars"}
    /\ Step(s, pc[s], AfterCleaning[pc[s]])
    /\ wal' = None
    /\ UNCHANGED <<db, boot, tomb, broad>>

RemoveTombstone(s) ==
    /\ pc[s] \in {"resumeTombstone", "discardTombstone", "bootTombstone"}
    /\ Step(s, pc[s], AfterCleaning[pc[s]])
    /\ tomb' = FALSE
    /\ UNCHANGED <<db, wal, boot, broad>>

RemoveBootstrap(s) ==
    /\ \/ At(s, "discardBootstrap") /\ Step(s, "discardBootstrap", AfterDiscard[plan[s]])
       \/ Step(s, "bootRemove", "bootCreate")
    /\ boot' = None
    /\ UNCHANGED <<db, wal, tomb, broad>>

CreateBootstrap(s) ==
    /\ boot = None
    /\ Step(s, "bootCreate", "bootSchema")
    /\ boot' = "partial"
    /\ UNCHANGED <<db, wal, tomb, broad>>

\* createSchema commits everything at once.  Bug: the file goes into place first.
SchemaLater(s) == boot' = boot
CommitSchema(s) == boot' = "complete"
CreateSchema(s) ==
    /\ Step(s, "bootSchema", "bootRename")
    /\ CommitSchema(s)
    /\ UNCHANGED <<db, wal, tomb, broad>>

\* An identity no file and no handle has.
Fresh(id) ==
    /\ id # wal /\ (db # None => id # db.id)
    /\ \A t \in Stores : handle[t] # id
NextIdentity == CHOOSE id \in Identities : Fresh(id)
Publish(s) ==
    /\ Step(s, "bootRename", "convert")
    /\ \E id \in Identities : Fresh(id)
    /\ db' = [id |-> NextIdentity, health |-> IF boot = "complete" THEN "sound" ELSE "corrupt"]
    /\ boot' = None
    /\ UNCHANGED <<wal, tomb, broad>>

-----------------------------------------------------------------------------
(* Use, failure and the end                                                *)

\* begin, and the release it returns.
BeginOperation(s) ==
    /\ At(s, "using") /\ ~busy[s]
    /\ busy' = [busy EXCEPT ![s] = TRUE]
    /\ UNCHANGED <<lockVars, files, pc, plan, handle, rebuilt>>
EndOperation(s) ==
    /\ busy[s]
    /\ busy' = [busy EXCEPT ![s] = FALSE]
    /\ UNCHANGED <<lockVars, files, pc, plan, handle, rebuilt>>

\* Close waits for the operations in flight.  Bug: it does not.
AnyMoment(s) == TRUE
Idle(s) == ~busy[s]
Close(s) ==
    /\ Idle(s) /\ Step(s, "using", "closing")
    /\ UNCHANGED files

\* A contended region, an I/O error, a database of somebody else, one that is
\* missing or still corrupt.  A bootstrap that fails removes its file.
Fail(s) ==
    /\ pc[s] \notin {"down", "using", "closing", "unlocking"}
    /\ Goto(s, "closing")
    /\ boot' = IF pc[s] \in {"bootSchema", "bootRename"} THEN None ELSE boot
    /\ UNCHANGED <<lockVars, db, wal, tomb, broad, plan, handle, rebuilt, busy>>

\* closeHandles: the last connection takes the write-ahead log with it, by name.
CloseDatabase(s) ==
    /\ At(s, "closing") /\ Goto(s, "unlocking")
    /\ handle' = [handle EXCEPT ![s] = None]
    /\ wal' = IF handle[s] # None /\ \A t \in Stores \ {s} : handle[t] # handle[s]
              THEN None ELSE wal
    /\ UNCHANGED <<lockVars, db, boot, tomb, broad, plan, rebuilt, busy>>

Unlock(s) ==
    /\ At(s, "unlocking") /\ Goto(s, "down") /\ CloseLock(s)
    /\ rebuilt' = [rebuilt EXCEPT ![s] = FALSE]
    /\ UNCHANGED <<files, plan, handle, busy>>

\* A process ends; its files stay as they are.
Crash(p) ==
    LET own == {s \in Stores : ProcessOf[s] = p} IN
    /\ \E s \in own : ~At(s, "down")
    /\ DropLocks(p)
    /\ pc' = [s \in Stores |-> IF s \in own THEN "down" ELSE pc[s]]
    /\ handle' = [s \in Stores |-> IF s \in own THEN None ELSE handle[s]]
    /\ rebuilt' = [s \in Stores |-> IF s \in own THEN FALSE ELSE rebuilt[s]]
    /\ busy' = [s \in Stores |-> IF s \in own THEN FALSE ELSE busy[s]]
    /\ UNCHANGED <<files, plan>>

\* Something else widens a mode or damages an owned database.
Broaden ==
    /\ ~broad /\ broad' = TRUE
    /\ UNCHANGED <<db, wal, boot, tomb, lockVars, stores>>
Damage ==
    /\ db # None /\ db.health = "sound"
    /\ db' = [db EXCEPT !.health = "corrupt"]
    /\ UNCHANGED <<wal, boot, tomb, broad, lockVars, stores>>

Advance(s) ==
    \/ Guard(s) \/ Acquire(s) \/ Release(s)
    \/ Probe(s) \/ Repair(s) \/ Pending(s) \/ Exists(s)
    \/ CheckHeader(s) \/ OpenSound(s) \/ OpenCorrupt(s) \/ Inspect(s)
    \/ Rename(s) \/ RemoveSidecars(s) \/ RemoveTombstone(s) \/ RemoveBootstrap(s)
    \/ CreateBootstrap(s) \/ CreateSchema(s) \/ Publish(s)
    \/ CloseDatabase(s) \/ Unlock(s) \/ EndOperation(s)

FilesNext ==
    \/ \E s \in Stores :
          Open(s) \/ Reset(s) \/ Advance(s) \/ Fail(s) \/ BeginOperation(s) \/ Close(s)
    \/ \E p \in Processes : Crash(p)
    \/ Broaden \/ Damage

FilesSpec == FilesInit /\ [][FilesNext]_filesVars

\* Every step returns or fails, and an operation ends.
FilesFairSpec == FilesSpec /\ \A s \in Stores : WF_filesVars(Advance(s) \/ Fail(s))
-----------------------------------------------------------------------------
(* Properties                                                              *)

\* The database a store has open is the one at the canonical path, and no reset of
\* it is unfinished.
Canonical(s) == db # None /\ db.id = handle[s] /\ ~tomb

\* The store holds no region with its database open: it gave the region up to narrow
\* a mode and has not got it back.
Narrowing(s) == plan[s] = "narrow" /\ held[s] = "none"

\* A database is open under shared access, but for the exclusive access that narrows
\* a mode and what leads there and back (store.go:162).
RegionCovers ==
    \A s \in Stores : handle[s] # None =>
        \/ held[s] = "shared"
        \/ /\ plan[s] = "narrow"
           /\ pc[s] \in {"exclude", "repair", "convert", "share", "closing"}

\* A database is the canonical one when a store opens it, and nobody discards or
\* replaces it as long as the store has it open and holds the region, whatever crashes.
\* Only while a mode is narrowed can it be lost; the store then goes on without it
\* (store.go:162, although 86-88 say that no concurrent process can do that to it).
HandleIsCanonical ==
    [][\A s \in Stores : handle'[s] # None /\ ~Canonical(s)' =>
          handle'[s] = handle[s] /\ (~Canonical(s) \/ Narrowing(s))]_filesVars

\* The sidecars beside a canonical database belong to it, through crashes in the
\* middle of resets and rebuilds (reset.go:55-56).
SidecarsMatch == db # None /\ wal # None => wal = db.id

\* A database that appears under the canonical name is complete (store.go:291).
BornComplete == [][db' # None /\ (db = None \/ db'.id # db.id) => db'.health = "sound"]_filesVars

\* A database of somebody else is never renamed, removed or replaced.
ForeignKept == [][db # None /\ db.health = "foreign" => db' = db]_filesVars

\* No operation of a refresh is in flight without its handles, although the
\* launch closes the store while the refresh may still run.
OperationHasHandles ==
    \A s \in Stores : busy[s] => handle[s] # None /\ held[s] = "shared"

\* An Open ends, even if the database is damaged again and again.
OpenEnds == \A s \in Stores : At(s, "check") ~> pc[s] \in {"using", "down"}

\* Open handles: of the canonical database when they are opened and for as long as the
\* region is held, outside it only to narrow a mode, and there for every operation in
\* flight (store.go begin, Close, underExclusiveLifecycle; reset.go discardDatabase).
HandlesAreSound ==
    /\ [](FilesTypeOK /\ RegionCovers /\ OperationHasHandles)
    /\ HandleIsCanonical

\* The database at the canonical path: complete from its first appearance, with no other
\* one's sidecars, and untouched if it is somebody else's, through crashes anywhere
\* (store.go bootstrap, reset.go discardDatabase).
DatabaseIsWhole == []SidecarsMatch /\ BornComplete /\ ForeignKept
=============================================================================
