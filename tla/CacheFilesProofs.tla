-------------------------- MODULE CacheFilesProofs --------------------------
(***************************************************************************)
(* The theorems of the cache directory, for every set of stores, processes *)
(* and databases: its type invariant, the exclusion of the lifecycle       *)
(* region, the open handles, and the database at the canonical path.       *)
(*                                                                         *)
(* Where a store is fixes how it holds the region, why it took it and what *)
(* it has open (StationInv): that needs no hypothesis.  What the region    *)
(* protects (CustodyInv) rests on one store per process, as the program    *)
(* opens them: a POSIX lock belongs to the process, and a second store of  *)
(* the same process could drop it.                                         *)
(***************************************************************************)
EXTENDS CacheFiles, TLAPS

OneStorePerProcess == \A s, t \in Stores : ProcessOf[s] = ProcessOf[t] => s = t

-----------------------------------------------------------------------------
(* Where a store is                                                        *)

SharedPoints == {"probe", "check", "openDatabase", "inspect", "using", "escalate"}
BootPoints ==
    {"bootSidecars", "bootTombstone", "bootRemove", "bootCreate", "bootSchema", "bootRename"}
DiscardPoints == {"discardSidecars", "discardTombstone", "discardBootstrap"}
SetUpPoints == {"pending", "exists", "resumeSidecars", "resumeTombstone"}
ExclusivePoints ==
    {"repair", "identify", "convert"} \cup SetUpPoints \cup DiscardPoints \cup BootPoints

\* How a store holds the region.
Holds(s) ==
    /\ pc[s] \in {"down", "share", "exclude"} => held[s] = "none"
    /\ pc[s] \in SharedPoints => held[s] = "shared"
    /\ pc[s] \in ExclusivePoints => held[s] = "exclusive"

\* Why it is there.
Purposes(s) ==
    /\ pc[s] = "probe" => plan[s] = "open"
    /\ pc[s] = "share" => plan[s] # "reset"
    /\ pc[s] = "exclude" => plan[s] # "open"
    /\ pc[s] = "repair" => plan[s] \in {"setUp", "narrow", "reset"}
    /\ pc[s] \in {"escalate", "convert"} => plan[s] \in {"setUp", "rebuild", "narrow"}
    /\ pc[s] \in {"check", "openDatabase", "inspect"} => plan[s] \in {"open", "setUp", "rebuild"}
    /\ pc[s] \in SetUpPoints => plan[s] = "setUp"
    /\ pc[s] \in {"identify"} \cup DiscardPoints => plan[s] \in {"rebuild", "reset"}
    /\ pc[s] \in BootPoints => plan[s] \in {"setUp", "rebuild"}

\* Where it has a database open: from the inspection to the end, and while it
\* narrows a mode.
NarrowPoints == {"escalate", "exclude", "repair", "convert", "share"}
Opens(s) ==
    /\ handle[s] # None =>
          \/ pc[s] \in {"inspect", "using", "closing"}
          \/ plan[s] = "narrow" /\ pc[s] \in NarrowPoints
    /\ pc[s] \in {"inspect", "using"} => handle[s] # None
    /\ plan[s] = "narrow" /\ pc[s] \in NarrowPoints => handle[s] # None
    /\ handle[s] # None /\ plan[s] # "narrow" => held[s] = "shared"
    /\ busy[s] => pc[s] = "using"

Stands(s) == Holds(s) /\ Purposes(s) /\ Opens(s)

StationInv == FilesTypeOK /\ \A s \in Stores : Stands(s)

-----------------------------------------------------------------------------
(* What the region protects                                                *)

\* The kernel knows of every lock a store believes in, and grants no two that
\* exclude each other.
Granted == \A s \in Stores : held[s] # "none" => posix[ProcessOf[s]] = held[s]
Exclusive == \A p, q \in Processes : p # q /\ posix[p] = "exclusive" => posix[q] = "none"

\* A tombstone means the database is gone.
TombMeansGone == tomb => db = None

\* What the steps of a discard and of a bootstrap leave behind for the next.
Cleared(s) ==
    /\ pc[s] \in DiscardPoints \cup BootPoints => db = None
    /\ pc[s] \in BootPoints \ {"bootSidecars"} => wal = None
    /\ pc[s] \in BootPoints \ {"bootSidecars", "bootTombstone"} => ~tomb
    /\ pc[s] = "bootRename" => boot = "complete"

FilesInv ==
    /\ TombMeansGone
    /\ \A s \in Stores : Cleared(s)
    /\ SidecarsMatch

CustodyInv == StationInv /\ Granted /\ Exclusive /\ FilesInv

LEMMA NextIdentityFresh ==
    ASSUME \E id \in Identities : Fresh(id)
    PROVE  NextIdentity \in Identities /\ Fresh(NextIdentity)
BY DEF NextIdentity

\* What follows an acquisition and a step under exclusive access, by the plan.
LEMMA Followed ==
    /\ AfterShared["open"] = "probe"
    /\ AfterShared["setUp"] = "check" /\ AfterShared["rebuild"] = "check"
    /\ AfterShared["narrow"] = "using"
    /\ AfterExclusive["setUp"] = "repair" /\ AfterExclusive["rebuild"] = "identify"
    /\ AfterExclusive["narrow"] = "repair" /\ AfterExclusive["reset"] = "repair"
    /\ AfterRepair["setUp"] = "pending" /\ AfterRepair["narrow"] = "convert"
    /\ AfterRepair["reset"] = "identify"
    /\ AfterDiscard["rebuild"] = "bootSidecars" /\ AfterDiscard["reset"] = "closing"
BY DEF AfterShared, AfterExclusive, AfterRepair, AfterDiscard, Bootstrap

\* Every step keeps the type of the state.
LEMMA StationTyped ==
    ASSUME StationInv, FilesNext
    PROVE  FilesTypeOK'
<1> USE DEF StationInv, FilesTypeOK, LockTypeOK, lockVars, files, stores, At, Goto, Step, Plans,
            Modes, Points, AfterCleaning
<1>1. ASSUME NEW s \in Stores, Open(s) PROVE FilesTypeOK'
  BY <1>1 DEF Open, RetainFile
<1>2. ASSUME NEW s \in Stores, Reset(s) PROVE FilesTypeOK'
  BY <1>2 DEF Reset, RetainFile
<1>3. ASSUME NEW s \in Stores, Guard(s) PROVE FilesTypeOK'
  BY <1>3 DEF Guard, TakeGuard, Wanted
<1>4. ASSUME NEW s \in Stores, Acquire(s) PROVE FilesTypeOK'
  <2>1. pc'[s] \in Points
    BY Followed, <1>4 DEF Acquire, Stands, Purposes
  <2> QED BY <1>4, <2>1 DEF Acquire, LockRegion
<1>5. ASSUME NEW s \in Stores, Release(s) PROVE FilesTypeOK'
  BY <1>5 DEF Release, ReleaseRegion
<1>6. ASSUME NEW s \in Stores, Probe(s) PROVE FilesTypeOK'
  BY <1>6 DEF Probe
<1>7. ASSUME NEW s \in Stores, Repair(s) PROVE FilesTypeOK'
  <2>1. pc'[s] \in Points
    BY Followed, <1>7 DEF Repair, Stands, Purposes
  <2> QED BY <1>7, <2>1 DEF Repair
<1>8. ASSUME NEW s \in Stores, Pending(s) PROVE FilesTypeOK'
  BY <1>8 DEF Pending
<1>9. ASSUME NEW s \in Stores, Exists(s) PROVE FilesTypeOK'
  BY <1>9 DEF Exists, Bootstrap
<1>10. ASSUME NEW s \in Stores, CheckHeader(s) PROVE FilesTypeOK'
  BY <1>10 DEF CheckHeader
<1>11. ASSUME NEW s \in Stores, OpenSound(s) PROVE FilesTypeOK'
  BY <1>11 DEF OpenSound, Databases
<1>12. ASSUME NEW s \in Stores, OpenCorrupt(s) PROVE FilesTypeOK'
  BY <1>12 DEF OpenCorrupt, RecordRebuild, Databases
<1>13. ASSUME NEW s \in Stores, Inspect(s) PROVE FilesTypeOK'
  BY <1>13 DEF Inspect
<1>14. ASSUME NEW s \in Stores, Rename(s) PROVE FilesTypeOK'
  BY <1>14 DEF Rename
<1>15. ASSUME NEW s \in Stores, RemoveSidecars(s) PROVE FilesTypeOK'
  BY <1>15 DEF RemoveSidecars
<1>16. ASSUME NEW s \in Stores, RemoveTombstone(s) PROVE FilesTypeOK'
  <2>1. pc'[s] \in Points /\ pc' = [pc EXCEPT ![s] = pc'[s]]
    BY <1>16 DEF RemoveTombstone
  <2> QED BY <1>16, <2>1 DEF RemoveTombstone
<1>17. ASSUME NEW s \in Stores, RemoveBootstrap(s) PROVE FilesTypeOK'
  <2>1. pc'[s] \in Points /\ pc' = [pc EXCEPT ![s] = pc'[s]]
    BY Followed, <1>17 DEF RemoveBootstrap, Stands, Purposes, DiscardPoints
  <2> QED BY <1>17, <2>1 DEF RemoveBootstrap
<1>18. ASSUME NEW s \in Stores, CreateBootstrap(s) PROVE FilesTypeOK'
  BY <1>18 DEF CreateBootstrap
<1>19. ASSUME NEW s \in Stores, CreateSchema(s) PROVE FilesTypeOK'
  BY <1>19 DEF CreateSchema, CommitSchema
<1>20. ASSUME NEW s \in Stores, Publish(s) PROVE FilesTypeOK'
  BY NextIdentityFresh, <1>20 DEF Publish, Databases
<1>21. ASSUME NEW s \in Stores, CloseDatabase(s) PROVE FilesTypeOK'
  BY <1>21 DEF CloseDatabase
<1>22. ASSUME NEW s \in Stores, Unlock(s) PROVE FilesTypeOK'
  BY <1>22 DEF Unlock, CloseLock
<1>23. ASSUME NEW s \in Stores, EndOperation(s) PROVE FilesTypeOK'
  BY <1>23 DEF EndOperation
<1>24. ASSUME NEW s \in Stores, Fail(s) PROVE FilesTypeOK'
  BY <1>24 DEF Fail
<1>25. ASSUME NEW s \in Stores, BeginOperation(s) PROVE FilesTypeOK'
  BY <1>25 DEF BeginOperation
<1>26. ASSUME NEW s \in Stores, Close(s) PROVE FilesTypeOK'
  BY <1>26 DEF Close
<1>27. ASSUME NEW p \in Processes, Crash(p) PROVE FilesTypeOK'
  BY <1>27 DEF Crash, DropLocks
<1>28. CASE Broaden \/ Damage
  BY <1>28 DEF Broaden, Damage, Databases
<1> QED BY <1>1, <1>2, <1>3, <1>4, <1>5, <1>6, <1>7, <1>8, <1>9, <1>10, <1>11, <1>12, <1>13,
           <1>14, <1>15, <1>16, <1>17, <1>18, <1>19, <1>20, <1>21, <1>22, <1>23, <1>24,
           <1>25, <1>26, <1>27, <1>28 DEF FilesNext, Advance

\* Every step leaves every store where its region, its plan and its handle fit.
LEMMA StationStood ==
    ASSUME StationInv, FilesNext
    PROVE  \A t \in Stores : Stands(t)'
<1> USE DEF StationInv, FilesTypeOK, LockTypeOK, lockVars, files, stores, At, Goto, Step,
           Stands, Holds, Purposes, Opens, Plans, SharedPoints, ExclusivePoints,
           SetUpPoints, DiscardPoints, BootPoints, NarrowPoints
<1>1. ASSUME NEW s \in Stores, Open(s) PROVE \A t \in Stores : Stands(t)'
  BY <1>1 DEF Open, RetainFile
<1>2. ASSUME NEW s \in Stores, Reset(s) PROVE \A t \in Stores : Stands(t)'
  BY <1>2 DEF Reset, RetainFile
<1>3. ASSUME NEW s \in Stores, Guard(s) PROVE \A t \in Stores : Stands(t)'
  BY <1>3 DEF Guard, TakeGuard
<1>4. ASSUME NEW s \in Stores, Acquire(s) PROVE \A t \in Stores : Stands(t)'
  BY Followed, <1>4 DEF Acquire, LockRegion, Wanted
<1>5. ASSUME NEW s \in Stores, Release(s) PROVE \A t \in Stores : Stands(t)'
  BY <1>5 DEF Release, ReleaseRegion
<1>6. ASSUME NEW s \in Stores, Probe(s) PROVE \A t \in Stores : Stands(t)'
  BY <1>6 DEF Probe
<1>7. ASSUME NEW s \in Stores, Repair(s) PROVE \A t \in Stores : Stands(t)'
  BY Followed, <1>7 DEF Repair
<1>8. ASSUME NEW s \in Stores, Pending(s) PROVE \A t \in Stores : Stands(t)'
  BY <1>8 DEF Pending
<1>9. ASSUME NEW s \in Stores, Exists(s) PROVE \A t \in Stores : Stands(t)'
  BY <1>9 DEF Exists, Bootstrap
<1>10. ASSUME NEW s \in Stores, CheckHeader(s) PROVE \A t \in Stores : Stands(t)'
  BY <1>10 DEF CheckHeader
<1>11. ASSUME NEW s \in Stores, OpenSound(s) PROVE \A t \in Stores : Stands(t)'
  BY FileAssumption, <1>11 DEF OpenSound, Databases
<1>12. ASSUME NEW s \in Stores, OpenCorrupt(s) PROVE \A t \in Stores : Stands(t)'
  BY <1>12 DEF OpenCorrupt
<1>13. ASSUME NEW s \in Stores, Inspect(s) PROVE \A t \in Stores : Stands(t)'
  BY <1>13 DEF Inspect
<1>14. ASSUME NEW s \in Stores, Rename(s) PROVE \A t \in Stores : Stands(t)'
  BY <1>14 DEF Rename
<1>15. ASSUME NEW s \in Stores, RemoveSidecars(s) PROVE \A t \in Stores : Stands(t)'
  BY <1>15 DEF RemoveSidecars, AfterCleaning
<1>16. ASSUME NEW s \in Stores, RemoveTombstone(s) PROVE \A t \in Stores : Stands(t)'
  BY <1>16 DEF RemoveTombstone, AfterCleaning
<1>17. ASSUME NEW s \in Stores, RemoveBootstrap(s) PROVE \A t \in Stores : Stands(t)'
  BY Followed, <1>17 DEF RemoveBootstrap
<1>18. ASSUME NEW s \in Stores, CreateBootstrap(s) PROVE \A t \in Stores : Stands(t)'
  BY <1>18 DEF CreateBootstrap
<1>19. ASSUME NEW s \in Stores, CreateSchema(s) PROVE \A t \in Stores : Stands(t)'
  BY <1>19 DEF CreateSchema
<1>20. ASSUME NEW s \in Stores, Publish(s) PROVE \A t \in Stores : Stands(t)'
  BY <1>20 DEF Publish
<1>21. ASSUME NEW s \in Stores, CloseDatabase(s) PROVE \A t \in Stores : Stands(t)'
  BY <1>21 DEF CloseDatabase
<1>22. ASSUME NEW s \in Stores, Unlock(s) PROVE \A t \in Stores : Stands(t)'
  BY <1>22 DEF Unlock, CloseLock
<1>23. ASSUME NEW s \in Stores, EndOperation(s) PROVE \A t \in Stores : Stands(t)'
  BY <1>23 DEF EndOperation
<1>24. ASSUME NEW s \in Stores, Fail(s) PROVE \A t \in Stores : Stands(t)'
  BY <1>24 DEF Fail
<1>25. ASSUME NEW s \in Stores, BeginOperation(s) PROVE \A t \in Stores : Stands(t)'
  BY <1>25 DEF BeginOperation
<1>26. ASSUME NEW s \in Stores, Close(s) PROVE \A t \in Stores : Stands(t)'
  BY <1>26 DEF Close, Idle
<1>27. ASSUME NEW p \in Processes, Crash(p) PROVE \A t \in Stores : Stands(t)'
  BY <1>27 DEF Crash, DropLocks
<1>28. CASE Broaden \/ Damage
  BY <1>28 DEF Broaden, Damage
<1> QED BY <1>1, <1>2, <1>3, <1>4, <1>5, <1>6, <1>7, <1>8, <1>9, <1>10, <1>11, <1>12, <1>13,
           <1>14, <1>15, <1>16, <1>17, <1>18, <1>19, <1>20, <1>21, <1>22, <1>23, <1>24,
           <1>25, <1>26, <1>27, <1>28 DEF FilesNext, Advance

\* The type invariant and the stations: Spec => []StationInv.
THEOREM StationInvariance == FilesSpec => []StationInv
<1>1. FilesInit => StationInv
  <2> SUFFICES ASSUME FilesInit PROVE StationInv
    OBVIOUS
  <2>1. Earlier \in Identities
    BY FileAssumption DEF Earlier
  <2>2. FilesTypeOK
    <3>1. LockTypeOK
      BY DEF FilesInit, LockInit, LockTypeOK, Modes
    <3>2. db \in Databases \cup {None} /\ wal \in Identities \cup {None}
      BY <2>1 DEF FilesInit, Databases
    <3>3. pc \in [Stores -> Points] /\ plan \in [Stores -> Plans]
      BY DEF FilesInit, Plans, Points
    <3> QED BY <3>1, <3>2, <3>3 DEF FilesInit, FilesTypeOK
  <2>3. \A s \in Stores : Stands(s)
    BY DEF FilesInit, LockInit, Stands, Holds, Purposes, Opens, SharedPoints,
       ExclusivePoints, SetUpPoints, DiscardPoints, BootPoints, NarrowPoints
  <2> QED BY <2>2, <2>3 DEF StationInv
<1>2. StationInv /\ [FilesNext]_filesVars => StationInv'
  <2>1. CASE FilesNext
    BY <2>1, StationTyped, StationStood DEF StationInv
  <2>2. CASE UNCHANGED filesVars
    BY <2>2 DEF filesVars, lockVars, files, stores, StationInv, FilesTypeOK, LockTypeOK,
       Stands, Holds, Purposes, Opens
  <2> QED BY <2>1, <2>2
<1> QED BY <1>1, <1>2, PTL DEF FilesSpec

\* The kernel's grants: every lock a store believes in is granted, and grants
\* that exclude each other never stand together.
LEMMA RegionKept ==
    ASSUME OneStorePerProcess, StationInv, Granted, Exclusive, [FilesNext]_filesVars
    PROVE  Granted' /\ Exclusive'
<1> USE DEF StationInv, FilesTypeOK, LockTypeOK, lockVars, files, stores, Granted, Exclusive
<1>1. ASSUME NEW s \in Stores, Acquire(s) PROVE Granted' /\ Exclusive'
  BY <1>1, StoreAssumption DEF OneStorePerProcess, Acquire, LockRegion, RegionFree,
     Compatible
<1>2. ASSUME NEW s \in Stores, Release(s) PROVE Granted' /\ Exclusive'
  BY <1>2 DEF OneStorePerProcess, Release, ReleaseRegion
<1>3. ASSUME NEW s \in Stores, Unlock(s) PROVE Granted' /\ Exclusive'
  BY <1>3 DEF OneStorePerProcess, Unlock, CloseLock
<1>4. ASSUME NEW p \in Processes, Crash(p) PROVE Granted' /\ Exclusive'
  BY <1>4 DEF Crash, DropLocks
<1>5. CASE UNCHANGED <<held, posix>>
  BY <1>5
<1>6. ASSUME NEW s \in Stores,
             Open(s) \/ Reset(s) \/ Guard(s) \/ Probe(s) \/ Repair(s) \/ Pending(s) \/ Exists(s)
          \/ CheckHeader(s) \/ OpenSound(s) \/ OpenCorrupt(s) \/ Inspect(s) \/ Rename(s) \/ RemoveSidecars(s)
          \/ RemoveTombstone(s) \/ RemoveBootstrap(s) \/ CreateBootstrap(s) \/ CreateSchema(s) \/ Publish(s)
          \/ CloseDatabase(s) \/ EndOperation(s) \/ Fail(s) \/ BeginOperation(s) \/ Close(s)
      PROVE  UNCHANGED <<held, posix>>
  BY <1>6 DEF Step, RetainFile, TakeGuard, Open, Reset, Guard, Probe, Repair, Pending,
     Exists, CheckHeader, OpenSound, OpenCorrupt, Inspect, Rename, RemoveSidecars,
     RemoveTombstone, RemoveBootstrap, CreateBootstrap, CreateSchema, Publish,
     CloseDatabase, EndOperation, Fail, BeginOperation, Close
<1>7. CASE Broaden \/ Damage \/ UNCHANGED filesVars
  BY <1>7 DEF Broaden, Damage, filesVars
<1> QED BY <1>1, <1>2, <1>3, <1>4, <1>6, <1>7 DEF FilesNext, Advance

\* No two stores hold the region when one holds it exclusively.
LEMMA GrantsExclude ==
    ASSUME OneStorePerProcess, FilesTypeOK, Granted, Exclusive
    PROVE  LocksExclude
BY StoreAssumption DEF OneStorePerProcess, Granted, Exclusive, LocksExclude

\* A store at an exclusive step is alone: nobody else holds the region, so nobody
\* else is at a step under it or has a database open, unless to narrow a mode.
LEMMA Alone ==
    ASSUME StationInv, LocksExclude,
           NEW s \in Stores, NEW t \in Stores, s # t, pc[s] \in ExclusivePoints
    PROVE  /\ pc[t] \notin SharedPoints \cup ExclusivePoints
           /\ handle[t] # None => Narrowing(t)
<1>1. held[t] = "none"
  BY DEF StationInv, Stands, Holds, LocksExclude
<1> QED BY <1>1 DEF StationInv, Stands, Holds, Opens, Narrowing

\* What the files say, kept by every step while the region excludes.
LEMMA FilesKept ==
    ASSUME StationInv, StationInv', LocksExclude, FilesInv, FilesNext
    PROVE  FilesInv'
<1> USE DEF FilesInv, TombMeansGone, Cleared, SidecarsMatch, lockVars, files,
           stores, At, Goto, Step, SetUpPoints, DiscardPoints, BootPoints
<1>1. ASSUME NEW s \in Stores, Open(s) PROVE FilesInv'
  BY <1>1 DEF Open, StationInv, Stands, Opens
<1>2. ASSUME NEW s \in Stores, Reset(s) PROVE FilesInv'
  BY <1>2 DEF Reset, StationInv, Stands, Opens
<1>3. ASSUME NEW s \in Stores, Guard(s) PROVE FilesInv'
  BY <1>3 DEF Guard
<1>4. ASSUME NEW s \in Stores, Acquire(s) PROVE FilesInv'
  BY <1>4, Followed DEF Acquire, StationInv, Stands, Purposes
<1>5. ASSUME NEW s \in Stores, Release(s) PROVE FilesInv'
  BY <1>5 DEF Release, StationInv, FilesTypeOK
<1>6. ASSUME NEW s \in Stores, Probe(s) PROVE FilesInv'
  BY <1>6 DEF Probe, StationInv, FilesTypeOK, Stands, Opens
<1>7. ASSUME NEW s \in Stores, Repair(s) PROVE FilesInv'
  BY <1>7, Followed DEF Repair, StationInv, Stands, Purposes
<1>8. ASSUME NEW s \in Stores, Pending(s) PROVE FilesInv'
  BY <1>8 DEF Pending
<1>9. ASSUME NEW s \in Stores, Exists(s) PROVE FilesInv'
  BY <1>9 DEF Exists, Bootstrap
<1>10. ASSUME NEW s \in Stores, CheckHeader(s) PROVE FilesInv'
  BY <1>10 DEF CheckHeader
<1>11. ASSUME NEW s \in Stores, OpenSound(s) PROVE FilesInv'
  BY <1>11 DEF OpenSound
<1>12. ASSUME NEW s \in Stores, OpenCorrupt(s) PROVE FilesInv'
  BY <1>12 DEF OpenCorrupt, StationInv, Stands, Opens
<1>13. ASSUME NEW s \in Stores, Inspect(s) PROVE FilesInv'
  BY <1>13 DEF Inspect, StationInv, FilesTypeOK
<1>14. ASSUME NEW s \in Stores, Rename(s) PROVE FilesInv'
  BY <1>14, Alone DEF Rename, ExclusivePoints
<1>15. ASSUME NEW s \in Stores, RemoveSidecars(s) PROVE FilesInv'
  BY <1>15 DEF RemoveSidecars, AfterCleaning
<1>16. ASSUME NEW s \in Stores, RemoveTombstone(s) PROVE FilesInv'
  BY <1>16 DEF RemoveTombstone, AfterCleaning
<1>17. ASSUME NEW s \in Stores, RemoveBootstrap(s) PROVE FilesInv'
  BY <1>17, Alone, Followed DEF RemoveBootstrap, ExclusivePoints, StationInv, FilesTypeOK,
     Stands, Purposes
<1>18. ASSUME NEW s \in Stores, CreateBootstrap(s) PROVE FilesInv'
  BY <1>18, FileAssumption DEF CreateBootstrap
<1>19. ASSUME NEW s \in Stores, CreateSchema(s) PROVE FilesInv'
  BY <1>19 DEF CreateSchema, CommitSchema
<1>20. ASSUME NEW s \in Stores, Publish(s) PROVE FilesInv'
  BY <1>20, Alone DEF Publish, ExclusivePoints, StationInv, FilesTypeOK
<1>21. ASSUME NEW s \in Stores, CloseDatabase(s) PROVE FilesInv'
  BY <1>21 DEF CloseDatabase
<1>22. ASSUME NEW s \in Stores, Unlock(s) PROVE FilesInv'
  BY <1>22 DEF Unlock
<1>23. ASSUME NEW s \in Stores, EndOperation(s) PROVE FilesInv'
  BY <1>23 DEF EndOperation
<1>24. ASSUME NEW s \in Stores, Fail(s) PROVE FilesInv'
  BY <1>24, Alone DEF Fail, ExclusivePoints, StationInv, FilesTypeOK
<1>25. ASSUME NEW s \in Stores, BeginOperation(s) PROVE FilesInv'
  BY <1>25 DEF BeginOperation
<1>26. ASSUME NEW s \in Stores, Close(s) PROVE FilesInv'
  BY <1>26 DEF Close
<1>27. ASSUME NEW p \in Processes, Crash(p) PROVE FilesInv'
  BY <1>27 DEF Crash
<1>28. CASE Broaden \/ Damage
  <2>1. db # None /\ db.health = "sound" /\ db' = [db EXCEPT !.health = "corrupt"] =>
           db' # None /\ db'.id = db.id
    BY FileAssumption DEF StationInv, FilesTypeOK, Databases
  <2>2. CASE Broaden
    BY <2>2 DEF Broaden
  <2>3. CASE Damage
    BY <2>1, <2>3 DEF Damage
  <2> QED BY <1>28, <2>2, <2>3
<1> QED BY <1>1, <1>2, <1>3, <1>4, <1>5, <1>6, <1>7, <1>8, <1>9, <1>10, <1>11, <1>12, <1>13,
           <1>14, <1>15, <1>16, <1>17, <1>18, <1>19, <1>20, <1>21, <1>22, <1>23, <1>24,
           <1>25, <1>26, <1>27, <1>28 DEF FilesNext, Advance

\* What the region protects, as one inductive invariant, where every process opens
\* one store.
THEOREM CustodyInvariance == OneStorePerProcess => (FilesSpec => []CustodyInv)
<1> SUFFICES ASSUME OneStorePerProcess PROVE FilesSpec => []CustodyInv
  OBVIOUS
<1>1. FilesInit /\ StationInv => CustodyInv
  BY DEF FilesInit, LockInit, CustodyInv, Granted, Exclusive, FilesInv, TombMeansGone,
     Cleared, SidecarsMatch, DiscardPoints, BootPoints
<1>2. CustodyInv /\ StationInv' /\ [FilesNext]_filesVars => CustodyInv'
  <2> SUFFICES ASSUME CustodyInv, StationInv', [FilesNext]_filesVars PROVE CustodyInv'
    OBVIOUS
  <2>1. Granted' /\ Exclusive'
    BY RegionKept DEF CustodyInv
  <2>2. LocksExclude
    BY GrantsExclude DEF CustodyInv, StationInv
  <2>3. FilesInv'
    <3>1. CASE FilesNext
      BY <2>2, <3>1, FilesKept DEF CustodyInv
    <3>2. CASE UNCHANGED filesVars
      BY <3>2 DEF CustodyInv, FilesInv, TombMeansGone, Cleared,
         SidecarsMatch, filesVars, files, stores
    <3> QED BY <3>1, <3>2
  <2> QED BY <2>1, <2>3 DEF CustodyInv
<1> QED BY <1>1, <1>2, StationInvariance, PTL DEF FilesSpec

\* Nobody holds the lifecycle region beside a store that holds it exclusively
\* (lock.go, lock_unix.go), whichever processes crash.
THEOREM LocksSafe == OneStorePerProcess => (FilesSpec => []LocksExclude)
<1> SUFFICES ASSUME OneStorePerProcess PROVE FilesSpec => []LocksExclude
  OBVIOUS
<1>1. CustodyInv => LocksExclude
  BY GrantsExclude DEF CustodyInv, StationInv
<1> QED BY <1>1, CustodyInvariance, PTL

\* Only a bootstrap puts a database at the canonical path, in place of none.
LEMMA ArrivesByPublish ==
    ASSUME FilesNext, db' # db
    PROVE  \/ \E s \in Stores : Publish(s)
           \/ \E s \in Stores : Rename(s)
           \/ Damage
<1> USE DEF files, Step
<1>1. ASSUME NEW s \in Stores, Advance(s), ~Publish(s), ~Rename(s) PROVE FALSE
  BY <1>1 DEF Advance, Guard, Acquire, Release, Probe, Repair, Pending, Exists, CheckHeader,
     OpenSound, OpenCorrupt, Inspect, RemoveSidecars, RemoveTombstone, RemoveBootstrap,
     CreateBootstrap, CreateSchema, CloseDatabase, Unlock, EndOperation
<1>2. ASSUME NEW s \in Stores, Open(s) \/ Reset(s) \/ Fail(s) \/ BeginOperation(s) \/ Close(s)
      PROVE  FALSE
  BY <1>2 DEF Open, Reset, Fail, BeginOperation, Close
<1>3. ASSUME (\E p \in Processes : Crash(p)) \/ Broaden PROVE FALSE
  BY <1>3 DEF Crash, Broaden
<1> QED BY <1>1, <1>2, <1>3 DEF FilesNext

\* A step that takes the canonical database from under an open handle is the
\* discard of a store that holds the region alone: the handle's store holds none.
LEMMA HandleLost ==
    ASSUME StationInv, StationInv', LocksExclude, FilesInv, FilesNext,
           NEW t \in Stores, handle'[t] # None, ~Canonical(t)'
    PROVE  handle'[t] = handle[t] /\ (~Canonical(t) \/ Narrowing(t))
<1>1. ASSUME handle'[t] # handle[t] PROVE FALSE
  <2>1. \E s \in Stores : OpenSound(s)
    <3>1. ASSUME NEW s \in Stores, Advance(s), ~OpenSound(s) PROVE FALSE
      BY <1>1, <3>1 DEF Advance, Guard, Acquire, Release, Probe, Repair, Pending, Exists,
         CheckHeader, OpenCorrupt, Inspect, Rename, RemoveSidecars, RemoveTombstone,
         RemoveBootstrap, CreateBootstrap, CreateSchema, Publish, CloseDatabase, Unlock,
         EndOperation, Step, stores, StationInv, FilesTypeOK
    <3>2. ASSUME NEW s \in Stores,
                 Open(s) \/ Reset(s) \/ Fail(s) \/ BeginOperation(s) \/ Close(s)
          PROVE  FALSE
      BY <1>1, <3>2 DEF Open, Reset, Fail, BeginOperation, Close, Step
    <3>3. ASSUME NEW p \in Processes, Crash(p) PROVE FALSE
      BY <1>1, <3>3 DEF Crash
    <3>4. CASE Broaden \/ Damage
      BY <1>1, <3>4 DEF Broaden, Damage, stores
    <3> QED BY <3>1, <3>2, <3>3, <3>4 DEF FilesNext
  <2> QED BY <1>1, <2>1 DEF OpenSound, Canonical, FilesInv, TombMeansGone, StationInv, FilesTypeOK
<1>2. ASSUME handle'[t] = handle[t], Canonical(t) PROVE Narrowing(t)
  <2>1. ASSUME NEW s \in Stores, Publish(s) PROVE FALSE
    BY <1>2, <2>1 DEF Publish, Step, At, FilesInv, Cleared, BootPoints, Canonical
  <2>2. ASSUME NEW s \in Stores, Rename(s) PROVE Narrowing(t)
    <3>1. s # t
      BY <1>2, <2>2 DEF Rename, Step, At, StationInv, Stands, Opens, NarrowPoints
    <3> QED BY <1>2, <2>2, <3>1, Alone DEF Rename, Step, At, ExclusivePoints
  <2>3. ASSUME Damage PROVE FALSE
    BY <1>2, <2>3, FileAssumption DEF Damage, Canonical, StationInv, FilesTypeOK, Databases
  <2>4. db' # db \/ tomb' # tomb
    BY <1>2 DEF Canonical
  <2>5. ASSUME db' = db PROVE FALSE
    <3>1. tomb' /\ ~tomb
      BY <1>2, <2>4, <2>5 DEF Canonical, StationInv, FilesTypeOK
    <3>2. tomb' => db' = None
      BY <2>5, <3>1, FilesKept DEF FilesInv, TombMeansGone
    <3> QED BY <1>2, <2>5, <3>1, <3>2 DEF Canonical
  <2> QED BY <2>1, <2>2, <2>3, <2>5, ArrivesByPublish
<1> QED BY <1>1, <1>2

\* An open database is the canonical one when it is opened and as long as its store
\* holds the region, the region is given up only to narrow a mode, and an operation in
\* flight has its handles (store.go begin, Close, underExclusiveLifecycle; reset.go
\* discardDatabase).
THEOREM HandlesSafe == OneStorePerProcess => (FilesSpec => HandlesAreSound)
<1> SUFFICES ASSUME OneStorePerProcess PROVE FilesSpec => HandlesAreSound
  OBVIOUS
<1> DEFINE Stated == FilesTypeOK /\ RegionCovers /\ OperationHasHandles
           Lost == \A s \in Stores : handle'[s] # None /\ ~Canonical(s)' =>
                      handle'[s] = handle[s] /\ (~Canonical(s) \/ Narrowing(s))
<1>1. CustodyInv => Stated
  <2> SUFFICES ASSUME CustodyInv PROVE Stated
    OBVIOUS
  <2>1. \A s \in Stores : Holds(s) /\ Purposes(s) /\ Opens(s)
    BY DEF CustodyInv, StationInv, Stands
  <2>2. RegionCovers
    BY <2>1 DEF RegionCovers, Holds, Opens, NarrowPoints, SharedPoints
  <2>3. OperationHasHandles
    BY <2>1 DEF OperationHasHandles, Holds, Opens, SharedPoints
  <2> QED BY <2>2, <2>3 DEF CustodyInv, StationInv
<1>2. CustodyInv /\ StationInv' /\ [FilesNext]_filesVars => [Lost]_filesVars
  BY HandleLost, GrantsExclude DEF CustodyInv, StationInv
<1>3. [][Lost]_filesVars => HandleIsCanonical
  BY PTL DEF HandleIsCanonical
<1> HIDE DEF Lost, Stated
<1>4. Stated => FilesTypeOK /\ RegionCovers /\ OperationHasHandles
  BY DEF Stated
<1> QED BY <1>1, <1>2, <1>3, <1>4, CustodyInvariance, StationInvariance, PTL DEF FilesSpec,
           HandlesAreSound

\* The database at the canonical path is complete from its first appearance, has no
\* other one's sidecars, and stays untouched if it is somebody else's (store.go
\* bootstrap, reset.go discardDatabase).
THEOREM DatabaseSafe == OneStorePerProcess => (FilesSpec => DatabaseIsWhole)
<1> SUFFICES ASSUME OneStorePerProcess PROVE FilesSpec => DatabaseIsWhole
  OBVIOUS
<1> DEFINE Complete == db' # None /\ (db = None \/ db'.id # db.id) => db'.health = "sound"
           Kept == db # None /\ db.health = "foreign" => db' = db
<1>1. CustodyInv => SidecarsMatch
  BY DEF CustodyInv, FilesInv
<1>2. CustodyInv /\ [FilesNext]_filesVars => [Complete /\ Kept]_filesVars
  <2> SUFFICES ASSUME CustodyInv, FilesNext, db' # db PROVE Complete /\ Kept
    BY DEF filesVars
  <2>1. ASSUME NEW s \in Stores, Publish(s) PROVE Complete /\ Kept
    BY <2>1 DEF CustodyInv, FilesInv, Cleared, BootPoints, Publish, Step, At
  <2>2. ASSUME NEW s \in Stores, Rename(s) PROVE Complete /\ Kept
    BY <2>2 DEF Rename, Owned
  <2>3. CASE Damage
    BY <2>3 DEF Damage
  <2> QED BY <2>1, <2>2, <2>3, ArrivesByPublish
<1>3. [Complete /\ Kept]_filesVars => [Complete]_filesVars /\ [Kept]_filesVars
  OBVIOUS
<1> QED BY <1>1, <1>2, CustodyInvariance, PTL DEF FilesSpec, DatabaseIsWhole, BornComplete,
           ForeignKept

=============================================================================
