------------------------------ MODULE CacheLock ------------------------------
(***************************************************************************)
(* The lifecycle region of the maintenance lock                            *)
(* (src/internal/cache/lock.go, lock_unix.go) for the stores of several    *)
(* processes.                                                              *)
(*                                                                         *)
(* A store takes an in-process guard first and then a POSIX record lock.   *)
(* The record lock belongs to the process: one store's unlock, or the      *)
(* closing of the descriptor, drops it for every store of the process.     *)
(*                                                                         *)
(* A definition whose comment says "Bug:" is a plausible mistake in the    *)
(* definition after it; no specification uses it.                          *)
(***************************************************************************)
EXTENDS Naturals, FiniteSets

CONSTANTS
    Stores,      \* the stores that are opened on the cache directory
    Processes,
    ProcessOf    \* the process a store lives in

ASSUME StoreAssumption == IsFiniteSet(Stores) /\ ProcessOf \in [Stores -> Processes]

VARIABLES
    opened,      \* the stores that count a reference to the lock file
    guard,       \* how a store holds its process's guard
    held,        \* l.held, how a store believes to hold the region
    posix        \* how the kernel says a process holds the region

lockVars == <<opened, guard, held, posix>>

Modes == {"none", "shared", "exclusive"}
Peers(s) == {t \in Stores \ {s} : ProcessOf[t] = ProcessOf[s]}

LockTypeOK ==
    /\ opened \subseteq Stores
    /\ guard \in [Stores -> Modes]
    /\ held \in [Stores -> Modes]
    /\ posix \in [Processes -> Modes]

LockInit ==
    /\ opened = {}
    /\ guard = [s \in Stores |-> "none"]
    /\ held = [s \in Stores |-> "none"]
    /\ posix = [p \in Processes |-> "none"]

\* The rule of the kernel and of the guard.  Bug: shared access bars nobody.
SharedBarsNobody(mode, other) == other # "exclusive"
Compatible(mode, other) == other = "none" \/ (mode = "shared" /\ other = "shared")

\* retainLockFile
RetainFile(s) ==
    /\ opened' = opened \cup {s}
    /\ UNCHANGED <<guard, held, posix>>

\* acquireGuard
GuardFree(s, mode) == \A t \in Peers(s) : Compatible(mode, guard[t])
TakeGuard(s, mode) ==
    /\ guard[s] = "none" /\ GuardFree(s, mode)
    /\ guard' = [guard EXCEPT ![s] = mode]
    /\ UNCHANGED <<opened, held, posix>>

\* lockRegion: a process never conflicts with itself, and its new mode replaces
\* the old one.  Bug: a wait that ran out counts as the lock.
TakenAnyway(s, mode) == TRUE
RegionFree(s, mode) ==
    \A p \in Processes \ {ProcessOf[s]} : Compatible(mode, posix[p])
LockRegion(s, mode) ==
    /\ guard[s] = mode /\ RegionFree(s, mode)
    /\ held' = [held EXCEPT ![s] = mode]
    /\ posix' = [posix EXCEPT ![ProcessOf[s]] = mode]
    /\ UNCHANGED <<opened, guard>>

\* release, also of a guard whose region stayed contended
ReleaseRegion(s) ==
    /\ posix' = [posix EXCEPT ![ProcessOf[s]] = IF held[s] = "none" THEN @ ELSE "none"]
    /\ held' = [held EXCEPT ![s] = "none"]
    /\ guard' = [guard EXCEPT ![s] = "none"]
    /\ UNCHANGED opened

\* close, with releaseLockFile: the last reference closes the descriptor.
CloseLock(s) ==
    /\ opened' = opened \ {s}
    /\ posix' = [posix EXCEPT ![ProcessOf[s]] =
                     IF held[s] = "none" /\ Peers(s) \cap opened # {} THEN @ ELSE "none"]
    /\ held' = [held EXCEPT ![s] = "none"]
    /\ guard' = [guard EXCEPT ![s] = "none"]

\* The kernel drops the locks of a process that ends.
DropLocks(p) ==
    /\ opened' = {s \in opened : ProcessOf[s] # p}
    /\ guard' = [s \in Stores |-> IF ProcessOf[s] = p THEN "none" ELSE guard[s]]
    /\ held' = [s \in Stores |-> IF ProcessOf[s] = p THEN "none" ELSE held[s]]
    /\ posix' = [posix EXCEPT ![p] = "none"]

\* No store holds the region beside one that holds it exclusively, in whichever
\* processes they live.
LocksExclude ==
    \A s, t \in Stores : s # t /\ held[s] = "exclusive" => held[t] = "none"
=============================================================================
