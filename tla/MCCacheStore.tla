---------------------------- MODULE MCCacheStore ----------------------------
(***************************************************************************)
(* Small instances of CacheStore for TLC, and what a comment of the code   *)
(* says of the queue of invalid keys.                                      *)
(***************************************************************************)
EXTENDS CacheStore

CONSTANTS p1, p2, k1, k2

OneKey == <<k1>>
TwoKeys == <<k1, k2>>
MCPathsOf == [k \in Keys |-> IF k = k2 THEN 2 ELSE 1]

\* store.go:69-71: invalid "holds the exact keys of rows that failed their
\* invariants on read", and the next batch "deletes exactly these records first".
\* So a batch removes no usable, fresh record while no bound is above its target.
FreshSurvives ==
    [][\A k \in Stored : db'[k] = None => ~Usable(k) \/ Expired(k) \/ OverTarget({})]_vars
=============================================================================
