---------------------------- MODULE MCCacheFiles ----------------------------
(***************************************************************************)
(* Small instances of CacheFiles for TLC: two stores, each in a process of *)
(* its own, as the program opens them.                                     *)
(***************************************************************************)
EXTENDS CacheFiles

CONSTANTS s1, s2, p1, p2
OnePerProcess == [s \in Stores |-> IF s = s1 THEN p1 ELSE p2]
=============================================================================
