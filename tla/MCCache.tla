------------------------------ MODULE MCCache ------------------------------
(***************************************************************************)
(* Instances of Cache for TLC: a counter, a read-through entry and an      *)
(* entry that serves as a lock and is touched, in a cache for two entries. *)
(***************************************************************************)
EXTENDS Cache, TLC

CONSTANTS t1, t2, hits, page, lock

MCOps == [k \in Keys |->
    CASE k = hits -> {"set", "get", "incr", "delete"}
      [] k = page -> {"getOrSet", "delete"}
      [] k = lock -> {"add", "touch", "delete"}]
=============================================================================
