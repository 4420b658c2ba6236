---------------------------- MODULE MCRedisLock ----------------------------
(* RedisLock for TLC.  No symmetry: the run checks a liveness property. *)
EXTENDS RedisLock
=============================================================================
