------------------------- MODULE MCCacheConnection -------------------------
(* A small instance of CacheConnection for TLC. *)
EXTENDS CacheConnection, TLC

CONSTANTS t1, t2, t3, k1, k2, v1, v2
=============================================================================
