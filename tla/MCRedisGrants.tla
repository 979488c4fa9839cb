---------------------------- MODULE MCRedisGrants ----------------------------
(* An instance of RedisGrants for TLC.  Without symmetry, for the liveness  *)
(* property.                                                                *)
EXTENDS RedisGrants
=============================================================================
