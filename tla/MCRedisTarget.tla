---------------------------- MODULE MCRedisTarget ----------------------------
(* Instances of RedisTarget for TLC.                                       *)
EXTENDS RedisTarget, TLC

RequestSymmetry == Permutations(Requests)
=============================================================================
