---------------------------- MODULE MCAuthLockout ----------------------------
(* Instances of AuthLockout for TLC.                                       *)
EXTENDS AuthLockout, TLC

Symmetry == Permutations(Handlers) \cup Permutations(Ips)
=============================================================================
