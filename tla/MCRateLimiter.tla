---------------------------- MODULE MCRateLimiter ------------------------------
(***************************************************************************)
(* RateLimiter on small instances.                                         *)
(***************************************************************************)
EXTENDS RateLimiter, TLC

SymmetricCallers == Permutations(Caller)
===============================================================================
