---------------------------- MODULE MCRateLimiter ----------------------------
(***************************************************************************)
(* Constants for model checking RateLimiter.                               *)
(***************************************************************************)
EXTENDS RateLimiter, TLC

\* The handlers are interchangeable.
Handlers == Permutations(Request)

==============================================================================
