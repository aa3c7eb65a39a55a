---------------------------- MODULE MCRateLimiter ----------------------------
(* Concurrent requests of an address, and its limiters, are interchangeable. *)
EXTENDS RateLimiter, TLC

Symmetry == Permutations(Handlers) \cup Permutations(Limiters)

=============================================================================
