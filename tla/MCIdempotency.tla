--------------------------- MODULE MCIdempotency ---------------------------
(* Handlers and clients are interchangeable; so are the rows of one kind.  *)
EXTENDS KeyHistory, TLC

Symmetry == Permutations(Handlers) \cup Permutations(Clients)

=============================================================================
