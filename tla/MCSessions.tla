----------------------------- MODULE MCSessions -----------------------------
(* Handlers and users are interchangeable; session ids are ordered.        *)
EXTENDS Sessions, TLC

CONSTANTS a, b

TwoSeeds == <<[email |-> a, role |-> "finance"], [email |-> b, role |-> "manager"]>>

Symmetry == Permutations(Handlers) \cup Permutations(UserIds)

=============================================================================
