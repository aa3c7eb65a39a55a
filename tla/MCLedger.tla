------------------------------ MODULE MCLedger ------------------------------
(* The instances TLC checks.  Handlers, employees and the row ids of the   *)
(* tables are interchangeable; the two managers are too.                   *)
EXTENDS LedgerInvariant, TLC

Symmetry ==
    Permutations(Handlers) \cup Permutations(Managers)
    \cup Permutations(Employees) \cup Permutations(Topups)
    \cup Permutations(Projects) \cup Permutations(Claims)
    \cup Permutations(Payouts)

=============================================================================
