------------------------------ MODULE MCListing ------------------------------
(* No filter, or one that leaves a single project out.  The projects are   *)
(* interchangeable: their order is that of created_at and of remaining.    *)
EXTENDS Listing, TLC

SomeFilters == {Projects} \cup {Projects \ {p} : p \in Projects}

Symmetry == Permutations(Projects)

=============================================================================
