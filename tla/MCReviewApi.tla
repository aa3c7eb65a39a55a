----------------------------- MODULE MCReviewApi -----------------------------
(* One user of the finance role approves with a key, while every other     *)
(* kind of request, rejections too, comes without.  No symmetry: the run   *)
(* checks liveness.                                                        *)
EXTENDS ReviewApi, TLC

CONSTANT finance

Reviewers == {<<finance, TRUE>>}

=============================================================================
