--------------------------- MODULE MCPaymentHistory ---------------------------
(* Finance and the project's manager approve with keys of their own, while *)
(* every other kind of request, other approvals and the rejections among   *)
(* them, comes without a key.                                              *)
EXTENDS PaymentHistory, TLC

CONSTANT finance

Reviewers == Callers \X {TRUE}

Symmetry ==
    Permutations(Handlers) \cup Permutations(Employees) \cup Permutations(Claims)

=============================================================================
