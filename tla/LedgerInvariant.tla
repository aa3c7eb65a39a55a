--------------------------- MODULE LedgerInvariant ---------------------------
(***************************************************************************)
(* Why the transactions of Ledger are atomic: the locks a handler holds    *)
(* are determined by the statement it is at, and under those locks every   *)
(* condition an earlier statement or the checks before the transaction     *)
(* established still holds.  IInv is inductive; LedgerProofs proves it.    *)
(***************************************************************************)
EXTENDS Ledger

TopupReviewFits(h) ==
    LET t == req[h].topup
        row == <<"budget_topups", t>>
    IN  /\ topups[t] # NoRow
        /\ pc[h] = "TopupUpdateStatus" => held[h] = {}
        /\ pc[h] = "TopupIncrementAvailable" =>
             held[h] = {row} /\ TopupIsPending(t) /\ req[h].status = "approved"
        /\ pc[h] = "TopupCommit" =>
             /\ TopupIsPending(t)
             /\ req[h].status = "approved" =>
                  held[h] = {row, <<"managers", topups[t].manager>>}
             /\ req[h].status = "rejected" => held[h] = {row}

ProjectCreationFits(h) ==
    LET r == req[h] IN
      /\ projects[r.project] = NoRow
      /\ r.claim_amount <= r.envelope_total
      /\ pc[h] = "LockEnvelope" => held[h] = {}
      /\ pc[h] = "ProjectCommit" =>
           held[h] = {<<"managers", r.manager>>} /\ BudgetSuffices(r.manager, r.envelope_total)

ProjectTargetFits(h) == projects[req[h].project] # NoRow /\ held[h] = {}

ClaimCreationFits(h) == projects[req[h].project] # NoRow /\ held[h] = {}

ClaimReviewFits(h) ==
    LET project  == <<"projects", ProjectOf(h)>>
        manager  == <<"managers", ManagerOf(h)>>
        employee == <<"employees", claims[req[h].claim].employee>>
        claim    == <<"expense_claims", req[h].claim>>
    IN  /\ claims[req[h].claim] # NoRow
        /\ pc[h] \in {"ClaimFindProject", "ClaimReject", "DecrementEnvelope"} =>
             held[h] = {}
        /\ pc[h] \in ApproveClaimSteps => req[h].status = "approved"
        /\ pc[h] \in ApproveClaimSteps \ {"DecrementEnvelope"} =>
             EnvelopeSuffices(ProjectOf(h), AmountOf(h))
        /\ pc[h] \in ApproveClaimSteps \ {"DecrementEnvelope", "DecrementLocked"} =>
             managers[ManagerOf(h)].budget_locked >= AmountOf(h)
        /\ pc[h] = "DecrementLocked" => held[h] = {project}
        /\ pc[h] = "CreditEmployee" => held[h] = {project, manager}
        /\ pc[h] = "ClaimUpdateStatus" => held[h] = {project, manager, employee}
        /\ pc[h] = "ClaimCommit" => held[h] = {project, manager, employee, claim}

PayoutCreationFits(h) ==
    LET r == req[h] IN
      /\ payouts[r.payout] = NoRow
      /\ pc[h] = "LockForPayout" => held[h] = {}
      /\ pc[h] = "PayoutCreateCommit" =>
           held[h] = {<<"employees", r.employee>>} /\ BalanceSuffices(r.employee, r.amount)

PayoutReviewFits(h) ==
    LET employee == <<"employees", PaidEmployee(h)>>
        payout   == <<"payouts", req[h].payout>>
    IN  /\ payouts[req[h].payout] # NoRow
        /\ pc[h] = "PayoutSettle" => held[h] = {}
        /\ pc[h] \in {"PayoutUpdateReview", "PayoutCommit"} =>
             LockedSuffices(PaidEmployee(h), PaidAmount(h))
        /\ pc[h] = "PayoutUpdateReview" => held[h] = {employee}
        /\ pc[h] = "PayoutCommit" => held[h] = {employee, payout}

HandlerFits(h) ==
    /\ pc[h] = "idle" => held[h] = {}
    /\ pc[h] \in TopupSteps => TopupReviewFits(h)
    /\ pc[h] \in CreateProjectSteps => ProjectCreationFits(h)
    /\ pc[h] \in {"ProjectDelete", "ProjectRestore"} => ProjectTargetFits(h)
    /\ pc[h] \in CreateClaimSteps => ClaimCreationFits(h)
    /\ pc[h] \in ReviewClaimSteps => ClaimReviewFits(h)
    /\ pc[h] \in CreatePayoutSteps => PayoutCreationFits(h)
    /\ pc[h] \in ReviewPayoutSteps => PayoutReviewFits(h)

(* A claim is on a project that exists (deletion is soft).                 *)
ClaimsHaveProjects ==
    \A c \in Claims : claims[c] # NoRow => projects[claims[c].project] # NoRow

(* Two handlers never insert under the same id.                            *)
FreshIdsDiffer ==
    \A g, h \in Handlers : g # h =>
      /\ (pc[g] \in CreateProjectSteps /\ pc[h] \in CreateProjectSteps)
           => req[g].project # req[h].project
      /\ (pc[g] \in CreatePayoutSteps /\ pc[h] \in CreatePayoutSteps)
           => req[g].payout # req[h].payout

(* At every statement a handler holds exactly the row locks its earlier    *)
(* statements took, no two handlers hold the same row, and what the        *)
(* handler checked before still holds.                                     *)
IInv ==
    /\ TypeOK
    /\ LockExclusion
    /\ ClaimsHaveProjects
    /\ FreshIdsDiffer
    /\ \A h \in Handlers : HandlerFits(h)

=============================================================================
