--------------------------- MODULE PayoutUsecase ----------------------------
(***************************************************************************)
(* Payouts: an employee sets available money aside, and finance completes  *)
(* the payout (the money leaves) or fails it (the money becomes available  *)
(* again).  The review reads the status before the transaction; no UPDATE  *)
(* inside looks at it again.                                               *)
(***************************************************************************)
EXTENDS Tables

PayoutCreations == [employee : Employees, payout : Payouts, amount : Amounts]
PayoutReviews   == [payout : Payouts, status : {"completed", "failed"}]

CreatePayoutSteps == {"LockForPayout", "PayoutCreateCommit"}
ReviewPayoutSteps == {"PayoutSettle", "PayoutUpdateReview", "PayoutCommit"}
PayoutSteps == CreatePayoutSteps \cup ReviewPayoutSteps

(* The new row's id comes from a sequence: no other request has it. *)
FreshPayout(y) ==
    /\ payouts[y] = NoRow
    /\ \A g \in Handlers : pc[g] \in CreatePayoutSteps => req[g].payout # y

CreatePayout(h, e, y, amount) ==
    /\ FreshPayout(y)
    /\ Begin(h, [employee |-> e, payout |-> y, amount |-> amount],
             "LockForPayout")

(* Fault: the balance is not part of the WHERE clause. *)
BalanceUnchecked(e, amount) == TRUE

(* The WHERE clause of LockForPayout beside the user id. *)
BalanceSuffices(e, amount) == employees[e].reimburse_available >= amount

LockForPayout(h) ==
    /\ pc[h] = "LockForPayout"
    /\ LET e == req[h].employee IN
         Update(h, <<"employees", e>>, BalanceSuffices(e, req[h].amount),
                "PayoutCreateCommit")

PayoutCreateCommit(h) ==
    /\ pc[h] = "PayoutCreateCommit"
    /\ LET r == req[h] IN
         /\ employees' = [employees EXCEPT
              ![r.employee].reimburse_available = @ - r.amount,
              ![r.employee].reimburse_locked    = @ + r.amount]
         /\ payouts' = [payouts EXCEPT ![r.payout] =
              [employee |-> r.employee, amount |-> r.amount,
               status |-> "pending"]]
    /\ Return(h)
    /\ UNCHANGED <<managers, topups, projects, claims>>

-----------------------------------------------------------------------------

ReviewPayout(h, y, status) ==
    /\ payouts[y] # NoRow
    /\ payouts[y].status = "pending"
    /\ Begin(h, [payout |-> y, status |-> status], "PayoutSettle")

PaidEmployee(h) == payouts[req[h].payout].employee
PaidAmount(h)   == payouts[req[h].payout].amount

(* ConsumeLockedPayout and ReleaseLockedPayout have the same WHERE clause. *)
LockedSuffices(e, amount) == employees[e].reimburse_locked >= amount

(* Fault: the failed branch updates the payout row before the employee's. *)
PayoutSettleReversed(h) ==
    /\ pc[h] = "PayoutSettle"
    /\ IF req[h].status = "failed" /\ <<"payouts", req[h].payout>> \notin held[h]
         THEN Update(h, <<"payouts", req[h].payout>>, TRUE, "PayoutSettle")
         ELSE Update(h, <<"employees", PaidEmployee(h)>>,
                     LockedSuffices(PaidEmployee(h), PaidAmount(h)),
                     "PayoutUpdateReview")

PayoutSettle(h) ==
    /\ pc[h] = "PayoutSettle"
    /\ Update(h, <<"employees", PaidEmployee(h)>>,
              LockedSuffices(PaidEmployee(h), PaidAmount(h)),
              "PayoutUpdateReview")

PayoutUpdateReview(h) ==
    /\ pc[h] = "PayoutUpdateReview"
    /\ Update(h, <<"payouts", req[h].payout>>, TRUE, "PayoutCommit")

(* Fault: both decisions make the money available again. *)
AlwaysReleased(h) == PaidAmount(h)

(* A failed payout releases the money, a completed one has consumed it. *)
Released(h) == IF req[h].status = "failed" THEN PaidAmount(h) ELSE 0

(* Fault: a failed payout only credits the employee. *)
PayoutCommitLocked(h) ==
    /\ pc[h] = "PayoutCommit"
    /\ employees' = [employees EXCEPT
         ![PaidEmployee(h)].reimburse_locked    = @ - (PaidAmount(h) - Released(h)),
         ![PaidEmployee(h)].reimburse_available = @ + Released(h)]
    /\ payouts' = [payouts EXCEPT ![req[h].payout].status = req[h].status]
    /\ Return(h)
    /\ UNCHANGED <<managers, topups, projects, claims>>

PayoutCommit(h) ==
    /\ pc[h] = "PayoutCommit"
    /\ employees' = [employees EXCEPT
         ![PaidEmployee(h)].reimburse_locked    = @ - PaidAmount(h),
         ![PaidEmployee(h)].reimburse_available = @ + Released(h)]
    /\ payouts' = [payouts EXCEPT ![req[h].payout].status = req[h].status]
    /\ Return(h)
    /\ UNCHANGED <<managers, topups, projects, claims>>

PayoutNext(h) ==
    \/ LockForPayout(h)
    \/ PayoutCreateCommit(h)
    \/ PayoutSettle(h)
    \/ PayoutUpdateReview(h)
    \/ PayoutCommit(h)

=============================================================================
