---------------------------- MODULE TopupUsecase ----------------------------
(***************************************************************************)
(* Budget top-ups: a manager asks for budget, finance approves or rejects. *)
(* The review reads the row outside the transaction and guards the UPDATE  *)
(* inside it with status = 'pending'.                                      *)
(***************************************************************************)
EXTENDS Tables

TopupReviews == [topup : Topups, status : {"approved", "rejected"}]

TopupSteps == {"TopupUpdateStatus", "TopupIncrementAvailable", "TopupCommit"}

CreateTopup(m, t, amount) ==
    /\ topups[t] = NoRow
    /\ topups' = [topups EXCEPT ![t] =
                    [manager |-> m, amount |-> amount, status |-> "pending"]]
    /\ UNCHANGED <<managers, employees, projects, claims, payouts, held, pc, req>>

ReviewTopup(h, t, status) ==
    /\ topups[t] # NoRow
    /\ topups[t].status = "pending"
    /\ Begin(h, [topup |-> t, status |-> status], "TopupUpdateStatus")

(* Fault: UPDATE ... WHERE id = ? without the idempotent guard. *)
TopupUnguarded(t) == TRUE

(* The WHERE clause of UpdateStatus beside the id. *)
TopupIsPending(t) == topups[t].status = "pending"

TopupUpdateStatus(h) ==
    /\ pc[h] = "TopupUpdateStatus"
    /\ LET t == req[h].topup IN
         Update(h, <<"budget_topups", t>>, TopupIsPending(t),
                IF req[h].status = "approved" THEN "TopupIncrementAvailable"
                                              ELSE "TopupCommit")

TopupIncrementAvailable(h) ==
    /\ pc[h] = "TopupIncrementAvailable"
    /\ Update(h, <<"managers", topups[req[h].topup].manager>>, TRUE, "TopupCommit")

(* Fault: the credit is not conditional on the decision. *)
TopupAlwaysCredits(t, status) == topups[t].amount

(* What the manager's budget_available gains when the review commits. *)
TopupCredit(t, status) == IF status = "approved" THEN topups[t].amount ELSE 0

TopupCommit(h) ==
    /\ pc[h] = "TopupCommit"
    /\ LET t == req[h].topup
           m == topups[t].manager
       IN  /\ topups' = [topups EXCEPT ![t].status = req[h].status]
           /\ managers' = [managers EXCEPT ![m].budget_available =
                             @ + TopupCredit(t, req[h].status)]
    /\ Return(h)
    /\ UNCHANGED <<employees, projects, claims, payouts>>

TopupNext(h) ==
    \/ TopupUpdateStatus(h)
    \/ TopupIncrementAvailable(h)
    \/ TopupCommit(h)

=============================================================================
