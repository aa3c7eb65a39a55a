---------------------------- MODULE ClaimUsecase ----------------------------
(***************************************************************************)
(* Expense claims: an employee claims a project's fixed claim_amount once; *)
(* finance or the project's manager rejects the claim, or approves it and  *)
(* so moves the amount from the envelope to the employee.  The reviewer    *)
(* reads the claim before the transaction; the UPDATE of its status has no *)
(* WHERE clause beside the id.                                             *)
(***************************************************************************)
EXTENDS Tables

ClaimCreations == [project : Projects, employee : Employees]
ClaimReviews == [caller : Callers, claim : Claims,
                 status : {"approved", "rejected"}]

CreateClaimSteps  == {"ClaimExists", "ClaimCreate"}
ApproveClaimSteps == {"DecrementEnvelope", "DecrementLocked", "CreditEmployee",
                      "ClaimUpdateStatus", "ClaimCommit"}
ReviewClaimSteps  == {"ClaimFindProject", "ClaimReject"} \cup ApproveClaimSteps
ClaimSteps == CreateClaimSteps \cup ReviewClaimSteps

CreateClaim(h, e, p) ==
    /\ projects[p] # NoRow
    /\ ~projects[p].deleted
    /\ projects[p].status = "open"
    /\ Begin(h, [project |-> p, employee |-> e], "ClaimExists")

HasClaim(p, e) ==
    \E c \in Claims : /\ claims[c] # NoRow
                      /\ claims[c].project = p
                      /\ claims[c].employee = e

ClaimExists(h) ==
    /\ pc[h] = "ClaimExists"
    /\ IF HasClaim(req[h].project, req[h].employee)
         THEN Rollback(h)                          \* ErrDuplicateClaim
         ELSE /\ pc' = [pc EXCEPT ![h] = "ClaimCreate"]
              /\ UNCHANGED <<tables, held, req>>

(* Fault: the table has no UNIQUE constraint. *)
ClaimMayRepeat(p, e) == TRUE

(* UNIQUE (project_id, employee_id) *)
ClaimIsUnique(p, e) == ~HasClaim(p, e)

ClaimCreate(h) ==
    /\ pc[h] = "ClaimCreate"
    /\ \/ /\ ClaimIsUnique(req[h].project, req[h].employee)
          /\ \E c \in Claims :
               /\ claims[c] = NoRow
               /\ claims' = [claims EXCEPT ![c] =
                    [project |-> req[h].project, employee |-> req[h].employee,
                     status |-> "pending"]]
          /\ Return(h)
          /\ UNCHANGED <<managers, employees, topups, projects, payouts>>
       \/ /\ ~ClaimIsUnique(req[h].project, req[h].employee)
          /\ Rollback(h)

-----------------------------------------------------------------------------

ReviewClaim(h, caller, c, status) ==
    /\ claims[c] # NoRow
    /\ claims[c].status = "pending"
    /\ Begin(h, [caller |-> caller, claim |-> c, status |-> status],
             "ClaimFindProject")

ProjectOf(h) == claims[req[h].claim].project
ManagerOf(h) == projects[ProjectOf(h)].manager
AmountOf(h)  == projects[ProjectOf(h)].claim_amount

(* A manager may review the claims of the own projects only. *)
MayReview(caller, manager) == caller \in Managers => caller = manager

(* Fault: every decision takes the branch of a rejection.                  *)
ClaimFindProjectRejects(h) ==
    /\ pc[h] = "ClaimFindProject"
    /\ IF projects[ProjectOf(h)].deleted \/ ~MayReview(req[h].caller, ManagerOf(h))
         THEN Rollback(h)
         ELSE /\ pc' = [pc EXCEPT ![h] = "ClaimReject"]
              /\ UNCHANGED <<tables, held, req>>

ClaimFindProject(h) ==
    /\ pc[h] = "ClaimFindProject"
    /\ IF projects[ProjectOf(h)].deleted \/ ~MayReview(req[h].caller, ManagerOf(h))
         THEN Rollback(h)
         ELSE /\ pc' = [pc EXCEPT ![h] =
                   IF req[h].status = "rejected" THEN "ClaimReject"
                                                 ELSE "DecrementEnvelope"]
              /\ UNCHANGED <<tables, held, req>>

ClaimReject(h) ==
    /\ pc[h] = "ClaimReject"
    /\ LET c == req[h].claim IN
         /\ ~Locked(h, <<"expense_claims", c>>)
         /\ claims' = [claims EXCEPT ![c].status = "rejected"]
    /\ Return(h)
    /\ UNCHANGED <<managers, employees, topups, projects, payouts>>

(* Fault: the WHERE clause does not look at deleted_at. *)
EnvelopeSufficesDeletedToo(p, amount) == projects[p].envelope_remaining >= amount

(* The WHERE clause of DecrementEnvelope beside the id. *)
EnvelopeSuffices(p, amount) ==
    projects[p].envelope_remaining >= amount /\ ~projects[p].deleted

DecrementEnvelope(h) ==
    /\ pc[h] = "DecrementEnvelope"
    /\ Update(h, <<"projects", ProjectOf(h)>>,
              EnvelopeSuffices(ProjectOf(h), AmountOf(h)), "DecrementLocked")

DecrementLocked(h) ==
    /\ pc[h] = "DecrementLocked"
    /\ Update(h, <<"managers", ManagerOf(h)>>,
              managers[ManagerOf(h)].budget_locked >= AmountOf(h),
              "CreditEmployee")

CreditEmployee(h) ==
    /\ pc[h] = "CreditEmployee"
    /\ Update(h, <<"employees", claims[req[h].claim].employee>>, TRUE,
              "ClaimUpdateStatus")

ClaimUpdateStatus(h) ==
    /\ pc[h] = "ClaimUpdateStatus"
    /\ Update(h, <<"expense_claims", req[h].claim>>, TRUE, "ClaimCommit")

(* Fault: the approval does not take the amount out of the envelope. *)
ClaimCommitUnfunded(h) ==
    /\ pc[h] = "ClaimCommit"
    /\ managers' = [managers EXCEPT
                      ![ManagerOf(h)].budget_locked = @ - AmountOf(h)]
    /\ employees' = [employees EXCEPT
                       ![claims[req[h].claim].employee].reimburse_available =
                         @ + AmountOf(h)]
    /\ claims' = [claims EXCEPT ![req[h].claim].status = "approved"]
    /\ Return(h)
    /\ UNCHANGED <<projects, topups, payouts>>

ClaimCommit(h) ==
    /\ pc[h] = "ClaimCommit"
    /\ projects' = [projects EXCEPT
                      ![ProjectOf(h)].envelope_remaining = @ - AmountOf(h)]
    /\ managers' = [managers EXCEPT
                      ![ManagerOf(h)].budget_locked = @ - AmountOf(h)]
    /\ employees' = [employees EXCEPT
                       ![claims[req[h].claim].employee].reimburse_available =
                         @ + AmountOf(h)]
    /\ claims' = [claims EXCEPT ![req[h].claim].status = "approved"]
    /\ Return(h)
    /\ UNCHANGED <<topups, payouts>>

ClaimNext(h) ==
    \/ ClaimExists(h)
    \/ ClaimCreate(h)
    \/ ClaimFindProject(h)
    \/ ClaimReject(h)
    \/ DecrementEnvelope(h)
    \/ DecrementLocked(h)
    \/ CreditEmployee(h)
    \/ ClaimUpdateStatus(h)
    \/ ClaimCommit(h)

=============================================================================
