---------------------------- MODULE AtomicLedger ----------------------------
(***************************************************************************)
(* What the transactions promise together: every operation on the money    *)
(* tables happens at one instant or not at all, and what it checked holds  *)
(* at that instant.  There are no handlers, statements, locks or aborts    *)
(* here.  A review of a claim or of a payout does not look at the status,  *)
(* because no UPDATE of the code does at the time it takes effect.         *)
(***************************************************************************)
EXTENDS Integers

CONSTANTS Managers, Employees, Topups, Projects, Claims, Payouts, Amounts,
          OpeningBudget, OpeningReimburse, NoRow

VARIABLES managers, employees, topups, projects, claims, payouts

books == <<managers, employees, topups, projects, claims, payouts>>

Init ==
    /\ managers = [m \in Managers |->
                     [budget_available |-> OpeningBudget, budget_locked |-> 0]]
    /\ employees = [e \in Employees |->
                     [reimburse_available |-> OpeningReimburse,
                      reimburse_locked |-> 0]]
    /\ topups   = [t \in Topups |-> NoRow]
    /\ projects = [p \in Projects |-> NoRow]
    /\ claims   = [c \in Claims |-> NoRow]
    /\ payouts  = [y \in Payouts |-> NoRow]

-----------------------------------------------------------------------------
(* One row of a table changes some of its balances. *)

Budget(m, available, locked) ==
    managers' = [managers EXCEPT ![m].budget_available = @ + available,
                                 ![m].budget_locked = @ + locked]

Reimburse(e, available, locked) ==
    employees' = [employees EXCEPT ![e].reimburse_available = @ + available,
                                   ![e].reimburse_locked = @ + locked]

FileTopup(t, m, amount) ==
    /\ topups[t] = NoRow
    /\ topups' = [topups EXCEPT ![t] =
                    [manager |-> m, amount |-> amount, status |-> "pending"]]
    /\ UNCHANGED <<managers, employees, projects, claims, payouts>>

ApproveTopup(t) ==
    /\ topups[t] # NoRow
    /\ topups[t].status = "pending"
    /\ topups' = [topups EXCEPT ![t].status = "approved"]
    /\ Budget(topups[t].manager, topups[t].amount, 0)
    /\ UNCHANGED <<employees, projects, claims, payouts>>

RejectTopup(t) ==
    /\ topups[t] # NoRow
    /\ topups[t].status = "pending"
    /\ topups' = [topups EXCEPT ![t].status = "rejected"]
    /\ UNCHANGED <<managers, employees, projects, claims, payouts>>

OpenProject(p, m, total, amount) ==
    /\ projects[p] = NoRow
    /\ amount <= total
    /\ total <= managers[m].budget_available
    /\ Budget(m, -total, total)
    /\ projects' = [projects EXCEPT ![p] =
         [manager |-> m, claim_amount |-> amount, envelope_total |-> total,
          envelope_remaining |-> total, status |-> "open", deleted |-> FALSE]]
    /\ UNCHANGED <<employees, topups, claims, payouts>>

HideProject(p, hidden) ==
    /\ projects[p] # NoRow
    /\ projects' = [projects EXCEPT ![p].deleted = hidden]
    /\ UNCHANGED <<managers, employees, topups, claims, payouts>>

FileClaim(c, p, e) ==
    /\ claims[c] = NoRow
    /\ projects[p] # NoRow
    /\ \A d \in Claims : claims[d] # NoRow =>
         ~(claims[d].project = p /\ claims[d].employee = e)
    /\ claims' = [claims EXCEPT ![c] =
                    [project |-> p, employee |-> e, status |-> "pending"]]
    /\ UNCHANGED <<managers, employees, topups, projects, payouts>>

RejectClaim(c) ==
    /\ claims[c] # NoRow
    /\ claims' = [claims EXCEPT ![c].status = "rejected"]
    /\ UNCHANGED <<managers, employees, topups, projects, payouts>>

ApproveClaim(c) ==
    /\ claims[c] # NoRow
    /\ LET p == claims[c].project
           amount == projects[p].claim_amount
       IN  /\ ~projects[p].deleted
           /\ amount <= projects[p].envelope_remaining
           /\ amount <= managers[projects[p].manager].budget_locked
           /\ projects' = [projects EXCEPT ![p].envelope_remaining = @ - amount]
           /\ Budget(projects[p].manager, 0, -amount)
           /\ Reimburse(claims[c].employee, amount, 0)
    /\ claims' = [claims EXCEPT ![c].status = "approved"]
    /\ UNCHANGED <<topups, payouts>>

FilePayout(y, e, amount) ==
    /\ payouts[y] = NoRow
    /\ amount <= employees[e].reimburse_available
    /\ Reimburse(e, -amount, amount)
    /\ payouts' = [payouts EXCEPT ![y] =
                     [employee |-> e, amount |-> amount, status |-> "pending"]]
    /\ UNCHANGED <<managers, topups, projects, claims>>

CompletePayout(y) ==
    /\ payouts[y] # NoRow
    /\ payouts[y].amount <= employees[payouts[y].employee].reimburse_locked
    /\ Reimburse(payouts[y].employee, 0, -payouts[y].amount)
    /\ payouts' = [payouts EXCEPT ![y].status = "completed"]
    /\ UNCHANGED <<managers, topups, projects, claims>>

FailPayout(y) ==
    /\ payouts[y] # NoRow
    /\ payouts[y].amount <= employees[payouts[y].employee].reimburse_locked
    /\ Reimburse(payouts[y].employee, payouts[y].amount, -payouts[y].amount)
    /\ payouts' = [payouts EXCEPT ![y].status = "failed"]
    /\ UNCHANGED <<managers, topups, projects, claims>>

Next ==
    \/ \E t \in Topups, m \in Managers, a \in Amounts : FileTopup(t, m, a)
    \/ \E t \in Topups : ApproveTopup(t) \/ RejectTopup(t)
    \/ \E p \in Projects, m \in Managers, total, a \in Amounts :
         OpenProject(p, m, total, a)
    \/ \E p \in Projects, hidden \in BOOLEAN : HideProject(p, hidden)
    \/ \E c \in Claims, p \in Projects, e \in Employees : FileClaim(c, p, e)
    \/ \E c \in Claims : ApproveClaim(c) \/ RejectClaim(c)
    \/ \E y \in Payouts, e \in Employees, a \in Amounts : FilePayout(y, e, a)
    \/ \E y \in Payouts : CompletePayout(y) \/ FailPayout(y)

Spec == Init /\ [][Next]_books

=============================================================================
