--------------------------- MODULE ProjectUsecase ---------------------------
(***************************************************************************)
(* Projects: a manager moves budget into a new project's envelope, and may *)
(* soft-delete and restore the project.  Deleting moves no money back.     *)
(***************************************************************************)
EXTENDS Tables

ProjectCreations == [manager : Managers, project : Projects,
                     envelope_total : Amounts, claim_amount : Amounts]
ProjectTargets == [project : Projects]

CreateProjectSteps == {"LockEnvelope", "ProjectCommit"}
ProjectSteps == CreateProjectSteps \cup {"ProjectDelete", "ProjectRestore"}

(* The new row's id comes from a sequence: no other request has it. *)
FreshProject(p) ==
    /\ projects[p] = NoRow
    /\ \A g \in Handlers : pc[g] \in CreateProjectSteps => req[g].project # p

CreateProject(h, m, p, total, amount) ==
    /\ amount <= total
    /\ FreshProject(p)
    /\ Begin(h, [manager |-> m, project |-> p,
                 envelope_total |-> total, claim_amount |-> amount],
             "LockEnvelope")

(* The WHERE clause of LockEnvelope beside the user id. *)
BudgetSuffices(m, total) == managers[m].budget_available >= total

(* Fault: the balance is read and compared in Go, and no row is locked. *)
LockEnvelopeByReading(h) ==
    /\ pc[h] = "LockEnvelope"
    /\ BudgetSuffices(req[h].manager, req[h].envelope_total)
    /\ pc' = [pc EXCEPT ![h] = "ProjectCommit"]
    /\ UNCHANGED <<tables, held, req>>

LockEnvelope(h) ==
    /\ pc[h] = "LockEnvelope"
    /\ LET m == req[h].manager IN
         Update(h, <<"managers", m>>, BudgetSuffices(m, req[h].envelope_total),
                "ProjectCommit")

ProjectCommit(h) ==
    /\ pc[h] = "ProjectCommit"
    /\ LET r == req[h] IN
         /\ managers' = [managers EXCEPT
              ![r.manager].budget_available = @ - r.envelope_total,
              ![r.manager].budget_locked    = @ + r.envelope_total]
         /\ projects' = [projects EXCEPT ![r.project] =
              [manager |-> r.manager, claim_amount |-> r.claim_amount,
               envelope_total |-> r.envelope_total,
               envelope_remaining |-> r.envelope_total,
               status |-> "open", deleted |-> FALSE]]
    /\ Return(h)
    /\ UNCHANGED <<employees, topups, claims, payouts>>

-----------------------------------------------------------------------------

DeleteProject(h, m, p) ==
    /\ projects[p] # NoRow
    /\ ~projects[p].deleted
    /\ projects[p].manager = m
    /\ Begin(h, [project |-> p], "ProjectDelete")

RestoreProject(h, m, p) ==
    /\ projects[p] # NoRow
    /\ projects[p].manager = m
    /\ Begin(h, [project |-> p], "ProjectRestore")

(* One UPDATE, committed by itself, of deleted_at and nothing else. *)
SetDeleted(h, p, deleted) ==
    /\ ~Locked(h, <<"projects", p>>)
    /\ projects' = [projects EXCEPT ![p].deleted = deleted]
    /\ Return(h)
    /\ UNCHANGED <<managers, employees, topups, claims, payouts>>

ProjectDelete(h) ==
    pc[h] = "ProjectDelete" /\ SetDeleted(h, req[h].project, TRUE)

ProjectRestore(h) ==
    pc[h] = "ProjectRestore" /\ SetDeleted(h, req[h].project, FALSE)

ProjectNext(h) ==
    \/ LockEnvelope(h)
    \/ ProjectCommit(h)
    \/ ProjectDelete(h)
    \/ ProjectRestore(h)

=============================================================================
