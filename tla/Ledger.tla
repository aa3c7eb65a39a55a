------------------------------- MODULE Ledger -------------------------------
(***************************************************************************)
(* The server's money operations together: every usecase's handlers run    *)
(* concurrently on the same tables.  Any handler may be cut off before its *)
(* commit (Abort), which is also how a crash of the server looks to the    *)
(* tables.                                                                 *)
(***************************************************************************)
EXTENDS TopupUsecase, ProjectUsecase, ClaimUsecase, PayoutUsecase, Functions

Init == TablesInit

(* A request arrives and passes the checks that precede its transaction. *)
Request(h) ==
    \/ \E t \in Topups, s \in {"approved", "rejected"} : ReviewTopup(h, t, s)
    \/ \E m \in Managers, p \in Projects, total, amount \in Amounts :
         CreateProject(h, m, p, total, amount)
    \/ \E m \in Managers, p \in Projects : DeleteProject(h, m, p)
    \/ \E m \in Managers, p \in Projects : RestoreProject(h, m, p)
    \/ \E e \in Employees, p \in Projects : CreateClaim(h, e, p)
    \/ \E u \in Callers, c \in Claims, s \in {"approved", "rejected"} :
         ReviewClaim(h, u, c, s)
    \/ \E e \in Employees, y \in Payouts, amount \in Amounts :
         CreatePayout(h, e, y, amount)
    \/ \E y \in Payouts, s \in {"completed", "failed"} : ReviewPayout(h, y, s)

(* The handler's next statement. *)
Step(h) == TopupNext(h) \/ ProjectNext(h) \/ ClaimNext(h) \/ PayoutNext(h)

Next ==
    \/ \E m \in Managers, t \in Topups, amount \in Amounts : CreateTopup(m, t, amount)
    \/ \E h \in Handlers : Request(h)
    \/ \E h \in Handlers : Step(h)
    \/ \E h \in Handlers : Abort(h)

Spec == Init /\ [][Next]_vars

-----------------------------------------------------------------------------
(* Types: the tables hold rows of their shape, a lock is on a row of the   *)
(* schema, and the request a handler serves fits the statement it is at.   *)

RequestFits(h) ==
    /\ pc[h] = "idle" => req[h] = NoRequest
    /\ pc[h] \in TopupSteps => req[h] \in TopupReviews
    /\ pc[h] \in CreateProjectSteps => req[h] \in ProjectCreations
    /\ pc[h] \in {"ProjectDelete", "ProjectRestore"} => req[h] \in ProjectTargets
    /\ pc[h] \in CreateClaimSteps => req[h] \in ClaimCreations
    /\ pc[h] \in ReviewClaimSteps => req[h] \in ClaimReviews
    /\ pc[h] \in CreatePayoutSteps => req[h] \in PayoutCreations
    /\ pc[h] \in ReviewPayoutSteps => req[h] \in PayoutReviews

Requests ==
    TopupReviews \cup ProjectCreations \cup ProjectTargets \cup ClaimCreations
    \cup ClaimReviews \cup PayoutCreations \cup PayoutReviews

Steps == TopupSteps \cup ProjectSteps \cup ClaimSteps \cup PayoutSteps

TablesTypeOK ==
    /\ managers \in [Managers -> ManagerRow]
    /\ employees \in [Employees -> EmployeeRow]
    /\ topups \in [Topups -> TopupRow \cup {NoRow}]
    /\ projects \in [Projects -> ProjectRow \cup {NoRow}]
    /\ claims \in [Claims -> ClaimRow \cup {NoRow}]
    /\ payouts \in [Payouts -> PayoutRow \cup {NoRow}]

(* Every table holds rows of its type and no balance is ever negative (the *)
(* CHECK (... >= 0) constraints of the migrations never fire), and every   *)
(* handler serves a request that fits the statement it is at.              *)
TypeOK ==
    /\ TablesTypeOK
    /\ held \in [Handlers -> SUBSET Rows]
    /\ pc \in [Handlers -> Steps \cup {"idle"}]
    /\ req \in [Handlers -> Requests \cup {NoRequest}]
    /\ \A h \in Handlers : RequestFits(h)

-----------------------------------------------------------------------------
(* What the balances must add up to. *)

ProjectsOf(m) == {p \in Projects : projects[p] # NoRow /\ projects[p].manager = m}
ApprovedTopupsOf(m) ==
    {t \in Topups : /\ topups[t] # NoRow
                    /\ topups[t].manager = m
                    /\ topups[t].status = "approved"}
ApprovedClaimsOf(p) ==
    {c \in Claims : /\ claims[c] # NoRow
                    /\ claims[c].project = p
                    /\ claims[c].status = "approved"}
PayoutsIn(status) == {y \in Payouts : payouts[y] # NoRow /\ payouts[y].status = status}

EnvelopeTotal(p)     == projects[p].envelope_total
EnvelopeRemaining(p) == projects[p].envelope_remaining
Spent(p)             == EnvelopeTotal(p) - EnvelopeRemaining(p)
TopupAmount(t)       == topups[t].amount
PayoutAmount(y)      == payouts[y].amount
Holding(e)           == employees[e].reimburse_available + employees[e].reimburse_locked

(* The terms of the sums: what each of a manager's projects was given and  *)
(* still has, each approved top-up granted, each employee has, each        *)
(* completed payout paid and each project has given out.                   *)
Envelopes(m)  == [p \in ProjectsOf(m) |-> EnvelopeTotal(p)]
Remainders(m) == [p \in ProjectsOf(m) |-> EnvelopeRemaining(p)]
Grants(m)     == [t \in ApprovedTopupsOf(m) |-> TopupAmount(t)]
Holdings      == [e \in Employees |-> Holding(e)]
PaidOut       == [y \in PayoutsIn("completed") |-> PayoutAmount(y)]
GivenOut      == [p \in {q \in Projects : projects[q] # NoRow} |-> Spent(p)]

PendingOf(e)  == {y \in PayoutsIn("pending") : payouts[y].employee = e}
Aside(e)      == [y \in PendingOf(e) |-> PayoutAmount(y)]

(* The budget a manager was granted is available or in the envelope of one *)
(* of the manager's projects, whatever top-up reviews, project creations   *)
(* and claim reviews run at the same time: none of it is lost or doubled.  *)
BudgetAccounted ==
    \A m \in Managers :
      managers[m].budget_available + SumFunction(Envelopes(m))
        = OpeningBudget + SumFunction(Grants(m))

(* A manager's budget_locked is what is left in the envelopes of the       *)
(* manager's projects, deleted ones included: DecrementEnvelope and        *)
(* DecrementLocked, two statements on two tables, never drift apart.       *)
EnvelopesBacked ==
    \A m \in Managers : managers[m].budget_locked = SumFunction(Remainders(m))

(* Employees never hold, and have never been paid, more than they started  *)
(* with and the envelopes released: no order of reviews, repeated ones     *)
(* included, creates money.                                                *)
ReimbursementsBacked ==
    SumFunction(Holdings) + SumFunction(PaidOut)
      <= Cardinality(Employees) * OpeningReimburse + SumFunction(GivenOut)

(* Nothing stays locked of an employee's money that no pending payout can  *)
(* ever release: settling a payout, whichever way and however often, never *)
(* unlocks less than the amount that stops being pending.                  *)
LockedIsPending ==
    \A e \in Employees : employees[e].reimburse_locked <= SumFunction(Aside(e))

(* An approved claim has been paid from its envelope: claims are never     *)
(* approved beyond what the envelope gave out, however many reviewers race *)
(* for the last of it.                                                     *)
ApprovedClaimsFunded ==
    \A p \in Projects : projects[p] # NoRow =>
      Cardinality(ApprovedClaimsOf(p)) * projects[p].claim_amount <= Spent(p)

(* An employee has at most one claim per project although two requests may *)
(* both find none before either inserts.                                   *)
OneClaimPerPair ==
    \A c, d \in Claims :
      (c # d /\ claims[c] # NoRow /\ claims[d] # NoRow) =>
        <<claims[c].project, claims[c].employee>> #
        <<claims[d].project, claims[d].employee>>

-----------------------------------------------------------------------------
(* What a step may not do. *)

(* A top-up is decided once: two reviewers who both read it as pending do  *)
(* not both have their way.                                                *)
ReviewedTopupIsFinal ==
    [][\A t \in Topups :
         (topups[t] # NoRow /\ topups[t].status # "pending")
           => topups'[t] = topups[t]]_vars

(* No money leaves the envelope of a project while the project is deleted, *)
(* even for a claim whose reviewer read the project before the deletion.   *)
DeletedProjectsSpendNothing ==
    [][\A p \in Projects :
         (projects[p] # NoRow /\ projects[p].deleted)
           => projects'[p].envelope_remaining = projects[p].envelope_remaining]_vars

-----------------------------------------------------------------------------
(* Row locks. *)

(* No two transactions hold the same row. *)
LockExclusion ==
    \A g, h \in Handlers : g # h => held[g] \cap held[h] = {}

(* The row and WHERE clause of the statement each waiting handler is at.   *)
Target(h) ==
    CASE pc[h] = "TopupUpdateStatus" -> <<"budget_topups", req[h].topup>>
      [] pc[h] = "TopupIncrementAvailable" ->
           <<"managers", topups[req[h].topup].manager>>
      [] pc[h] = "LockEnvelope" -> <<"managers", req[h].manager>>
      [] pc[h] \in {"ProjectDelete", "ProjectRestore"} ->
           <<"projects", req[h].project>>
      [] pc[h] \in {"ClaimReject", "ClaimUpdateStatus"} ->
           <<"expense_claims", req[h].claim>>
      [] pc[h] = "DecrementEnvelope" -> <<"projects", ProjectOf(h)>>
      [] pc[h] = "DecrementLocked" -> <<"managers", ManagerOf(h)>>
      [] pc[h] = "CreditEmployee" -> <<"employees", claims[req[h].claim].employee>>
      [] pc[h] = "LockForPayout" -> <<"employees", req[h].employee>>
      [] pc[h] = "PayoutSettle" -> <<"employees", PaidEmployee(h)>>
      [] pc[h] = "PayoutUpdateReview" -> <<"payouts", req[h].payout>>
      [] OTHER -> <<"none", h>>

(* The lock waits of the handlers never close a cycle: in every set of     *)
(* handlers one waits for none of the others, because every transaction    *)
(* locks its rows in the same order of tables.                             *)
NoDeadlock ==
    \A S \in (SUBSET Handlers) \ {{}} :
      \E h \in S : \A g \in S \ {h} : Target(h) \notin held[g]

-----------------------------------------------------------------------------
(* The transactions implement AtomicLedger: hidden from it are the locks,  *)
(* the program counters and the requests.  A commit is the one step of a   *)
(* handler that AtomicLedger sees, and the checks its earlier statements   *)
(* made under row locks still hold then.                                   *)
Atomic == INSTANCE AtomicLedger WITH
            managers <- managers, employees <- employees, topups <- topups,
            projects <- projects, claims <- claims, payouts <- payouts
ImplementsAtomic == Atomic!Spec

-----------------------------------------------------------------------------
(* What the documentation promises of reviews and the code does not keep.  *)

(* DESIGN.md, section 1: every review uses UPDATE ... WHERE status =       *)
(* 'pending', which prevents double approval: an approved claim is paid    *)
(* once, so an envelope has given out claim_amount per approved claim.     *)
ClaimPaidOnce ==
    \A p \in Projects : projects[p] # NoRow =>
      Cardinality(ApprovedClaimsOf(p)) * projects[p].claim_amount = Spent(p)

(* The same promise for payouts: locked money is what pending payouts set  *)
(* aside, so a payout is settled once.                                     *)
LockedBacksPendingPayouts ==
    \A e \in Employees : employees[e].reimburse_locked = SumFunction(Aside(e))

=============================================================================
