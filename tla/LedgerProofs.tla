---------------------------- MODULE LedgerProofs ----------------------------
(***************************************************************************)
(* What is proved of the ledger for every value of its constants, in four  *)
(* parts: IInv is an invariant; what a step may never do; the statements'  *)
(* transactions implement AtomicLedger; the accounts balance.              *)
(*                                                                         *)
(* The argument for IInv is that of two-phase locking: a step of one       *)
(* handler changes no row another handler has locked (Undisturbed), and    *)
(* nothing else a handler relies on ever changes once it is committed.     *)
(***************************************************************************)
EXTENDS LedgerInvariant, SumTheorems, TLAPS

(* What a step of another handler leaves to g: its locked rows, the rows   *)
(* it has read up to the columns that never change, and its fresh ids.     *)
RowsKept(g) ==
    /\ \A t \in Topups :
         /\ topups[t] # NoRow => /\ topups'[t] # NoRow
                                 /\ topups'[t].manager = topups[t].manager
         /\ topups[t] # NoRow /\ <<"budget_topups", t>> \in held[g]
              => topups'[t] = topups[t]
    /\ \A p \in Projects :
         /\ projects[p] # NoRow =>
              /\ projects'[p] # NoRow
              /\ projects'[p].manager = projects[p].manager
              /\ projects'[p].claim_amount = projects[p].claim_amount
         /\ projects[p] # NoRow /\ <<"projects", p>> \in held[g]
              => projects'[p] = projects[p]
         /\ (pc[g] \in CreateProjectSteps /\ req[g].project = p)
              => projects'[p] = projects[p]
    /\ \A m \in Managers : <<"managers", m>> \in held[g] => managers'[m] = managers[m]
    /\ \A e \in Employees :
         <<"employees", e>> \in held[g] => employees'[e] = employees[e]
    /\ \A c \in Claims :
         claims[c] # NoRow => /\ claims'[c] # NoRow
                              /\ claims'[c].project = claims[c].project
                              /\ claims'[c].employee = claims[c].employee
    /\ \A y \in Payouts :
         /\ payouts[y] # NoRow => /\ payouts'[y] # NoRow
                                  /\ payouts'[y].employee = payouts[y].employee
                                  /\ payouts'[y].amount = payouts[y].amount
         /\ (pc[g] \in CreatePayoutSteps /\ req[g].payout = y)
              => payouts'[y] = payouts[y]

HandlerKept(g) == pc'[g] = pc[g] /\ req'[g] = req[g] /\ held'[g] = held[g]

(* Every statement is a step of one of the usecases. *)
USE DEF Steps, TopupSteps, CreateProjectSteps, ProjectSteps, CreateClaimSteps,
        ApproveClaimSteps, ReviewClaimSteps, ClaimSteps, CreatePayoutSteps,
        ReviewPayoutSteps, PayoutSteps

LEMMA RequestKept ==
    ASSUME NEW g \in Handlers, RequestFits(g), HandlerKept(g)
    PROVE  RequestFits(g)'
BY DEF RequestFits, HandlerKept

LEMMA HandlerStays ==
    ASSUME IInv, NEW g \in Handlers, HandlerKept(g), RowsKept(g)
    PROVE  HandlerFits(g)'
<1>1. RequestFits(g) /\ HandlerFits(g) /\ ClaimsHaveProjects /\ TablesTypeOK
  BY DEF IInv, TypeOK
<1>2. pc[g] \in TopupSteps => TopupReviewFits(g)'
  BY <1>1 DEF HandlerFits, RequestFits, HandlerKept, RowsKept, TopupReviewFits,
     TopupReviews, TopupIsPending
<1>3. pc[g] \in CreateProjectSteps => ProjectCreationFits(g)'
  BY <1>1 DEF HandlerFits, RequestFits, HandlerKept, RowsKept, ProjectCreationFits,
     ProjectCreations, BudgetSuffices
<1>4. pc[g] \in {"ProjectDelete", "ProjectRestore"} => ProjectTargetFits(g)'
  BY <1>1 DEF HandlerFits, RequestFits, HandlerKept, RowsKept, ProjectTargetFits,
     ProjectTargets
<1>5. pc[g] \in CreateClaimSteps => ClaimCreationFits(g)'
  BY <1>1 DEF HandlerFits, RequestFits, HandlerKept, RowsKept, ClaimCreationFits,
     ClaimCreations
<1>6. pc[g] \in ReviewClaimSteps => ClaimReviewFits(g)'
  <2> SUFFICES ASSUME pc[g] \in ReviewClaimSteps  PROVE ClaimReviewFits(g)'
    OBVIOUS
  <2>1. req[g] \in ClaimReviews /\ ClaimReviewFits(g)
    BY <1>1 DEF HandlerFits, RequestFits
  <2>2. /\ req[g].claim \in Claims
        /\ claims[req[g].claim] \in ClaimRow
        /\ projects[ProjectOf(g)] # NoRow /\ projects[ProjectOf(g)] \in ProjectRow
    BY <1>1, <2>1 DEF ClaimReviews, ClaimReviewFits, ClaimsHaveProjects, ProjectOf,
       ClaimRow, TablesTypeOK
  <2>3. /\ claims'[req[g].claim] # NoRow
        /\ ProjectOf(g)' = ProjectOf(g)
        /\ claims'[req[g].claim].employee = claims[req[g].claim].employee
    BY <2>1, <2>2 DEF ClaimReviewFits, RowsKept, HandlerKept, ProjectOf
  <2>4. ManagerOf(g)' = ManagerOf(g) /\ AmountOf(g)' = AmountOf(g)
    BY <1>1, <2>1, <2>2, <2>3 DEF ClaimReviewFits, RowsKept, ClaimsHaveProjects, ManagerOf,
       AmountOf, ProjectOf, ClaimRow
  <2>5. ProjectOf(g) \in Projects /\ ManagerOf(g) \in Managers
    BY <2>2 DEF ProjectOf, ManagerOf, ClaimRow, ProjectRow
  <2>6. EnvelopeSuffices(ProjectOf(g), AmountOf(g))
          /\ <<"projects", ProjectOf(g)>> \in held[g]
        => EnvelopeSuffices(ProjectOf(g), AmountOf(g))'
    BY <2>2, <2>3, <2>4, <2>5 DEF RowsKept, EnvelopeSuffices
  <2>7. <<"managers", ManagerOf(g)>> \in held[g]
        => managers'[ManagerOf(g)'] = managers[ManagerOf(g)]
    BY <2>4, <2>5 DEF RowsKept
  <2> QED
    BY <2>1, <2>3, <2>4, <2>6, <2>7 DEF ClaimReviewFits, HandlerKept
<1>7. pc[g] \in CreatePayoutSteps => PayoutCreationFits(g)'
  BY <1>1 DEF HandlerFits, RequestFits, HandlerKept, RowsKept, PayoutCreationFits,
     PayoutCreations, BalanceSuffices
<1>8. pc[g] \in ReviewPayoutSteps => PayoutReviewFits(g)'
  <2> SUFFICES ASSUME pc[g] \in ReviewPayoutSteps  PROVE PayoutReviewFits(g)'
    OBVIOUS
  <2>1. req[g] \in PayoutReviews /\ PayoutReviewFits(g)
    BY <1>1 DEF HandlerFits, RequestFits
  <2>2. req[g].payout \in Payouts /\ payouts[req[g].payout] \in PayoutRow
    BY <1>1, <2>1 DEF PayoutReviews, PayoutReviewFits, TablesTypeOK
  <2>3. /\ payouts'[req[g].payout] # NoRow
        /\ PaidEmployee(g)' = PaidEmployee(g)
        /\ PaidAmount(g)' = PaidAmount(g)
    BY <2>1, <2>2 DEF PayoutReviewFits, RowsKept, HandlerKept, PaidEmployee, PaidAmount
  <2>4. <<"employees", PaidEmployee(g)>> \in held[g]
        => employees'[PaidEmployee(g)'] = employees[PaidEmployee(g)]
    BY <2>2, <2>3 DEF RowsKept, PaidEmployee, PayoutRow
  <2> QED
    BY <2>1, <2>3, <2>4 DEF PayoutReviewFits, HandlerKept, LockedSuffices
<1> QED
  BY <1>1, <1>2, <1>3, <1>4, <1>5, <1>6, <1>7, <1>8 DEF HandlerFits, HandlerKept

-----------------------------------------------------------------------------
(* The other handlers, and what relates handlers, after a step of h.       *)

LEMMA OthersStay ==
    ASSUME IInv, NEW h \in Handlers,
           \A g \in Handlers \ {h} : HandlerKept(g) /\ RowsKept(g),
           TablesTypeOK', ClaimsHaveProjects',
           held' = [held EXCEPT ![h] = held'[h]], held'[h] \subseteq Rows,
           pc' = [pc EXCEPT ![h] = pc'[h]], pc'[h] \in Steps \cup {"idle"},
           req' = [req EXCEPT ![h] = req'[h]],
           RequestFits(h)', HandlerFits(h)',
           \A g \in Handlers \ {h} : held'[h] \cap held[g] = {},
           \A g \in Handlers \ {h} :
             /\ (pc[g] \in CreateProjectSteps /\ pc'[h] \in CreateProjectSteps)
                  => req[g].project # req'[h].project
             /\ (pc[g] \in CreatePayoutSteps /\ pc'[h] \in CreatePayoutSteps)
                  => req[g].payout # req'[h].payout
    PROVE  IInv'
<1>1. TypeOK /\ LockExclusion /\ FreshIdsDiffer
  BY DEF IInv
<1>2. TypeOK'
  <2>1. \A g \in Handlers : RequestFits(g)'
    BY <1>1, RequestKept DEF TypeOK
  <2>2. req'[h] \in Requests \cup {NoRequest}
    BY DEF RequestFits, Requests
  <2> QED
    BY <1>1, <2>1, <2>2 DEF TypeOK
<1>3. LockExclusion'
  BY <1>1 DEF LockExclusion, HandlerKept
<1>4. FreshIdsDiffer'
  BY <1>1 DEF FreshIdsDiffer, HandlerKept
<1>5. \A g \in Handlers : HandlerFits(g)'
  BY HandlerStays
<1> QED
  BY <1>2, <1>3, <1>4, <1>5 DEF IInv

(* A step that leaves the tables alone disturbs nobody.                    *)
LEMMA TablesKept ==
    ASSUME IInv, NEW h \in Handlers, UNCHANGED tables,
           held' = [held EXCEPT ![h] = held'[h]], held'[h] \subseteq Rows,
           pc' = [pc EXCEPT ![h] = pc'[h]], pc'[h] \in Steps \cup {"idle"},
           req' = [req EXCEPT ![h] = req'[h]],
           RequestFits(h)', HandlerFits(h)',
           \A g \in Handlers \ {h} : held'[h] \cap held[g] = {},
           \A g \in Handlers \ {h} :
             /\ (pc[g] \in CreateProjectSteps /\ pc'[h] \in CreateProjectSteps)
                  => req[g].project # req'[h].project
             /\ (pc[g] \in CreatePayoutSteps /\ pc'[h] \in CreatePayoutSteps)
                  => req[g].payout # req'[h].payout
    PROVE  IInv'
<1>1. \A g \in Handlers \ {h} : HandlerKept(g)
  BY DEF HandlerKept, IInv, TypeOK
<1>2. \A g \in Handlers : RowsKept(g)
  BY DEF RowsKept, tables
<1>3. TablesTypeOK' /\ ClaimsHaveProjects'
  BY DEF IInv, TypeOK, TablesTypeOK, ClaimsHaveProjects, tables
<1> QED
  BY <1>1, <1>2, <1>3, OthersStay

LEMMA RollbackKeeps ==
    ASSUME IInv, NEW h \in Handlers, Rollback(h)
    PROVE  IInv'
<1>1. /\ held' = [held EXCEPT ![h] = {}] /\ pc' = [pc EXCEPT ![h] = "idle"]
      /\ req' = [req EXCEPT ![h] = NoRequest] /\ UNCHANGED tables
  BY DEF Rollback, Return
<1>2. held'[h] = {} /\ pc'[h] = "idle" /\ req'[h] = NoRequest
  BY <1>1 DEF IInv, TypeOK
<1>3. RequestFits(h)' /\ HandlerFits(h)'
  BY <1>2 DEF RequestFits, HandlerFits
<1> QED
  BY <1>1, <1>2, <1>3, TablesKept

(* An UPDATE inside a transaction: it is enough that the handler's request *)
(* and locks fit the next statement when the WHERE clause was true.        *)
LEMMA UpdateKeeps ==
    ASSUME IInv, NEW h \in Handlers, NEW row \in Rows, NEW where \in BOOLEAN,
           NEW next \in Steps, Update(h, row, where, next),
           (pc[h] \in CreateProjectSteps) <=> (next \in CreateProjectSteps),
           (pc[h] \in CreatePayoutSteps) <=> (next \in CreatePayoutSteps),
           (where /\ UNCHANGED <<tables, req>> /\ pc'[h] = next
              /\ held'[h] = held[h] \cup {row})
             => RequestFits(h)' /\ HandlerFits(h)'
    PROVE  IInv'
<1>1. CASE where /\ ~Locked(h, row) /\ held' = [held EXCEPT ![h] = @ \cup {row}]
           /\ pc' = [pc EXCEPT ![h] = next] /\ UNCHANGED <<tables, req>>
  <2>1. held'[h] = held[h] \cup {row} /\ pc'[h] = next /\ req'[h] = req[h]
    BY <1>1 DEF IInv, TypeOK
  <2>2. \A g \in Handlers \ {h} : held'[h] \cap held[g] = {}
    BY <1>1, <2>1 DEF IInv, LockExclusion, Locked
  <2>3. RequestFits(h)' /\ HandlerFits(h)'
    BY <1>1, <2>1
  <2>4. held'[h] \subseteq Rows /\ pc'[h] \in Steps
    BY <2>1 DEF IInv, TypeOK
  <2>5. req' = [req EXCEPT ![h] = req'[h]]
    BY <1>1 DEF IInv, TypeOK
  <2>6. \A g \in Handlers \ {h} :
          /\ (pc[g] \in CreateProjectSteps /\ pc'[h] \in CreateProjectSteps)
               => req[g].project # req'[h].project
          /\ (pc[g] \in CreatePayoutSteps /\ pc'[h] \in CreatePayoutSteps)
               => req[g].payout # req'[h].payout
    BY <2>1 DEF IInv, FreshIdsDiffer
  <2> QED
    BY <1>1, <2>1, <2>2, <2>3, <2>4, <2>5, <2>6, TablesKept
<1>2. CASE Rollback(h)
  BY <1>2, RollbackKeeps
<1> QED
  BY <1>1, <1>2 DEF Update

-----------------------------------------------------------------------------
(* The requests. *)

LEMMA BeginKeeps ==
    ASSUME IInv, NEW h \in Handlers, NEW r, NEW next \in Steps, Begin(h, r, next),
           (pc'[h] = next /\ req'[h] = r /\ held'[h] = {} /\ UNCHANGED tables)
             => RequestFits(h)' /\ HandlerFits(h)',
           \A g \in Handlers \ {h} :
             /\ (pc[g] \in CreateProjectSteps /\ next \in CreateProjectSteps)
                  => req[g].project # r.project
             /\ (pc[g] \in CreatePayoutSteps /\ next \in CreatePayoutSteps)
                  => req[g].payout # r.payout
    PROVE  IInv'
<1>1. held[h] = {}
  BY DEF IInv, HandlerFits, Begin
<1>2. pc'[h] = next /\ req'[h] = r /\ held'[h] = {} /\ UNCHANGED tables
  BY <1>1 DEF Begin, IInv, TypeOK
<1>3. /\ held' = [held EXCEPT ![h] = held'[h]]
      /\ pc' = [pc EXCEPT ![h] = pc'[h]]
      /\ req' = [req EXCEPT ![h] = req'[h]]
  BY <1>2 DEF Begin, IInv, TypeOK
<1>4. RequestFits(h)' /\ HandlerFits(h)'
  BY <1>2
<1> QED
  BY <1>2, <1>3, <1>4, TablesKept

LEMMA RequestKeeps ==
    ASSUME IInv, NEW h \in Handlers, Request(h)
    PROVE  IInv'
<1>1. TablesTypeOK
  BY DEF IInv, TypeOK
<1>2. ASSUME NEW t \in Topups, NEW s \in {"approved", "rejected"}, ReviewTopup(h, t, s)
      PROVE  IInv'
  <2> DEFINE r == [topup |-> t, status |-> s]
  <2>1. Begin(h, r, "TopupUpdateStatus") /\ topups[t] # NoRow
    BY <1>2 DEF ReviewTopup
  <2>2. pc'[h] = "TopupUpdateStatus" /\ req'[h] = r /\ held'[h] = {} /\ UNCHANGED tables
          => RequestFits(h)' /\ HandlerFits(h)'
    BY <2>1 DEF RequestFits, HandlerFits, TopupReviews, TopupReviewFits, tables
  <2> QED
    BY <2>1, <2>2, BeginKeeps
<1>3. ASSUME NEW m \in Managers, NEW p \in Projects, NEW total \in Amounts,
             NEW amount \in Amounts, CreateProject(h, m, p, total, amount)
      PROVE  IInv'
  <2> DEFINE r == [manager |-> m, project |-> p,
                   envelope_total |-> total, claim_amount |-> amount]
  <2>1. Begin(h, r, "LockEnvelope") /\ FreshProject(p) /\ amount <= total
    BY <1>3 DEF CreateProject
  <2>2. pc'[h] = "LockEnvelope" /\ req'[h] = r /\ held'[h] = {} /\ UNCHANGED tables
          => RequestFits(h)' /\ HandlerFits(h)'
    BY <2>1 DEF RequestFits, HandlerFits, ProjectCreations, ProjectCreationFits,
       FreshProject, tables
  <2>3. \A g \in Handlers \ {h} : pc[g] \in CreateProjectSteps => req[g].project # r.project
    BY <2>1 DEF FreshProject
  <2> QED
    BY <2>1, <2>2, <2>3, BeginKeeps
<1>4. ASSUME NEW m \in Managers, NEW p \in Projects,
             DeleteProject(h, m, p) \/ RestoreProject(h, m, p)
      PROVE  IInv'
  <2> DEFINE r == [project |-> p]
  <2>1. PICK next \in {"ProjectDelete", "ProjectRestore"} :
          Begin(h, r, next) /\ projects[p] # NoRow
    BY <1>4 DEF DeleteProject, RestoreProject
  <2>2. pc'[h] = next /\ req'[h] = r /\ held'[h] = {} /\ UNCHANGED tables
          => RequestFits(h)' /\ HandlerFits(h)'
    BY <2>1 DEF RequestFits, HandlerFits, ProjectTargets, ProjectTargetFits, tables
  <2> QED
    BY <2>1, <2>2, BeginKeeps
<1>5. ASSUME NEW e \in Employees, NEW p \in Projects, CreateClaim(h, e, p)
      PROVE  IInv'
  <2> DEFINE r == [project |-> p, employee |-> e]
  <2>1. Begin(h, r, "ClaimExists") /\ projects[p] # NoRow
    BY <1>5 DEF CreateClaim
  <2>2. pc'[h] = "ClaimExists" /\ req'[h] = r /\ held'[h] = {} /\ UNCHANGED tables
          => RequestFits(h)' /\ HandlerFits(h)'
    BY <2>1 DEF RequestFits, HandlerFits, ClaimCreations, ClaimCreationFits, tables
  <2> QED
    BY <2>1, <2>2, BeginKeeps
<1>6. ASSUME NEW u \in Callers, NEW c \in Claims, NEW s \in {"approved", "rejected"},
             ReviewClaim(h, u, c, s)
      PROVE  IInv'
  <2> DEFINE r == [caller |-> u, claim |-> c, status |-> s]
  <2>1. Begin(h, r, "ClaimFindProject") /\ claims[c] # NoRow
    BY <1>6 DEF ReviewClaim
  <2>2. pc'[h] = "ClaimFindProject" /\ req'[h] = r /\ held'[h] = {} /\ UNCHANGED tables
          => RequestFits(h)' /\ HandlerFits(h)'
    BY <2>1 DEF RequestFits, HandlerFits, ClaimReviews, ClaimReviewFits, tables
  <2> QED
    BY <2>1, <2>2, BeginKeeps
<1>7. ASSUME NEW e \in Employees, NEW y \in Payouts, NEW amount \in Amounts,
             CreatePayout(h, e, y, amount)
      PROVE  IInv'
  <2> DEFINE r == [employee |-> e, payout |-> y, amount |-> amount]
  <2>1. Begin(h, r, "LockForPayout") /\ FreshPayout(y)
    BY <1>7 DEF CreatePayout
  <2>2. pc'[h] = "LockForPayout" /\ req'[h] = r /\ held'[h] = {} /\ UNCHANGED tables
          => RequestFits(h)' /\ HandlerFits(h)'
    BY <2>1 DEF RequestFits, HandlerFits, PayoutCreations, PayoutCreationFits,
       FreshPayout, tables
  <2>3. \A g \in Handlers \ {h} : pc[g] \in CreatePayoutSteps => req[g].payout # r.payout
    BY <2>1 DEF FreshPayout
  <2> QED
    BY <2>1, <2>2, <2>3, BeginKeeps
<1>8. ASSUME NEW y \in Payouts, NEW s \in {"completed", "failed"}, ReviewPayout(h, y, s)
      PROVE  IInv'
  <2> DEFINE r == [payout |-> y, status |-> s]
  <2>1. Begin(h, r, "PayoutSettle") /\ payouts[y] # NoRow
    BY <1>8 DEF ReviewPayout
  <2>2. pc'[h] = "PayoutSettle" /\ req'[h] = r /\ held'[h] = {} /\ UNCHANGED tables
          => RequestFits(h)' /\ HandlerFits(h)'
    BY <2>1 DEF RequestFits, HandlerFits, PayoutReviews, PayoutReviewFits, tables
  <2> QED
    BY <2>1, <2>2, BeginKeeps
<1> QED
  BY <1>2, <1>3, <1>4, <1>5, <1>6, <1>7, <1>8 DEF Request

-----------------------------------------------------------------------------
(* The statements inside a transaction.  Each leaves the tables alone and  *)
(* adds its row to the locks, so the next statement's condition is the one *)
(* WHERE clause it found true beside what held before.                     *)

LEMMA TopupStatementKeeps ==
    ASSUME IInv, NEW h \in Handlers,
           TopupUpdateStatus(h) \/ TopupIncrementAvailable(h)
    PROVE  IInv'
<1> DEFINE t == req[h].topup
           Fits == RequestFits(h)' /\ HandlerFits(h)'
<1>1. pc[h] \in TopupSteps
  BY DEF TopupUpdateStatus, TopupIncrementAvailable
<1>2. /\ req[h] \in TopupReviews /\ TopupReviewFits(h)
      /\ t \in Topups /\ topups[t] \in TopupRow
  BY <1>1 DEF IInv, TypeOK, RequestFits, HandlerFits, TopupReviews, TopupReviewFits,
     TablesTypeOK
<1>3. CASE TopupUpdateStatus(h)
  <2> DEFINE next == IF req[h].status = "approved" THEN "TopupIncrementAvailable"
                                                   ELSE "TopupCommit"
             row == <<"budget_topups", t>>
  <2>1. Update(h, row, TopupIsPending(t), next) /\ pc[h] = "TopupUpdateStatus"
    BY <1>3 DEF TopupUpdateStatus
  <2>2. row \in Rows
    BY <1>2 DEF Rows
  <2>3. ASSUME TopupIsPending(t), UNCHANGED <<tables, req>>, pc'[h] = next,
               held'[h] = held[h] \cup {row}
        PROVE  Fits
    <3>1. req'[h] = req[h] /\ held'[h] = {row}
      BY <1>2, <2>1, <2>3 DEF TopupReviewFits
    <3>2. TopupReviewFits(h)'
      BY <1>2, <2>3, <3>1 DEF TopupReviewFits, TopupReviews, TopupIsPending, tables
    <3> QED
      BY <1>2, <2>3, <3>1, <3>2 DEF RequestFits, HandlerFits
  <2> HIDE DEF row
  <2> QED
    BY <2>1, <2>2, <2>3, UpdateKeeps DEF TopupIsPending
<1>4. CASE TopupIncrementAvailable(h)
  <2> DEFINE row == <<"managers", topups[t].manager>>
  <2>1. Update(h, row, TRUE, "TopupCommit") /\ pc[h] = "TopupIncrementAvailable"
    BY <1>4 DEF TopupIncrementAvailable
  <2>2. row \in Rows
    BY <1>2 DEF Rows, TopupRow
  <2>3. ASSUME UNCHANGED <<tables, req>>, pc'[h] = "TopupCommit",
               held'[h] = held[h] \cup {row}
        PROVE  Fits
    <3>1. TopupReviewFits(h)'
      BY <1>2, <2>1, <2>3 DEF TopupReviewFits, TopupIsPending, tables
    <3> QED
      BY <1>2, <2>3, <3>1 DEF RequestFits, HandlerFits
  <2> HIDE DEF row
  <2> QED
    BY <2>1, <2>2, <2>3, UpdateKeeps
<1> QED
  BY <1>3, <1>4

LEMMA LockEnvelopeKeeps ==
    ASSUME IInv, NEW h \in Handlers, LockEnvelope(h)
    PROVE  IInv'
<1> DEFINE r == req[h]
           row == <<"managers", r.manager>>
           where == BudgetSuffices(r.manager, r.envelope_total)
<1>1. pc[h] = "LockEnvelope" /\ Update(h, row, where, "ProjectCommit")
  BY DEF LockEnvelope
<1>2. r \in ProjectCreations /\ ProjectCreationFits(h)
  BY <1>1 DEF IInv, TypeOK, RequestFits, HandlerFits
<1>3. row \in Rows
  BY <1>2 DEF Rows, ProjectCreations
<1>4. ASSUME where, UNCHANGED <<tables, req>>, pc'[h] = "ProjectCommit",
             held'[h] = held[h] \cup {row}
      PROVE  RequestFits(h)' /\ HandlerFits(h)'
  <2>1. ProjectCreationFits(h)'
    BY <1>1, <1>2, <1>4 DEF ProjectCreationFits, BudgetSuffices, tables
  <2> QED
    BY <1>2, <1>4, <2>1 DEF RequestFits, HandlerFits
<1>5. where \in BOOLEAN
  BY DEF BudgetSuffices
<1> HIDE DEF row, where
<1> QED
  BY <1>1, <1>3, <1>4, <1>5, UpdateKeeps

LEMMA LockForPayoutKeeps ==
    ASSUME IInv, NEW h \in Handlers, LockForPayout(h)
    PROVE  IInv'
<1> DEFINE r == req[h]
           row == <<"employees", r.employee>>
           where == BalanceSuffices(r.employee, r.amount)
<1>1. pc[h] = "LockForPayout" /\ Update(h, row, where, "PayoutCreateCommit")
  BY DEF LockForPayout
<1>2. r \in PayoutCreations /\ PayoutCreationFits(h)
  BY <1>1 DEF IInv, TypeOK, RequestFits, HandlerFits
<1>3. row \in Rows
  BY <1>2 DEF Rows, PayoutCreations
<1>4. ASSUME where, UNCHANGED <<tables, req>>, pc'[h] = "PayoutCreateCommit",
             held'[h] = held[h] \cup {row}
      PROVE  RequestFits(h)' /\ HandlerFits(h)'
  <2>1. PayoutCreationFits(h)'
    BY <1>1, <1>2, <1>4 DEF PayoutCreationFits, BalanceSuffices, tables
  <2> QED
    BY <1>2, <1>4, <2>1 DEF RequestFits, HandlerFits
<1>5. where \in BOOLEAN
  BY DEF BalanceSuffices
<1> HIDE DEF row, where
<1> QED
  BY <1>1, <1>3, <1>4, <1>5, UpdateKeeps

LEMMA PayoutStatementKeeps ==
    ASSUME IInv, NEW h \in Handlers, PayoutSettle(h) \/ PayoutUpdateReview(h)
    PROVE  IInv'
<1> DEFINE Fits == RequestFits(h)' /\ HandlerFits(h)'
           y == req[h].payout
<1>1. pc[h] \in ReviewPayoutSteps
  BY DEF PayoutSettle, PayoutUpdateReview
<1>2. /\ req[h] \in PayoutReviews /\ PayoutReviewFits(h)
      /\ y \in Payouts /\ payouts[y] \in PayoutRow
  BY <1>1 DEF IInv, TypeOK, RequestFits, HandlerFits, PayoutReviews, PayoutReviewFits,
     TablesTypeOK
<1>3. CASE PayoutSettle(h)
  <2> DEFINE row == <<"employees", PaidEmployee(h)>>
             where == LockedSuffices(PaidEmployee(h), PaidAmount(h))
  <2>1. pc[h] = "PayoutSettle" /\ Update(h, row, where, "PayoutUpdateReview")
    BY <1>3 DEF PayoutSettle
  <2>2. row \in Rows
    BY <1>2 DEF Rows, PayoutRow, PaidEmployee
  <2>3. ASSUME where, UNCHANGED <<tables, req>>, pc'[h] = "PayoutUpdateReview",
               held'[h] = held[h] \cup {row}
        PROVE  Fits
    <3>1. PayoutReviewFits(h)'
      BY <1>2, <2>1, <2>3 DEF PayoutReviewFits, LockedSuffices, PaidEmployee, PaidAmount,
         tables
    <3> QED
      BY <1>2, <2>3, <3>1 DEF RequestFits, HandlerFits
  <2>4. where \in BOOLEAN
    BY DEF LockedSuffices
  <2> HIDE DEF row, where
  <2> QED
    BY <2>1, <2>2, <2>3, <2>4, UpdateKeeps
<1>4. CASE PayoutUpdateReview(h)
  <2> DEFINE row == <<"payouts", y>>
  <2>1. pc[h] = "PayoutUpdateReview" /\ Update(h, row, TRUE, "PayoutCommit")
    BY <1>4 DEF PayoutUpdateReview
  <2>2. row \in Rows
    BY <1>2 DEF Rows
  <2>3. ASSUME UNCHANGED <<tables, req>>, pc'[h] = "PayoutCommit",
               held'[h] = held[h] \cup {row}
        PROVE  Fits
    <3>1. PayoutReviewFits(h)'
      BY <1>2, <2>1, <2>3 DEF PayoutReviewFits, LockedSuffices, PaidEmployee, PaidAmount,
         tables
    <3> QED
      BY <1>2, <2>3, <3>1 DEF RequestFits, HandlerFits
  <2> HIDE DEF row
  <2> QED
    BY <2>1, <2>2, <2>3, UpdateKeeps
<1> QED
  BY <1>3, <1>4

LEMMA ApproveStatementKeeps ==
    ASSUME IInv, NEW h \in Handlers,
           DecrementEnvelope(h) \/ DecrementLocked(h) \/ CreditEmployee(h)
             \/ ClaimUpdateStatus(h)
    PROVE  IInv'
<1> DEFINE project  == <<"projects", ProjectOf(h)>>
           manager  == <<"managers", ManagerOf(h)>>
           employee == <<"employees", claims[req[h].claim].employee>>
           claim    == <<"expense_claims", req[h].claim>>
           funded   == managers[ManagerOf(h)].budget_locked >= AmountOf(h)
<1>1. pc[h] \in ReviewClaimSteps
  BY DEF DecrementEnvelope, DecrementLocked, CreditEmployee, ClaimUpdateStatus
<1>2. req[h] \in ClaimReviews /\ ClaimReviewFits(h)
  BY <1>1 DEF IInv, TypeOK, RequestFits, HandlerFits
<1>3. /\ req[h].claim \in Claims /\ claims[req[h].claim] \in ClaimRow
      /\ projects[ProjectOf(h)] \in ProjectRow
  BY <1>2 DEF IInv, TypeOK, TablesTypeOK, ClaimsHaveProjects, ClaimReviews,
     ClaimReviewFits, ClaimRow, ProjectOf
<1>4. project \in Rows /\ manager \in Rows /\ employee \in Rows /\ claim \in Rows
  BY <1>3 DEF Rows, ClaimRow, ProjectRow, ProjectOf, ManagerOf
<1>5. ASSUME UNCHANGED <<tables, req>>, pc'[h] \in ReviewClaimSteps, ClaimReviewFits(h)'
      PROVE  RequestFits(h)' /\ HandlerFits(h)'
  BY <1>2, <1>5 DEF RequestFits, HandlerFits
<1>6. UNCHANGED <<tables, req>> =>
        /\ ProjectOf(h)' = ProjectOf(h) /\ ManagerOf(h)' = ManagerOf(h)
        /\ AmountOf(h)' = AmountOf(h)
        /\ EnvelopeSuffices(ProjectOf(h), AmountOf(h))'
              = EnvelopeSuffices(ProjectOf(h), AmountOf(h))
        /\ managers' = managers /\ claims' = claims /\ req' = req
  BY DEF ProjectOf, ManagerOf, AmountOf, EnvelopeSuffices, tables
<1>7. CASE DecrementEnvelope(h)
  <2> DEFINE where == EnvelopeSuffices(ProjectOf(h), AmountOf(h))
  <2>1. pc[h] = "DecrementEnvelope" /\ Update(h, project, where, "DecrementLocked")
    BY <1>7 DEF DecrementEnvelope
  <2>2. ASSUME where, UNCHANGED <<tables, req>>, pc'[h] = "DecrementLocked",
               held'[h] = held[h] \cup {project}
        PROVE  ClaimReviewFits(h)'
    BY <1>2, <1>6, <2>1, <2>2 DEF ClaimReviewFits
  <2> HIDE DEF project
  <2> QED
    BY <1>4, <1>5, <2>1, <2>2, UpdateKeeps DEF EnvelopeSuffices
<1>8. CASE DecrementLocked(h)
  <2>1. pc[h] = "DecrementLocked" /\ Update(h, manager, funded, "CreditEmployee")
    BY <1>8 DEF DecrementLocked
  <2>2. ASSUME funded, UNCHANGED <<tables, req>>, pc'[h] = "CreditEmployee",
               held'[h] = held[h] \cup {manager}
        PROVE  ClaimReviewFits(h)'
    BY <1>2, <1>6, <2>1, <2>2 DEF ClaimReviewFits
  <2>3. funded \in BOOLEAN
    OBVIOUS
  <2> HIDE DEF manager, funded
  <2> QED
    BY <1>4, <1>5, <2>1, <2>2, <2>3, UpdateKeeps
<1>9. CASE CreditEmployee(h)
  <2>1. pc[h] = "CreditEmployee" /\ Update(h, employee, TRUE, "ClaimUpdateStatus")
    BY <1>9 DEF CreditEmployee
  <2>2. ASSUME UNCHANGED <<tables, req>>, pc'[h] = "ClaimUpdateStatus",
               held'[h] = held[h] \cup {employee}
        PROVE  ClaimReviewFits(h)'
    BY <1>2, <1>6, <2>1, <2>2 DEF ClaimReviewFits
  <2> HIDE DEF employee
  <2> QED
    BY <1>4, <1>5, <2>1, <2>2, UpdateKeeps
<1>10. CASE ClaimUpdateStatus(h)
  <2>1. pc[h] = "ClaimUpdateStatus" /\ Update(h, claim, TRUE, "ClaimCommit")
    BY <1>10 DEF ClaimUpdateStatus
  <2>2. ASSUME UNCHANGED <<tables, req>>, pc'[h] = "ClaimCommit",
               held'[h] = held[h] \cup {claim}
        PROVE  ClaimReviewFits(h)'
    BY <1>2, <1>6, <2>1, <2>2 DEF ClaimReviewFits
  <2> HIDE DEF claim
  <2> QED
    BY <1>4, <1>5, <2>1, <2>2, UpdateKeeps
<1> QED
  BY <1>7, <1>8, <1>9, <1>10

(* The reads of a claim's creation and review move on or give up.          *)
LEMMA ClaimReadKeeps ==
    ASSUME IInv, NEW h \in Handlers, ClaimExists(h) \/ ClaimFindProject(h)
    PROVE  IInv'
<1>1. CASE Rollback(h)
  BY <1>1, RollbackKeeps
<1>2. CASE ~Rollback(h)
  <2> DEFINE next == pc'[h]
  <2>1. /\ UNCHANGED <<tables, held, req>> /\ pc' = [pc EXCEPT ![h] = next]
        /\ \/ pc[h] = "ClaimExists" /\ next = "ClaimCreate"
           \/ /\ pc[h] = "ClaimFindProject"
              /\ \/ next = "ClaimReject"
                 \/ req[h].status = "approved" /\ next = "DecrementEnvelope"
    <3>1. CASE ClaimExists(h)
      BY <1>2, <3>1 DEF ClaimExists, IInv, TypeOK
    <3>2. CASE ClaimFindProject(h)
      BY <1>2, <3>2 DEF ClaimFindProject, IInv, TypeOK, RequestFits, ClaimReviews
    <3> QED
      BY <3>1, <3>2
  <2>2. RequestFits(h) /\ HandlerFits(h)
    BY DEF IInv, TypeOK
  <2>3. RequestFits(h)'
    BY <2>1, <2>2 DEF RequestFits
  <2>4. HandlerFits(h)'
    BY <2>1, <2>2 DEF HandlerFits, ClaimCreationFits, ClaimReviewFits, tables
  <2>5. held'[h] = {}
    BY <2>1, <2>2 DEF HandlerFits, ClaimCreationFits, ClaimReviewFits
  <2> QED
    BY <2>1, <2>3, <2>4, <2>5, TablesKept DEF IInv, TypeOK
<1> QED
  BY <1>1, <1>2

-----------------------------------------------------------------------------
(* The steps that write: what they change is locked by h, is unlocked and  *)
(* written by one statement, or did not exist.                             *)

LEMMA CommitKeeps ==
    ASSUME IInv, NEW h \in Handlers, Return(h), TablesTypeOK', ClaimsHaveProjects',
           \A g \in Handlers \ {h} : RowsKept(g)
    PROVE  IInv'
<1>1. /\ held' = [held EXCEPT ![h] = {}] /\ pc' = [pc EXCEPT ![h] = "idle"]
      /\ req' = [req EXCEPT ![h] = NoRequest]
  BY DEF Return
<1>2. held'[h] = {} /\ pc'[h] = "idle" /\ req'[h] = NoRequest
  BY <1>1 DEF IInv, TypeOK
<1>3. RequestFits(h)' /\ HandlerFits(h)'
  BY <1>2 DEF RequestFits, HandlerFits
<1>4. \A g \in Handlers \ {h} : HandlerKept(g)
  BY <1>1 DEF HandlerKept, IInv, TypeOK
<1> QED
  BY <1>1, <1>2, <1>3, <1>4, OthersStay

LEMMA CreateTopupKeeps ==
    ASSUME IInv, NEW m \in Managers, NEW t \in Topups, NEW amount \in Amounts,
           CreateTopup(m, t, amount)
    PROVE  IInv'
<1> DEFINE row == [manager |-> m, amount |-> amount, status |-> "pending"]
<1>1. /\ topups[t] = NoRow /\ topups' = [topups EXCEPT ![t] = row]
      /\ UNCHANGED <<managers, employees, projects, claims, payouts, held, pc, req>>
  BY DEF CreateTopup
<1>2. \A g \in Handlers : HandlerKept(g) /\ RowsKept(g)
  BY <1>1 DEF HandlerKept, RowsKept, IInv, TypeOK, TablesTypeOK
<1>3. TablesTypeOK'
  <2>1. row \in TopupRow
    BY DEF TopupRow
  <2> QED
    BY <1>1, <2>1 DEF IInv, TypeOK, TablesTypeOK
<1>4. \A g \in Handlers : RequestFits(g)' /\ HandlerFits(g)'
  BY <1>2, RequestKept, HandlerStays DEF IInv, TypeOK
<1>5. TypeOK'
  BY <1>1, <1>3, <1>4 DEF IInv, TypeOK
<1>6. LockExclusion' /\ ClaimsHaveProjects' /\ FreshIdsDiffer'
  BY <1>1 DEF IInv, LockExclusion, ClaimsHaveProjects, FreshIdsDiffer
<1> QED
  BY <1>4, <1>5, <1>6 DEF IInv

LEMMA TopupCommitKeeps ==
    ASSUME IInv, NEW h \in Handlers, TopupCommit(h)
    PROVE  IInv'
<1> DEFINE t == req[h].topup
           m == topups[t].manager
<1>1. /\ req[h] \in TopupReviews /\ TopupReviewFits(h) /\ pc[h] = "TopupCommit"
      /\ t \in Topups /\ topups[t] \in TopupRow /\ TablesTypeOK
  BY DEF TopupCommit, IInv, TypeOK, RequestFits, HandlerFits, TopupReviews,
     TopupReviewFits, TablesTypeOK
<1>2. /\ topups' = [topups EXCEPT ![t].status = req[h].status]
      /\ managers' = [managers EXCEPT ![m].budget_available =
                        @ + TopupCredit(t, req[h].status)]
      /\ UNCHANGED <<employees, projects, claims, payouts>> /\ Return(h)
  BY DEF TopupCommit
<1>3. m \in Managers /\ topups[t].amount \in Nat
  BY <1>1, AmountsAssumption DEF TopupRow
<1>4. TablesTypeOK'
  <2>1. topups'[t] \in TopupRow
    BY <1>1, <1>2 DEF TopupReviews, TopupRow, TablesTypeOK
  <2>2. managers'[m] \in ManagerRow
    BY <1>1, <1>2, <1>3 DEF TablesTypeOK, ManagerRow, TopupCredit
  <2>3. topups' \in [Topups -> TopupRow \cup {NoRow}]
    BY <1>1, <1>2, <2>1 DEF TablesTypeOK
  <2>4. managers' \in [Managers -> ManagerRow]
    BY <1>1, <1>2, <1>3, <2>2 DEF TablesTypeOK
  <2> QED
    BY <1>1, <1>2, <2>3, <2>4 DEF TablesTypeOK
<1>5. ClaimsHaveProjects'
  BY <1>2 DEF IInv, ClaimsHaveProjects
<1>6. ASSUME NEW g \in Handlers \ {h}  PROVE RowsKept(g)
  <2>1. <<"budget_topups", t>> \notin held[g]
    BY <1>1 DEF TopupReviewFits, TopupReviews, IInv, LockExclusion
  <2>2. req[h].status = "approved" => <<"managers", m>> \notin held[g]
    BY <1>1 DEF TopupReviewFits, IInv, LockExclusion
  <2>3. req[h].status = "rejected" => managers' = managers
    BY <1>1, <1>2, <1>3 DEF TablesTypeOK, ManagerRow, TopupCredit
  <2>4. topups'[t] # NoRow /\ topups'[t].manager = topups[t].manager
    BY <1>1, <1>2, <1>4, NoRowAssumption DEF TablesTypeOK, TopupRow, TopupReviews
  <2>5. \A u \in Topups : u # t => topups'[u] = topups[u]
    BY <1>1, <1>2 DEF TablesTypeOK
  <2>6. \A n \in Managers : <<"managers", n>> \in held[g] => managers'[n] = managers[n]
    BY <1>1, <1>2, <2>2, <2>3 DEF TablesTypeOK, TopupReviews
  <2> QED
    BY <1>2, <2>1, <2>4, <2>5, <2>6 DEF RowsKept
<1> QED
  BY <1>2, <1>4, <1>5, <1>6, CommitKeeps

LEMMA ProjectCommitKeeps ==
    ASSUME IInv, NEW h \in Handlers, ProjectCommit(h)
    PROVE  IInv'
<1> DEFINE r == req[h]
           row == [manager |-> r.manager, claim_amount |-> r.claim_amount,
                   envelope_total |-> r.envelope_total,
                   envelope_remaining |-> r.envelope_total,
                   status |-> "open", deleted |-> FALSE]
<1>1. /\ r \in ProjectCreations /\ ProjectCreationFits(h) /\ pc[h] = "ProjectCommit"
      /\ TablesTypeOK
  BY DEF ProjectCommit, IInv, TypeOK, RequestFits, HandlerFits
<1>2. /\ managers' = [managers EXCEPT
              ![r.manager].budget_available = @ - r.envelope_total,
              ![r.manager].budget_locked    = @ + r.envelope_total]
      /\ projects' = [projects EXCEPT ![r.project] = row]
      /\ UNCHANGED <<employees, topups, claims, payouts>> /\ Return(h)
  BY DEF ProjectCommit
<1>3. row \in ProjectRow /\ r.manager \in Managers /\ r.project \in Projects
        /\ r.envelope_total \in Nat
  BY <1>1, AmountsAssumption DEF ProjectCreations, ProjectRow
<1> HIDE DEF row
<1>4. TablesTypeOK'
  <2>1. managers'[r.manager] \in ManagerRow
    <3> DEFINE old == managers[r.manager]
    <3>1. old \in ManagerRow /\ old.budget_available >= r.envelope_total
      BY <1>1, <1>3 DEF TablesTypeOK, ProjectCreationFits, BudgetSuffices
    <3>2. managers'[r.manager] =
            [old EXCEPT !.budget_available = @ - r.envelope_total,
                        !.budget_locked = @ + r.envelope_total]
      BY <1>1, <1>2, <1>3 DEF TablesTypeOK
    <3>3. /\ old.budget_available - r.envelope_total \in Nat
          /\ old.budget_locked + r.envelope_total \in Nat
      BY <1>3, <3>1 DEF ManagerRow
    <3> HIDE DEF old
    <3> QED
      BY <3>1, <3>2, <3>3 DEF ManagerRow
  <2>2. managers' \in [Managers -> ManagerRow]
    BY <1>1, <1>2, <1>3, <2>1 DEF TablesTypeOK
  <2>3. projects' \in [Projects -> ProjectRow \cup {NoRow}]
    BY <1>1, <1>2, <1>3 DEF TablesTypeOK
  <2> QED
    BY <1>1, <1>2, <2>2, <2>3 DEF TablesTypeOK
<1>5. ClaimsHaveProjects'
  BY <1>1, <1>2, <1>3, NoRowAssumption DEF IInv, ClaimsHaveProjects, TablesTypeOK, ClaimRow
<1>6. ASSUME NEW g \in Handlers \ {h}  PROVE RowsKept(g)
  <2>1. <<"managers", r.manager>> \notin held[g]
    BY <1>1 DEF ProjectCreationFits, IInv, LockExclusion
  <2>2. projects[r.project] = NoRow
    BY <1>1 DEF ProjectCreationFits
  <2>3. pc[g] \in CreateProjectSteps => req[g].project # r.project
    BY <1>1 DEF IInv, FreshIdsDiffer
  <2>4. \A p \in Projects : p # r.project => projects'[p] = projects[p]
    BY <1>1, <1>2 DEF TablesTypeOK
  <2>5. \A n \in Managers : n # r.manager => managers'[n] = managers[n]
    BY <1>1, <1>2 DEF TablesTypeOK
  <2> QED
    BY <1>2, <2>1, <2>2, <2>3, <2>4, <2>5 DEF RowsKept
<1> QED
  BY <1>2, <1>4, <1>5, <1>6, CommitKeeps

LEMMA SetDeletedKeeps ==
    ASSUME IInv, NEW h \in Handlers, ProjectDelete(h) \/ ProjectRestore(h)
    PROVE  IInv'
<1> DEFINE p == req[h].project
<1>1. /\ req[h] \in ProjectTargets /\ projects[p] # NoRow /\ TablesTypeOK
  BY DEF ProjectDelete, ProjectRestore, IInv, TypeOK, RequestFits, HandlerFits,
     ProjectTargetFits
<1>2. PICK deleted \in BOOLEAN :
        /\ ~Locked(h, <<"projects", p>>)
        /\ projects' = [projects EXCEPT ![p].deleted = deleted]
        /\ UNCHANGED <<managers, employees, topups, claims, payouts>> /\ Return(h)
  BY DEF ProjectDelete, ProjectRestore, SetDeleted
<1>3. p \in Projects /\ projects[p] \in ProjectRow
  BY <1>1 DEF ProjectTargets, TablesTypeOK
<1>4. projects'[p] \in ProjectRow
  BY <1>1, <1>2, <1>3 DEF TablesTypeOK, ProjectRow
<1>5. TablesTypeOK'
  BY <1>1, <1>2, <1>4 DEF TablesTypeOK
<1>6. \A q \in Projects : q # p => projects'[q] = projects[q]
  BY <1>1, <1>2 DEF TablesTypeOK
<1>7. projects'[p] # NoRow
  BY <1>4, NoRowAssumption
<1>8. ClaimsHaveProjects'
  BY <1>1, <1>2, <1>6, <1>7, NoRowAssumption DEF IInv, ClaimsHaveProjects, TablesTypeOK, ClaimRow
<1>9. projects'[p].manager = projects[p].manager
        /\ projects'[p].claim_amount = projects[p].claim_amount
  BY <1>1, <1>2, <1>3 DEF TablesTypeOK, ProjectRow
<1>10. ASSUME NEW g \in Handlers \ {h}  PROVE RowsKept(g)
  <2>1. <<"projects", p>> \notin held[g]
    BY <1>2 DEF Locked
  <2>2. pc[g] \in CreateProjectSteps => req[g].project # p
    BY <1>1 DEF IInv, HandlerFits, ProjectCreationFits
  <2> QED
    BY <1>2, <1>6, <1>7, <1>9, <2>1, <2>2 DEF RowsKept
<1> QED
  BY <1>2, <1>5, <1>8, <1>10, CommitKeeps

LEMMA ClaimCreateKeeps ==
    ASSUME IInv, NEW h \in Handlers, ClaimCreate(h)
    PROVE  IInv'
<1>1. CASE Rollback(h)
  BY <1>1, RollbackKeeps
<1>2. CASE ~Rollback(h)
  <2> DEFINE row == [project |-> req[h].project, employee |-> req[h].employee,
                     status |-> "pending"]
  <2>1. PICK c \in Claims :
          /\ claims[c] = NoRow /\ claims' = [claims EXCEPT ![c] = row] /\ Return(h)
          /\ UNCHANGED <<managers, employees, topups, projects, payouts>>
    BY <1>2 DEF ClaimCreate
  <2>2. req[h] \in ClaimCreations /\ projects[req[h].project] # NoRow /\ TablesTypeOK
    BY DEF ClaimCreate, IInv, TypeOK, RequestFits, HandlerFits, ClaimCreationFits
  <2>3. row \in ClaimRow
    BY <2>2 DEF ClaimCreations, ClaimRow
  <2>4. TablesTypeOK'
    BY <2>1, <2>2, <2>3 DEF TablesTypeOK
  <2>5. ClaimsHaveProjects'
    BY <2>1, <2>2 DEF IInv, ClaimsHaveProjects, TablesTypeOK
  <2>6. \A g \in Handlers : RowsKept(g)
    BY <2>1, <2>2 DEF RowsKept, TablesTypeOK
  <2> QED
    BY <2>1, <2>4, <2>5, <2>6, CommitKeeps
<1> QED
  BY <1>1, <1>2

LEMMA ClaimRejectKeeps ==
    ASSUME IInv, NEW h \in Handlers, ClaimReject(h)
    PROVE  IInv'
<1> DEFINE c == req[h].claim
<1>1. /\ req[h] \in ClaimReviews /\ claims[c] # NoRow /\ TablesTypeOK
      /\ c \in Claims /\ claims[c] \in ClaimRow
  BY DEF ClaimReject, IInv, TypeOK, RequestFits, HandlerFits, ClaimReviewFits,
     ClaimReviews, TablesTypeOK
<1>2. /\ claims' = [claims EXCEPT ![c].status = "rejected"] /\ Return(h)
      /\ UNCHANGED <<managers, employees, topups, projects, payouts>>
  BY DEF ClaimReject
<1>3. /\ claims'[c] \in ClaimRow /\ claims'[c].project = claims[c].project
      /\ claims'[c].employee = claims[c].employee
  BY <1>1, <1>2 DEF TablesTypeOK, ClaimRow
<1>4. TablesTypeOK'
  BY <1>1, <1>2, <1>3 DEF TablesTypeOK
<1>5. \A d \in Claims : d # c => claims'[d] = claims[d]
  BY <1>1, <1>2 DEF TablesTypeOK
<1>6. ClaimsHaveProjects'
  BY <1>1, <1>2, <1>3, <1>5 DEF IInv, ClaimsHaveProjects
<1>7. \A g \in Handlers : RowsKept(g)
  BY <1>1, <1>2, <1>3, <1>5, NoRowAssumption DEF RowsKept
<1> QED
  BY <1>2, <1>4, <1>6, <1>7, CommitKeeps

LEMMA ClaimCommitKeeps ==
    ASSUME IInv, NEW h \in Handlers, ClaimCommit(h)
    PROVE  IInv'
<1> DEFINE c == req[h].claim
           p == ProjectOf(h)
           m == ManagerOf(h)
           e == claims[c].employee
           amount == AmountOf(h)
<1>1. /\ req[h] \in ClaimReviews /\ ClaimReviewFits(h) /\ pc[h] = "ClaimCommit"
      /\ TablesTypeOK /\ c \in Claims /\ claims[c] \in ClaimRow /\ claims[c] # NoRow
  BY DEF ClaimCommit, IInv, TypeOK, RequestFits, HandlerFits, ClaimReviewFits,
     ClaimReviews, TablesTypeOK
<1>2. /\ projects' = [projects EXCEPT ![p].envelope_remaining = @ - amount]
      /\ managers' = [managers EXCEPT ![m].budget_locked = @ - amount]
      /\ employees' = [employees EXCEPT ![e].reimburse_available = @ + amount]
      /\ claims' = [claims EXCEPT ![c].status = "approved"]
      /\ UNCHANGED <<topups, payouts>> /\ Return(h)
  BY DEF ClaimCommit
<1>3. /\ p \in Projects /\ projects[p] \in ProjectRow /\ projects[p] # NoRow
      /\ e \in Employees
  BY <1>1 DEF IInv, ClaimsHaveProjects, TablesTypeOK, ClaimRow, ProjectOf
<1>4. m \in Managers /\ amount \in Nat
  BY <1>3, AmountsAssumption DEF ProjectRow, ManagerOf, AmountOf
<1>5. /\ projects[p].envelope_remaining >= amount
      /\ managers[m].budget_locked >= amount
  BY <1>1 DEF ClaimReviewFits, EnvelopeSuffices
<1>6. held[h] = {<<"projects", p>>, <<"managers", m>>, <<"employees", e>>,
                 <<"expense_claims", c>>}
  BY <1>1 DEF ClaimReviewFits
<1> HIDE DEF c, p, m, e, amount
<1>7. /\ claims'[c] \in ClaimRow /\ claims'[c].project = claims[c].project
      /\ claims'[c].employee = claims[c].employee
      /\ \A d \in Claims : d # c => claims'[d] = claims[d]
  BY <1>1, <1>2 DEF TablesTypeOK, ClaimRow
<1>8. /\ projects'[p] \in ProjectRow /\ projects'[p].manager = projects[p].manager
      /\ projects'[p].claim_amount = projects[p].claim_amount
      /\ \A q \in Projects : q # p => projects'[q] = projects[q]
  <2>1. projects[p].envelope_remaining - amount \in Nat
    BY <1>3, <1>4, <1>5 DEF ProjectRow
  <2> QED
    BY <1>1, <1>2, <1>3, <2>1 DEF TablesTypeOK, ProjectRow
<1>9. /\ managers'[m] \in ManagerRow
      /\ \A n \in Managers : n # m => managers'[n] = managers[n]
  BY <1>1, <1>2, <1>4, <1>5 DEF TablesTypeOK, ManagerRow
<1>10. /\ employees'[e] \in EmployeeRow
       /\ \A f \in Employees : f # e => employees'[f] = employees[f]
  BY <1>1, <1>2, <1>3, <1>4 DEF TablesTypeOK, EmployeeRow
<1>11. TablesTypeOK'
  BY <1>1, <1>2, <1>7, <1>8, <1>9, <1>10 DEF TablesTypeOK
<1>12. ClaimsHaveProjects'
  BY <1>1, <1>3, <1>7, <1>8, NoRowAssumption DEF IInv, ClaimsHaveProjects, TablesTypeOK,
     ClaimRow
<1>13. ASSUME NEW g \in Handlers \ {h}  PROVE RowsKept(g)
  <2>1. held[g] \cap held[h] = {}
    BY DEF IInv, LockExclusion
  <2>2. pc[g] \in CreateProjectSteps => req[g].project # p
    BY <1>3 DEF IInv, HandlerFits, ProjectCreationFits
  <2>3. claims'[c] # NoRow /\ projects'[p] # NoRow
    BY <1>7, <1>8, NoRowAssumption
  <2>4. /\ <<"projects", p>> \notin held[g] /\ <<"managers", m>> \notin held[g]
        /\ <<"employees", e>> \notin held[g]
    BY <1>6, <2>1
  <2> QED
    BY <1>2, <1>7, <1>8, <1>9, <1>10, <2>2, <2>3, <2>4 DEF RowsKept
<1> QED
  BY <1>2, <1>11, <1>12, <1>13, CommitKeeps

LEMMA PayoutCreateCommitKeeps ==
    ASSUME IInv, NEW h \in Handlers, PayoutCreateCommit(h)
    PROVE  IInv'
<1> DEFINE r == req[h]
           row == [employee |-> r.employee, amount |-> r.amount, status |-> "pending"]
<1>1. /\ r \in PayoutCreations /\ PayoutCreationFits(h) /\ pc[h] = "PayoutCreateCommit"
      /\ TablesTypeOK
  BY DEF PayoutCreateCommit, IInv, TypeOK, RequestFits, HandlerFits
<1>2. /\ employees' = [employees EXCEPT
              ![r.employee].reimburse_available = @ - r.amount,
              ![r.employee].reimburse_locked    = @ + r.amount]
      /\ payouts' = [payouts EXCEPT ![r.payout] = row]
      /\ UNCHANGED <<managers, topups, projects, claims>> /\ Return(h)
  BY DEF PayoutCreateCommit
<1>3. /\ row \in PayoutRow /\ r.employee \in Employees /\ r.payout \in Payouts
      /\ r.amount \in Nat /\ payouts[r.payout] = NoRow
      /\ held[h] = {<<"employees", r.employee>>}
  BY <1>1, AmountsAssumption DEF PayoutCreations, PayoutRow, PayoutCreationFits
<1>4. employees'[r.employee] \in EmployeeRow
  <2> DEFINE old == employees[r.employee]
  <2>1. old \in EmployeeRow /\ old.reimburse_available >= r.amount
    BY <1>1, <1>3 DEF TablesTypeOK, PayoutCreationFits, BalanceSuffices
  <2>2. employees'[r.employee] =
          [old EXCEPT !.reimburse_available = @ - r.amount,
                      !.reimburse_locked = @ + r.amount]
    BY <1>1, <1>2, <1>3 DEF TablesTypeOK
  <2>3. /\ old.reimburse_available - r.amount \in Nat
        /\ old.reimburse_locked + r.amount \in Nat
    BY <1>3, <2>1 DEF EmployeeRow
  <2> HIDE DEF old
  <2> QED
    BY <2>1, <2>2, <2>3 DEF EmployeeRow
<1> HIDE DEF row
<1>5. TablesTypeOK'
  BY <1>1, <1>2, <1>3, <1>4 DEF TablesTypeOK
<1>6. ClaimsHaveProjects'
  BY <1>2 DEF IInv, ClaimsHaveProjects
<1>7. ASSUME NEW g \in Handlers \ {h}  PROVE RowsKept(g)
  <2>1. <<"employees", r.employee>> \notin held[g]
    BY <1>3 DEF IInv, LockExclusion
  <2>2. pc[g] \in CreatePayoutSteps => req[g].payout # r.payout
    BY <1>1 DEF IInv, FreshIdsDiffer
  <2>3. \A y \in Payouts : y # r.payout => payouts'[y] = payouts[y]
    BY <1>1, <1>2 DEF TablesTypeOK
  <2>4. \A f \in Employees : f # r.employee => employees'[f] = employees[f]
    BY <1>1, <1>2 DEF TablesTypeOK
  <2> QED
    BY <1>2, <1>3, <2>1, <2>2, <2>3, <2>4 DEF RowsKept
<1> QED
  BY <1>2, <1>5, <1>6, <1>7, CommitKeeps

LEMMA PayoutCommitKeeps ==
    ASSUME IInv, NEW h \in Handlers, PayoutCommit(h)
    PROVE  IInv'
<1> DEFINE y == req[h].payout
           e == PaidEmployee(h)
           amount == PaidAmount(h)
<1>1. /\ req[h] \in PayoutReviews /\ PayoutReviewFits(h) /\ pc[h] = "PayoutCommit"
      /\ TablesTypeOK /\ y \in Payouts /\ payouts[y] \in PayoutRow
  BY DEF PayoutCommit, IInv, TypeOK, RequestFits, HandlerFits, PayoutReviewFits,
     PayoutReviews, TablesTypeOK
<1>2. /\ employees' = [employees EXCEPT
             ![e].reimburse_locked    = @ - amount,
             ![e].reimburse_available = @ + Released(h)]
      /\ payouts' = [payouts EXCEPT ![y].status = req[h].status]
      /\ UNCHANGED <<managers, topups, projects, claims>> /\ Return(h)
  BY DEF PayoutCommit
<1>3. /\ e \in Employees /\ amount \in Nat /\ Released(h) \in Nat
      /\ employees[e].reimburse_locked >= amount
      /\ held[h] = {<<"employees", e>>, <<"payouts", y>>}
  BY <1>1, AmountsAssumption DEF PayoutReviewFits, LockedSuffices, PayoutRow, PaidEmployee,
     PaidAmount, Released
<1>4. employees'[e] \in EmployeeRow
  <2> DEFINE old == employees[e]
  <2>1. old \in EmployeeRow /\ old.reimburse_locked >= amount
    BY <1>1, <1>3 DEF TablesTypeOK
  <2>2. employees'[e] =
          [old EXCEPT !.reimburse_locked = @ - amount,
                      !.reimburse_available = @ + Released(h)]
    BY <1>1, <1>2, <1>3 DEF TablesTypeOK
  <2>3. /\ old.reimburse_locked - amount \in Nat
        /\ old.reimburse_available + Released(h) \in Nat
    BY <1>3, <2>1 DEF EmployeeRow
  <2> HIDE DEF old
  <2> QED
    BY <2>1, <2>2, <2>3 DEF EmployeeRow
<1>5. /\ payouts'[y] \in PayoutRow /\ payouts'[y].employee = payouts[y].employee
      /\ payouts'[y].amount = payouts[y].amount
      /\ \A z \in Payouts : z # y => payouts'[z] = payouts[z]
  BY <1>1, <1>2 DEF TablesTypeOK, PayoutRow, PayoutReviews
<1> HIDE DEF y, e, amount
<1>6. TablesTypeOK'
  BY <1>1, <1>2, <1>3, <1>4, <1>5 DEF TablesTypeOK
<1>7. ClaimsHaveProjects'
  BY <1>2 DEF IInv, ClaimsHaveProjects
<1>8. ASSUME NEW g \in Handlers \ {h}  PROVE RowsKept(g)
  <2>1. <<"employees", e>> \notin held[g]
    BY <1>3 DEF IInv, LockExclusion
  <2>2. pc[g] \in CreatePayoutSteps => req[g].payout # y
    BY <1>1 DEF IInv, HandlerFits, PayoutCreationFits, PayoutReviewFits, y
  <2>3. payouts'[y] # NoRow
    BY <1>5, NoRowAssumption
  <2>4. \A f \in Employees : f # e => employees'[f] = employees[f]
    BY <1>1, <1>2 DEF TablesTypeOK
  <2> QED
    BY <1>2, <1>5, <2>1, <2>2, <2>3, <2>4 DEF RowsKept
<1> QED
  BY <1>2, <1>6, <1>7, <1>8, CommitKeeps

-----------------------------------------------------------------------------
(* The theorems. *)

LEMMA InitIInv == Init => IInv
<1> SUFFICES ASSUME Init  PROVE IInv
  OBVIOUS
<1>1. TablesTypeOK
  BY OpeningAssumption DEF Init, TablesInit, TablesTypeOK, ManagerRow, EmployeeRow
<1>2. TypeOK
  BY <1>1 DEF Init, TablesInit, TypeOK, RequestFits
<1>3. LockExclusion /\ ClaimsHaveProjects /\ FreshIdsDiffer
  BY DEF Init, TablesInit, LockExclusion, ClaimsHaveProjects, FreshIdsDiffer
<1>4. \A h \in Handlers : HandlerFits(h)
  BY DEF Init, TablesInit, HandlerFits
<1> QED
  BY <1>2, <1>3, <1>4 DEF IInv

LEMMA StepKeeps ==
    ASSUME IInv, NEW h \in Handlers, Step(h)
    PROVE  IInv'
<1>1. CASE TopupNext(h)
  BY <1>1, TopupStatementKeeps, TopupCommitKeeps DEF TopupNext
<1>2. CASE ProjectNext(h)
  BY <1>2, LockEnvelopeKeeps, ProjectCommitKeeps, SetDeletedKeeps DEF ProjectNext
<1>3. CASE ClaimNext(h)
  BY <1>3, ClaimReadKeeps, ClaimCreateKeeps, ClaimRejectKeeps, ApproveStatementKeeps,
     ClaimCommitKeeps DEF ClaimNext
<1>4. CASE PayoutNext(h)
  BY <1>4, LockForPayoutKeeps, PayoutCreateCommitKeeps, PayoutStatementKeeps,
     PayoutCommitKeeps DEF PayoutNext
<1> QED
  BY <1>1, <1>2, <1>3, <1>4 DEF Step

LEMMA StutterKeeps == IInv /\ UNCHANGED vars => IInv'
<1> SUFFICES ASSUME IInv, UNCHANGED vars  PROVE IInv'
  OBVIOUS
<1>1. \A g \in Handlers : HandlerKept(g) /\ RowsKept(g)
  BY DEF HandlerKept, RowsKept, vars, tables
<1>2. \A g \in Handlers : RequestFits(g)' /\ HandlerFits(g)'
  BY <1>1, RequestKept, HandlerStays DEF IInv, TypeOK
<1>3. TypeOK'
  BY <1>2 DEF IInv, TypeOK, TablesTypeOK, vars, tables
<1>4. LockExclusion' /\ ClaimsHaveProjects' /\ FreshIdsDiffer'
  BY DEF IInv, LockExclusion, ClaimsHaveProjects, FreshIdsDiffer, vars, tables
<1> QED
  BY <1>2, <1>3, <1>4 DEF IInv

LEMMA NextKeeps == IInv /\ [Next]_vars => IInv'
<1> SUFFICES ASSUME IInv, [Next]_vars  PROVE IInv'
  OBVIOUS
<1>1. ASSUME NEW m \in Managers, NEW t \in Topups, NEW amount \in Amounts,
             CreateTopup(m, t, amount)
      PROVE  IInv'
  BY <1>1, CreateTopupKeeps
<1>2. ASSUME NEW h \in Handlers, Request(h)  PROVE IInv'
  BY <1>2, RequestKeeps
<1>3. ASSUME NEW h \in Handlers, Step(h)  PROVE IInv'
  BY <1>3, StepKeeps
<1>4. ASSUME NEW h \in Handlers, Abort(h)  PROVE IInv'
  BY <1>4, RollbackKeeps DEF Abort
<1>5. CASE UNCHANGED vars
  BY <1>5, StutterKeeps
<1> QED
  BY <1>1, <1>2, <1>3, <1>4, <1>5 DEF Next

(* In every behaviour of the server, at every statement: a handler holds   *)
(* exactly the row locks its statements took, and what it checked before   *)
(* still holds.  (Update, Return: db.Transaction and PostgreSQL's locks.)  *)
THEOREM InductiveInvariant == Spec => []IInv
  BY InitIInv, NextKeeps, PTL DEF Spec

(* Balances never become negative, whatever handlers race: the CHECK       *)
(* constraints of the migrations are never the thing that saves them.      *)
THEOREM TypeCorrect == Spec => []TypeOK
<1>1. IInv => TypeOK
  BY DEF IInv
<1> QED
  BY <1>1, InductiveInvariant, PTL

-----------------------------------------------------------------------------
(* What the steps may not do.  Only a few of them change a table           *)
(* (WritesAtCommit); the conditions that IInv keeps true under the row     *)
(* locks settle each of these.                                             *)

(* The steps of handler h that publish something.                          *)
Commits(h) ==
    \/ TopupCommit(h)
    \/ ProjectCommit(h) \/ ProjectDelete(h) \/ ProjectRestore(h)
    \/ ClaimCreate(h) \/ ClaimReject(h) \/ ClaimCommit(h)
    \/ PayoutCreateCommit(h) \/ PayoutCommit(h)

(* Requests that arrive leave the tables alone.                            *)
LEMMA RequestsRead ==
    ASSUME NEW h \in Handlers, Request(h)
    PROVE  UNCHANGED tables
BY DEF Request, ReviewTopup, CreateProject, DeleteProject, RestoreProject,
       CreateClaim, ReviewClaim, CreatePayout, ReviewPayout, Begin

(* The statements before the last only take locks or roll back.            *)
LEMMA StatementsRead ==
    ASSUME NEW h \in Handlers, Step(h), ~Commits(h)
    PROVE  UNCHANGED tables
<1>1. CASE TopupNext(h)
  BY <1>1 DEF TopupNext, Commits, TopupUpdateStatus, TopupIncrementAvailable,
              Update, Rollback, tables
<1>2. CASE ProjectNext(h)
  BY <1>2 DEF ProjectNext, Commits, LockEnvelope, Update, Rollback, tables
<1>3. CASE ClaimNext(h)
  BY <1>3 DEF ClaimNext, Commits, ClaimExists, ClaimFindProject, DecrementEnvelope,
              DecrementLocked, CreditEmployee, ClaimUpdateStatus, Update, Rollback,
              tables
<1>4. CASE PayoutNext(h)
  BY <1>4 DEF PayoutNext, Commits, LockForPayout, PayoutSettle, PayoutUpdateReview,
              Update, Rollback, tables
<1> QED
  BY <1>1, <1>2, <1>3, <1>4 DEF Step

LEMMA WritesAtCommit ==
    ASSUME [Next]_vars
    PROVE  \/ UNCHANGED tables
           \/ \E m \in Managers, t \in Topups, a \in Amounts : CreateTopup(m, t, a)
           \/ \E h \in Handlers : Commits(h)
<1>1. ASSUME NEW h \in Handlers, Step(h)
      PROVE  Commits(h) \/ UNCHANGED tables
  BY <1>1, StatementsRead
<1>2. ASSUME NEW h \in Handlers, Abort(h)
      PROVE  UNCHANGED tables
  BY <1>2 DEF Abort, Rollback
<1>3. CASE UNCHANGED vars
  BY <1>3 DEF vars
<1> QED
  BY <1>1, <1>2, <1>3, RequestsRead DEF Next

-----------------------------------------------------------------------------
(* A decided top-up stays decided: the second of two reviewers finds the   *)
(* WHERE clause of UpdateStatus false, and what it found true holds until  *)
(* it commits.                                                             *)
THEOREM TopupsDecidedOnce == Spec => ReviewedTopupIsFinal
<1> DEFINE Decided(t) == topups[t] # NoRow /\ topups[t].status # "pending"
           Final == \A t \in Topups : Decided(t) => topups'[t] = topups[t]
<1>1. IInv /\ [Next]_vars => [Final]_vars
  <2> SUFFICES ASSUME IInv, [Next]_vars, NEW t \in Topups, Decided(t)
               PROVE  topups'[t] = topups[t]
    OBVIOUS
  <2>1. topups \in [Topups -> TopupRow \cup {NoRow}]
    BY DEF IInv, TypeOK, TablesTypeOK
  <2>2. CASE UNCHANGED tables
    BY <2>2 DEF tables
  <2>3. ASSUME NEW m \in Managers, NEW u \in Topups, NEW a \in Amounts,
               CreateTopup(m, u, a)
        PROVE  topups'[t] = topups[t]
    BY <2>1, <2>3 DEF CreateTopup
  <2>4. ASSUME NEW h \in Handlers, Commits(h)
        PROVE  topups'[t] = topups[t]
    <3>1. CASE TopupCommit(h)
      <4>1. pc[h] = "TopupCommit" /\ HandlerFits(h)
        BY <3>1 DEF TopupCommit, IInv
      <4>2. TopupIsPending(req[h].topup)
        BY <4>1 DEF HandlerFits, TopupReviewFits
      <4>3. req[h].topup # t
        BY <4>2 DEF TopupIsPending
      <4> QED
        BY <2>1, <3>1, <4>3 DEF TopupCommit
    <3>2. CASE ~TopupCommit(h)
      BY <2>4, <3>2 DEF Commits, ProjectCommit, ProjectDelete, ProjectRestore, SetDeleted,
             ClaimCreate, ClaimReject, ClaimCommit, PayoutCreateCommit, PayoutCommit,
             Rollback, tables
    <3> QED
      BY <3>1, <3>2
  <2> QED
    BY <2>2, <2>3, <2>4, WritesAtCommit
<1> QED
  BY <1>1, InductiveInvariant, PTL DEF Spec, ReviewedTopupIsFinal

(* Nothing leaves the envelope of a deleted project: DecrementEnvelope saw *)
(* it undeleted, and deleting it waits for the row lock until the approval *)
(* has committed.                                                          *)
THEOREM DeletedProjectsKeepEnvelopes == Spec => DeletedProjectsSpendNothing
<1> DEFINE Deleted(p) == projects[p] # NoRow /\ projects[p].deleted
           Kept == \A p \in Projects : Deleted(p) =>
                     projects'[p].envelope_remaining = projects[p].envelope_remaining
<1>1. IInv /\ [Next]_vars => [Kept]_vars
  <2> SUFFICES ASSUME IInv, [Next]_vars, NEW p \in Projects, Deleted(p)
               PROVE  projects'[p].envelope_remaining = projects[p].envelope_remaining
    OBVIOUS
  <2>1. projects \in [Projects -> ProjectRow \cup {NoRow}] /\ projects[p] \in ProjectRow
    BY DEF IInv, TypeOK, TablesTypeOK
  <2>2. CASE UNCHANGED projects
    BY <2>2
  <2>3. ASSUME NEW h \in Handlers, ProjectCommit(h)
        PROVE  projects'[p].envelope_remaining = projects[p].envelope_remaining
    <3>1. projects[req[h].project] = NoRow
      BY <2>3 DEF ProjectCommit, IInv, HandlerFits, ProjectCreationFits
    <3> QED
      BY <2>1, <2>3, <3>1 DEF ProjectCommit
  <2>4. ASSUME NEW h \in Handlers, ProjectDelete(h) \/ ProjectRestore(h)
        PROVE  projects'[p].envelope_remaining = projects[p].envelope_remaining
    BY <2>1, <2>4 DEF ProjectDelete, ProjectRestore, SetDeleted, ProjectRow
  <2>5. ASSUME NEW h \in Handlers, ClaimCommit(h)
        PROVE  projects'[p].envelope_remaining = projects[p].envelope_remaining
    <3>1. EnvelopeSuffices(ProjectOf(h), AmountOf(h))
      BY <2>5 DEF ClaimCommit, IInv, HandlerFits, ClaimReviewFits
    <3>2. ProjectOf(h) # p
      BY <3>1 DEF EnvelopeSuffices
    <3> QED
      BY <2>1, <2>5, <3>2 DEF ClaimCommit
  <2>6. ASSUME NEW h \in Handlers, Commits(h), ~ProjectCommit(h), ~ProjectDelete(h),
               ~ProjectRestore(h), ~ClaimCommit(h)
        PROVE  UNCHANGED projects
    BY <2>6 DEF Commits, TopupCommit, ClaimCreate, ClaimReject, PayoutCreateCommit,
                PayoutCommit, Rollback, tables
  <2>7. UNCHANGED projects \/ \E h \in Handlers : Commits(h)
    BY WritesAtCommit DEF CreateTopup, tables
  <2> QED
    BY <2>2, <2>3, <2>4, <2>5, <2>6, <2>7
<1> QED
  BY <1>1, InductiveInvariant, PTL DEF Spec, DeletedProjectsSpendNothing

(* The UNIQUE constraint makes up for the gap between the check for an     *)
(* earlier claim and the INSERT.                                           *)
THEOREM ClaimsAreUnique == Spec => []OneClaimPerPair
<1>1. Init => OneClaimPerPair
  BY DEF Init, TablesInit, OneClaimPerPair
<1>2. IInv /\ OneClaimPerPair /\ [Next]_vars => OneClaimPerPair'
  <2> SUFFICES ASSUME IInv, OneClaimPerPair, [Next]_vars  PROVE OneClaimPerPair'
    OBVIOUS
  <2>1. claims \in [Claims -> ClaimRow \cup {NoRow}]
    BY DEF IInv, TypeOK, TablesTypeOK
  <2>2. CASE UNCHANGED claims
    BY <2>2 DEF OneClaimPerPair
  <2>3. ASSUME NEW h \in Handlers, ClaimCreate(h)
        PROVE  OneClaimPerPair'
    <3>1. CASE UNCHANGED claims
      BY <3>1, <2>2
    <3>2. CASE ~UNCHANGED claims
      <4> DEFINE new == [project |-> req[h].project, employee |-> req[h].employee,
                         status |-> "pending"]
      <4>1. ~HasClaim(req[h].project, req[h].employee)
        BY <2>3, <3>2 DEF ClaimCreate, ClaimIsUnique, Rollback, tables
      <4>2. PICK c \in Claims : claims' = [claims EXCEPT ![c] = new]
        BY <2>3, <3>2 DEF ClaimCreate, Rollback, tables
      <4>3. \A d \in Claims : claims[d] # NoRow =>
              <<claims[d].project, claims[d].employee>> # <<new.project, new.employee>>
        BY <4>1 DEF HasClaim
      <4>4. claims'[c] = new /\ \A d \in Claims \ {c} : claims'[d] = claims[d]
        BY <2>1, <4>2
      <4> HIDE DEF new
      <4> QED
        BY <4>3, <4>4 DEF OneClaimPerPair
    <3> QED
      BY <3>1, <3>2
  <2>4. ASSUME NEW h \in Handlers, ClaimReject(h) \/ ClaimCommit(h)
        PROVE  OneClaimPerPair'
    <3>1. req[h].claim \in Claims /\ claims[req[h].claim] \in ClaimRow
      BY <2>1, <2>4 DEF ClaimReject, ClaimCommit, IInv, TypeOK, RequestFits, ClaimReviews,
                        HandlerFits, ClaimReviewFits
    <3>2. \A c \in Claims :
            /\ claims'[c] = NoRow <=> claims[c] = NoRow
            /\ claims'[c].project = claims[c].project
            /\ claims'[c].employee = claims[c].employee
      BY <2>1, <2>4, <3>1, NoRowAssumption DEF ClaimReject, ClaimCommit, ClaimRow
    <3> QED
      BY <3>2 DEF OneClaimPerPair
  <2>5. ASSUME NEW h \in Handlers, Commits(h), ~ClaimCreate(h), ~ClaimReject(h),
               ~ClaimCommit(h)
        PROVE  UNCHANGED claims
    BY <2>5 DEF Commits, TopupCommit, ProjectCommit, ProjectDelete, ProjectRestore,
                SetDeleted, PayoutCreateCommit, PayoutCommit
  <2>6. UNCHANGED claims \/ \E h \in Handlers : Commits(h)
    BY WritesAtCommit DEF CreateTopup, tables
  <2> QED
    BY <2>2, <2>3, <2>4, <2>5, <2>6
<1> QED
  BY <1>1, <1>2, InductiveInvariant, PTL DEF Spec

-----------------------------------------------------------------------------
(* Approvals and what the envelope has paid out. *)

Costs(n, amount, money) == n * amount <= money

Affordable(S, amount, money) ==
    /\ IsFiniteSet(S)
    /\ Costs(Cardinality(S), amount, money)

Funded(p) == Affordable(ApprovedClaimsOf(p), projects[p].claim_amount, Spent(p))

ClaimsFunded == \A p \in Projects : projects[p] # NoRow => Funded(p)

LEMMA AmountsFit ==
    ASSUME NEW p \in Projects, projects[p] \in ProjectRow
    PROVE  /\ projects[p].claim_amount \in Nat /\ projects[p].envelope_total \in Nat
           /\ projects[p].envelope_remaining \in Nat /\ Spent(p) \in Int
<1>1. /\ projects[p].claim_amount \in Amounts /\ projects[p].envelope_total \in Amounts
      /\ projects[p].envelope_remaining \in Nat
  BY DEF ProjectRow
<1>2. projects[p].claim_amount \in Nat /\ projects[p].envelope_total \in Nat
  BY <1>1, AmountsAssumption
<1>3. Spent(p) \in Int
  BY <1>1, <1>2 DEF Spent, EnvelopeTotal, EnvelopeRemaining
<1> QED BY <1>1, <1>2, <1>3

LEMMA FewerCostLess ==
    ASSUME NEW m \in Nat, NEW n \in Nat, NEW a \in Nat, NEW s \in Int, m <= n,
           Costs(n, a, s)
    PROVE  Costs(m, a, s)
<1>1. m * a <= n * a
  <2>1. (n - m) * a >= 0
    OBVIOUS
  <2>2. (n - m) * a = n * a - m * a
    OBVIOUS
  <2> QED BY <2>1, <2>2
<1> QED BY <1>1 DEF Costs

LEMMA OneMoreCosts ==
    ASSUME NEW m \in Nat, NEW n \in Nat, NEW a \in Nat, NEW s \in Int, n <= m + 1,
           Costs(m, a, s)
    PROVE  Costs(n, a, s + a)
<1>1. (m + 1) * a = m * a + a
  OBVIOUS
<1>2. m + 1 \in Nat /\ s + a \in Int /\ Costs(m + 1, a, s + a)
  BY <1>1 DEF Costs
<1> QED BY <1>2, FewerCostLess

LEMMA AffordableShrinks ==
    ASSUME NEW S, NEW T, T \subseteq S, NEW amount \in Nat, NEW money \in Int,
           Affordable(S, amount, money)
    PROVE  Affordable(T, amount, money)
<1>1. /\ Cardinality(S) \in Nat /\ Cardinality(T) \in Nat
      /\ Cardinality(T) <= Cardinality(S) /\ IsFiniteSet(T)
  BY FS_Subset, FS_CardinalityType DEF Affordable
<1>2. Costs(Cardinality(S), amount, money)
  BY DEF Affordable
<1>3. Costs(Cardinality(T), amount, money)
  BY <1>1, <1>2, FewerCostLess
<1> QED BY <1>1, <1>3 DEF Affordable

LEMMA AffordableGrows ==
    ASSUME NEW S, NEW T, NEW x, T \subseteq S \cup {x}, NEW amount \in Nat,
           NEW money \in Int, Affordable(S, amount, money)
    PROVE  Affordable(T, amount, money + amount)
<1> DEFINE more == S \cup {x}
<1>1. /\ IsFiniteSet(more) /\ Cardinality(S) \in Nat /\ Cardinality(more) \in Nat
      /\ Cardinality(more) <= Cardinality(S) + 1
  <2>1. IsFiniteSet(S)
    BY DEF Affordable
  <2>2. /\ IsFiniteSet(more)
        /\ Cardinality(more) = IF x \in S THEN Cardinality(S) ELSE Cardinality(S) + 1
    BY <2>1, FS_AddElement
  <2> HIDE DEF more
  <2>3. Cardinality(S) \in Nat /\ Cardinality(more) \in Nat
    BY <2>1, <2>2, FS_CardinalityType
  <2> QED BY <2>2, <2>3
<1>2. Costs(Cardinality(S), amount, money)
  BY DEF Affordable
<1> HIDE DEF more
<1>3. Costs(Cardinality(more), amount, money + amount)
  BY <1>1, <1>2, OneMoreCosts
<1>4. Affordable(more, amount, money + amount) /\ money + amount \in Int
  BY <1>1, <1>3 DEF Affordable
<1>5. T \subseteq more
  BY DEF more
<1> QED BY <1>4, <1>5, AffordableShrinks

(* Every commit but an approval's leaves what was spent from a project     *)
(* alone, unless it creates the project.                                   *)
KeepsMoney(p) ==
    /\ projects[p] # NoRow
    /\ projects'[p].claim_amount = projects[p].claim_amount
    /\ Spent(p)' = Spent(p)

StartsUnspent(p) ==
    /\ projects[p] = NoRow
    /\ projects'[p].claim_amount \in Nat
    /\ Spent(p)' = 0

LEMMA MoneyStays ==
    ASSUME IInv, NEW h \in Handlers, Commits(h), ~ClaimCommit(h),
           NEW p \in Projects, projects'[p] # NoRow
    PROVE  KeepsMoney(p) \/ StartsUnspent(p)
<1>0. projects \in [Projects -> ProjectRow \cup {NoRow}]
  BY DEF IInv, TypeOK, TablesTypeOK
<1>1. projects'[p] = projects[p] => KeepsMoney(p)
  BY DEF KeepsMoney, Spent, EnvelopeTotal, EnvelopeRemaining
<1>2. CASE ProjectCommit(h)
  <2>1. PICK q \in Projects :
          /\ q = req[h].project /\ projects[q] = NoRow
          /\ projects' = [projects EXCEPT ![q] =
               [manager |-> req[h].manager, claim_amount |-> req[h].claim_amount,
                envelope_total |-> req[h].envelope_total,
                envelope_remaining |-> req[h].envelope_total,
                status |-> "open", deleted |-> FALSE]]
    BY <1>2 DEF ProjectCommit, IInv, TypeOK, RequestFits, ProjectCreations, HandlerFits,
       ProjectCreationFits
  <2>2. CASE p # q
    BY <1>0, <1>1, <2>1, <2>2
  <2>3. CASE p = q
    <3>1. req[h].envelope_total \in Nat /\ req[h].claim_amount \in Nat
      BY <1>2, AmountsAssumption DEF ProjectCommit, IInv, TypeOK, RequestFits,
         ProjectCreations
    <3>2. Spent(p)' = 0 /\ projects'[p].claim_amount \in Nat /\ projects[p] = NoRow
      BY <1>0, <2>1, <2>3, <3>1 DEF Spent, EnvelopeTotal, EnvelopeRemaining
    <3> QED BY <3>2 DEF StartsUnspent
  <2> QED BY <2>2, <2>3
<1>3. CASE ProjectDelete(h) \/ ProjectRestore(h)
  <2>1. projects[req[h].project] # NoRow
    BY <1>3 DEF ProjectDelete, ProjectRestore, IInv, HandlerFits, ProjectTargetFits
  <2>2. /\ projects[p] # NoRow
        /\ projects'[p].claim_amount = projects[p].claim_amount
        /\ projects'[p].envelope_total = projects[p].envelope_total
        /\ projects'[p].envelope_remaining = projects[p].envelope_remaining
    BY <1>0, <1>3, <2>1 DEF ProjectDelete, ProjectRestore, SetDeleted, ProjectRow
  <2> QED BY <2>2 DEF KeepsMoney, Spent, EnvelopeTotal, EnvelopeRemaining
<1>4. CASE UNCHANGED projects
  BY <1>1, <1>4
<1> QED
  BY <1>2, <1>3, <1>4 DEF Commits, TopupCommit, ClaimCreate, ClaimReject, PayoutCreateCommit,
     PayoutCommit, Rollback, tables

(* A claim keeps its project, and only an approval approves it.            *)
LEMMA ClaimsStay ==
    ASSUME IInv, NEW h \in Handlers, Commits(h), NEW c \in Claims
    PROVE  /\ claims[c] # NoRow => claims'[c].project = claims[c].project
           /\ ~ClaimCommit(h) /\ claims'[c] # NoRow /\ claims'[c].status = "approved"
                => claims'[c] = claims[c]
<1>0. claims \in [Claims -> ClaimRow \cup {NoRow}]
  BY DEF IInv, TypeOK, TablesTypeOK
<1>1. CASE ClaimReject(h) \/ ClaimCommit(h)
  <2>1. PICK d \in Claims, status \in {"rejected", "approved"} :
          /\ claims[d] \in ClaimRow
          /\ claims' = [claims EXCEPT ![d].status = status]
          /\ ~ClaimCommit(h) => status = "rejected"
    BY <1>0, <1>1 DEF ClaimReject, ClaimCommit, IInv, TypeOK, HandlerFits, ClaimReviewFits,
       RequestFits, ClaimReviews
  <2>2. /\ \A e \in Claims \ {d} : claims'[e] = claims[e]
        /\ claims'[d].project = claims[d].project /\ claims'[d].status = status
    BY <1>0, <2>1 DEF ClaimRow
  <2> QED BY <2>1, <2>2
<1>2. CASE ClaimCreate(h)
  BY <1>0, <1>2 DEF ClaimCreate, Rollback, tables
<1>3. CASE UNCHANGED claims
  BY <1>3
<1> QED
  BY <1>1, <1>2, <1>3 DEF Commits, TopupCommit, ProjectCommit, ProjectDelete, ProjectRestore,
     SetDeleted, PayoutCreateCommit, PayoutCommit

(* What an approval of c does to its project q, and to the others.         *)
Pays(c, q) ==
    /\ claims[c] \in ClaimRow /\ q = claims[c].project
    /\ claims' = [claims EXCEPT ![c].status = "approved"]
    /\ claims'[c] \in ClaimRow /\ claims'[c].project = q
    /\ projects[q] \in ProjectRow /\ projects'[q] # NoRow
    /\ projects'[q].claim_amount = projects[q].claim_amount
    /\ Spent(q)' = Spent(q) + projects[q].claim_amount
    /\ \A p \in Projects \ {q} : projects'[p] = projects[p]

LEMMA ApprovalPays ==
    ASSUME IInv, NEW h \in Handlers, ClaimCommit(h)
    PROVE  req[h].claim \in Claims /\ \E q \in Projects : Pays(req[h].claim, q)
<1>0. /\ projects \in [Projects -> ProjectRow \cup {NoRow}]
      /\ claims \in [Claims -> ClaimRow \cup {NoRow}]
  BY DEF IInv, TypeOK, TablesTypeOK
<1>1. PICK c \in Claims :
        /\ c = req[h].claim /\ claims[c] \in ClaimRow
        /\ claims' = [claims EXCEPT ![c].status = "approved"]
  BY <1>0 DEF ClaimCommit, IInv, TypeOK, RequestFits, ClaimReviews, HandlerFits,
     ClaimReviewFits
<1>2. PICK q \in Projects :
        /\ q = claims[c].project /\ projects[q].envelope_remaining >= projects[q].claim_amount
        /\ projects' = [projects EXCEPT ![q].envelope_remaining = @ - projects[q].claim_amount]
  BY <1>1 DEF ClaimCommit, IInv, HandlerFits, ClaimReviewFits, EnvelopeSuffices, ProjectOf,
     AmountOf, ClaimRow
<1>3. projects[q] \in ProjectRow
  <2>1. projects[q] # NoRow
    BY <1>1, <1>2, NoRowAssumption DEF IInv, ClaimsHaveProjects
  <2> QED BY <1>0, <2>1
<1>4. /\ claims'[c] \in ClaimRow /\ claims'[c].project = q
  BY <1>0, <1>1, <1>2 DEF ClaimRow
<1>5. /\ projects[q].claim_amount \in Nat /\ projects[q].envelope_total \in Nat
      /\ projects[q].envelope_remaining \in Nat
  BY <1>3, AmountsFit
<1>6. projects'[q] = [projects[q] EXCEPT !.envelope_remaining = @ - projects[q].claim_amount]
  BY <1>0, <1>2
<1>7. /\ projects'[q].envelope_remaining
            = projects[q].envelope_remaining - projects[q].claim_amount
      /\ projects'[q].envelope_total = projects[q].envelope_total
      /\ projects'[q].claim_amount = projects[q].claim_amount
      /\ projects'[q] \in ProjectRow
  BY <1>2, <1>3, <1>5, <1>6 DEF ProjectRow
<1>8. Spent(q)' = Spent(q) + projects[q].claim_amount
  BY <1>5, <1>7 DEF Spent, EnvelopeTotal, EnvelopeRemaining
<1>9. \A p \in Projects \ {q} : projects'[p] = projects[p]
  BY <1>0, <1>2
<1>10. projects'[q] # NoRow
  BY <1>7, NoRowAssumption
<1>11. Pays(c, q)
  BY <1>1, <1>2, <1>3, <1>4, <1>7, <1>8, <1>9, <1>10 DEF Pays
<1> QED BY <1>1, <1>11

LEMMA FundedStays ==
    ASSUME IInv, NEW p \in Projects, Funded(p), KeepsMoney(p),
           ApprovedClaimsOf(p)' \subseteq ApprovedClaimsOf(p)
    PROVE  Funded(p)'
<1>0. projects[p] \in ProjectRow
  BY DEF IInv, TypeOK, TablesTypeOK, KeepsMoney
<1>1. projects[p].claim_amount \in Nat /\ Spent(p) \in Int
  BY <1>0, AmountsFit
<1>2. Affordable(ApprovedClaimsOf(p)', projects[p].claim_amount, Spent(p))
  BY <1>1, AffordableShrinks DEF Funded
<1> QED BY <1>2 DEF Funded, KeepsMoney

LEMMA ApprovalIsFunded ==
    ASSUME IInv, ClaimsFunded, NEW h \in Handlers, ClaimCommit(h), NEW p \in Projects,
           projects'[p] # NoRow
    PROVE  Funded(p)'
<1>0. claims \in [Claims -> ClaimRow \cup {NoRow}]
  BY DEF IInv, TypeOK, TablesTypeOK
<1>1. PICK c \in Claims, q \in Projects : Pays(c, q)
  BY ApprovalPays
<1>2. projects[p] # NoRow
  BY <1>1, NoRowAssumption DEF Pays
<1>3. Funded(p)
  BY <1>2 DEF ClaimsFunded
<1>4. CASE p # q
  <2>1. projects'[p] = projects[p]
    BY <1>1, <1>4 DEF Pays
  <2>2. ApprovedClaimsOf(p)' \subseteq ApprovedClaimsOf(p)
    BY <1>0, <1>1, <1>4 DEF ApprovedClaimsOf, Pays
  <2>3. KeepsMoney(p)
    BY <1>2, <2>1 DEF KeepsMoney, Spent, EnvelopeTotal, EnvelopeRemaining
  <2> QED BY <1>3, <2>2, <2>3, FundedStays
<1>5. CASE p = q
  <2>1. /\ projects'[p].claim_amount = projects[p].claim_amount
        /\ Spent(p)' = Spent(p) + projects[p].claim_amount
    BY <1>1, <1>5 DEF Pays
  <2>2. ApprovedClaimsOf(p)' \subseteq ApprovedClaimsOf(p) \cup {c}
    BY <1>0, <1>1, <1>5 DEF ApprovedClaimsOf, Pays
  <2>3. projects[p].claim_amount \in Nat /\ Spent(p) \in Int
    BY <1>1, <1>5, AmountsFit DEF Pays
  <2>4. Affordable(ApprovedClaimsOf(p)', projects[p].claim_amount,
                   Spent(p) + projects[p].claim_amount)
    BY <1>3, <2>2, <2>3, AffordableGrows DEF Funded
  <2> QED BY <2>1, <2>4 DEF Funded
<1> QED BY <1>4, <1>5

LEMMA FundedNext == IInv /\ ClaimsFunded /\ [Next]_vars => ClaimsFunded'
<1> SUFFICES ASSUME IInv, ClaimsFunded, [Next]_vars, NEW p \in Projects,
                    projects'[p] # NoRow
             PROVE  Funded(p)'
  BY DEF ClaimsFunded
<1>1. projects[p] # NoRow => Funded(p)
  BY DEF ClaimsFunded
<1>2. CASE UNCHANGED <<projects, claims>>
  <2>1. KeepsMoney(p) /\ ApprovedClaimsOf(p)' = ApprovedClaimsOf(p)
    BY <1>2 DEF KeepsMoney, Spent, EnvelopeTotal, EnvelopeRemaining, ApprovedClaimsOf
  <2> QED BY <1>1, <2>1, FundedStays DEF KeepsMoney
<1>3. ASSUME NEW h \in Handlers, Commits(h), ~ClaimCommit(h)
      PROVE  Funded(p)'
  <2>1. ApprovedClaimsOf(p)' \subseteq ApprovedClaimsOf(p)
    BY <1>3, ClaimsStay DEF ApprovedClaimsOf
  <2>2. CASE KeepsMoney(p)
    BY <1>1, <2>1, <2>2, FundedStays DEF KeepsMoney
  <2>3. CASE StartsUnspent(p)
    <3>1. ApprovedClaimsOf(p)' = {}
      BY <2>1, <2>3 DEF IInv, ClaimsHaveProjects, ApprovedClaimsOf, StartsUnspent
    <3> QED BY <2>3, <3>1, FS_EmptySet DEF StartsUnspent, Funded, Affordable, Costs
  <2> QED BY <1>3, <2>2, <2>3, MoneyStays
<1>4. ASSUME NEW h \in Handlers, ClaimCommit(h)
      PROVE  Funded(p)'
  BY <1>4, ApprovalIsFunded
<1> QED
  BY <1>2, <1>3, <1>4, WritesAtCommit DEF CreateTopup, tables

(* However many reviewers race for the last of an envelope, and although   *)
(* a claim can be approved twice (UpdateStatus does not look at the        *)
(* status), each approved claim is covered by what the envelope gave out:  *)
(* DecrementEnvelope's condition holds under its row lock until the commit *)
(* that approves the claim.                                                *)
THEOREM ApprovalsAreFunded == Spec => []ApprovedClaimsFunded
<1>1. Init => ClaimsFunded
  BY DEF Init, TablesInit, ClaimsFunded
<1>2. ClaimsFunded => ApprovedClaimsFunded
  BY DEF ClaimsFunded, Funded, Affordable, Costs, ApprovedClaimsFunded
<1> QED
  BY <1>1, <1>2, FundedNext, InductiveInvariant, PTL DEF Spec

-----------------------------------------------------------------------------
(* The order in which every transaction locks the tables; last, the target *)
(* of a handler that waits for no row.                                     *)
Level(table) ==
    CASE table \in {"budget_topups", "projects"} -> 1
      [] table = "managers" -> 2
      [] table = "employees" -> 3
      [] table \in {"expense_claims", "payouts"} -> 4
      [] OTHER -> 5

TargetLevel(h) == Level(Target(h)[1])

(* A handler waits for a row of a later table than all it has locked.      *)
LEMMA LocksInOrder ==
    ASSUME IInv, NEW h \in Handlers, NEW row \in held[h]
    PROVE  Level(row[1]) < TargetLevel(h)
<1>1. pc[h] \in Steps \cup {"idle"} /\ HandlerFits(h) /\ row \in Rows
  BY DEF IInv, TypeOK
<1>2. Level(row[1]) \in 1..4
  BY <1>1 DEF Rows, Level
<1>3. CASE pc[h] = "TopupIncrementAvailable"
  <2>1. row[1] = "budget_topups" /\ Target(h)[1] = "managers"
    BY <1>1, <1>3 DEF HandlerFits, TopupReviewFits, Target
  <2> QED
    BY <2>1 DEF Level, TargetLevel
<1>4. CASE pc[h] = "DecrementLocked"
  <2>1. row[1] = "projects" /\ Target(h)[1] = "managers"
    BY <1>1, <1>4 DEF HandlerFits, ClaimReviewFits, Target
  <2> QED
    BY <2>1 DEF Level, TargetLevel
<1>5. CASE pc[h] = "CreditEmployee"
  <2>1. row[1] \in {"projects", "managers"} /\ Target(h)[1] = "employees"
    BY <1>1, <1>5 DEF HandlerFits, ClaimReviewFits, Target
  <2> QED
    BY <2>1 DEF Level, TargetLevel
<1>6. CASE pc[h] = "ClaimUpdateStatus"
  <2>1. row[1] \in {"projects", "managers", "employees"} /\ Target(h)[1] = "expense_claims"
    BY <1>1, <1>6 DEF HandlerFits, ClaimReviewFits, Target
  <2> QED
    BY <2>1 DEF Level, TargetLevel
<1>7. CASE pc[h] = "PayoutUpdateReview"
  <2>1. row[1] = "employees" /\ Target(h)[1] = "payouts"
    BY <1>1, <1>7 DEF HandlerFits, PayoutReviewFits, Target
  <2> QED
    BY <2>1 DEF Level, TargetLevel
<1>8. CASE pc[h] \in {"TopupCommit", "ProjectCommit", "ClaimCommit", "PayoutCreateCommit",
                      "PayoutCommit"}
  <2>1. Target(h)[1] = "none"
    BY <1>8 DEF Target
  <2> QED
    BY <1>2, <2>1 DEF Level, TargetLevel
<1>9. CASE pc[h] \in {"idle", "TopupUpdateStatus", "LockEnvelope", "ProjectDelete",
                      "ProjectRestore", "ClaimExists", "ClaimCreate", "ClaimFindProject",
                      "ClaimReject", "DecrementEnvelope", "LockForPayout", "PayoutSettle"}
  BY <1>1, <1>9 DEF HandlerFits, TopupReviewFits, ProjectCreationFits, ProjectTargetFits,
     ClaimCreationFits, ClaimReviewFits, PayoutCreationFits, PayoutReviewFits
<1> QED
  BY <1>1, <1>3, <1>4, <1>5, <1>6, <1>7, <1>8, <1>9

(* The transactions never wait for each other in a circle, however many    *)
(* there are: levels grow along a chain of waits and there are only five.  *)
THEOREM WaitsHaveNoCycle == Spec => []NoDeadlock
<1>1. IInv => NoDeadlock
  <2> SUFFICES ASSUME IInv, NEW S \in (SUBSET Handlers) \ {{}},
                      \A h \in S : \E g \in S \ {h} : Target(h) \in held[g]
               PROVE  FALSE
    BY DEF NoDeadlock
  <2>1. \A h \in S : \E g \in S : TargetLevel(h) \in 1..4 /\ TargetLevel(h) < TargetLevel(g)
    <3> SUFFICES ASSUME NEW h \in S
                 PROVE  \E g \in S : TargetLevel(h) \in 1..4 /\ TargetLevel(h) < TargetLevel(g)
      OBVIOUS
    <3>1. PICK g \in S : Target(h) \in held[g]
      OBVIOUS
    <3>2. Target(h) \in Rows
      BY <3>1 DEF IInv, TypeOK
    <3>3. TargetLevel(h) \in 1..4
      BY <3>2 DEF Rows, Level, TargetLevel
    <3>4. TargetLevel(h) < TargetLevel(g)
      BY <3>1, LocksInOrder DEF TargetLevel
    <3> QED
      BY <3>3, <3>4
  <2>2. PICK h \in S : TRUE
    OBVIOUS
  <2>3. PICK i \in S : TargetLevel(h) \in 1..4 /\ TargetLevel(h) < TargetLevel(i)
    BY <2>1, <2>2
  <2>4. PICK j \in S : TargetLevel(i) \in 1..4 /\ TargetLevel(i) < TargetLevel(j)
    BY <2>1
  <2>5. PICK k \in S : TargetLevel(j) \in 1..4 /\ TargetLevel(j) < TargetLevel(k)
    BY <2>1
  <2>6. PICK l \in S : TargetLevel(k) \in 1..4 /\ TargetLevel(k) < TargetLevel(l)
    BY <2>1
  <2>7. TargetLevel(l) \in 1..4
    BY <2>1
  <2> QED
    BY <2>3, <2>4, <2>5, <2>6, <2>7
<1> QED
  BY <1>1, InductiveInvariant, PTL

-----------------------------------------------------------------------------
(* The statement-by-statement transactions implement AtomicLedger.  Steps  *)
(* that publish nothing are stutters; each commit is the operation of the  *)
(* abstract ledger it is named for, because the conditions its statements  *)
(* established under their row locks still hold (IInv).                    *)

(* What the commits of the code do to a balance row.                       *)
Granted(m, x)  == managers' = [managers EXCEPT ![m].budget_available = @ + x]
Reserved(m, x) == managers' = [managers EXCEPT ![m].budget_available = @ - x,
                                               ![m].budget_locked = @ + x]
Spends(m, x)   == managers' = [managers EXCEPT ![m].budget_locked = @ - x]
Credited(e, x) == employees' = [employees EXCEPT ![e].reimburse_available = @ + x]
SetAside(e, x) == employees' = [employees EXCEPT ![e].reimburse_available = @ - x,
                                                 ![e].reimburse_locked = @ + x]
Settled(e, x, back) ==
    employees' = [employees EXCEPT ![e].reimburse_locked = @ - x,
                                   ![e].reimburse_available = @ + back]

(* The abstract ledger writes the same changes.                            *)
LEMMA BudgetChanges ==
    ASSUME managers \in [Managers -> ManagerRow], NEW m \in Managers, NEW x \in Nat
    PROVE  /\ Granted(m, x) => Atomic!Budget(m, x, 0)
           /\ Reserved(m, x) => Atomic!Budget(m, -x, x)
           /\ Spends(m, x) => Atomic!Budget(m, 0, -x)
<1>1. managers[m] \in ManagerRow
  OBVIOUS
<1>2. Granted(m, x) => Atomic!Budget(m, x, 0)
  <2> DEFINE new == [managers EXCEPT ![m].budget_available = @ + x]
  <2>1. new \in [Managers -> ManagerRow]
    BY <1>1 DEF ManagerRow
  <2>2. SUFFICES new = [new EXCEPT ![m].budget_locked = @ + 0]
    BY DEF Granted, Atomic!Budget
  <2> HIDE DEF new
  <2> QED
    BY <2>1 DEF ManagerRow
<1>3. Reserved(m, x) => Atomic!Budget(m, -x, x)
  BY <1>1 DEF Reserved, Atomic!Budget, ManagerRow
<1>4. Spends(m, x) => Atomic!Budget(m, 0, -x)
  <2>1. [managers EXCEPT ![m].budget_available = @ + 0] = managers
    BY <1>1 DEF ManagerRow
  <2>2. managers[m].budget_locked - x = managers[m].budget_locked + (-x)
    BY <1>1 DEF ManagerRow
  <2> QED
    BY <2>1, <2>2 DEF Spends, Atomic!Budget
<1> QED
  BY <1>2, <1>3, <1>4

LEMMA ReimburseChanges ==
    ASSUME employees \in [Employees -> EmployeeRow], NEW e \in Employees,
           NEW x \in Nat, NEW back \in Nat
    PROVE  /\ Credited(e, x) => Atomic!Reimburse(e, x, 0)
           /\ SetAside(e, x) => Atomic!Reimburse(e, -x, x)
           /\ Settled(e, x, back) => Atomic!Reimburse(e, back, -x)
<1>1. employees[e] \in EmployeeRow
  OBVIOUS
<1>2. Credited(e, x) => Atomic!Reimburse(e, x, 0)
  <2> DEFINE new == [employees EXCEPT ![e].reimburse_available = @ + x]
  <2>1. new \in [Employees -> EmployeeRow]
    BY <1>1 DEF EmployeeRow
  <2>2. SUFFICES new = [new EXCEPT ![e].reimburse_locked = @ + 0]
    BY DEF Credited, Atomic!Reimburse
  <2> HIDE DEF new
  <2> QED
    BY <2>1 DEF EmployeeRow
<1>3. SetAside(e, x) => Atomic!Reimburse(e, -x, x)
  BY <1>1 DEF SetAside, Atomic!Reimburse, EmployeeRow
<1>4. Settled(e, x, back) => Atomic!Reimburse(e, back, -x)
  BY <1>1 DEF Settled, Atomic!Reimburse, EmployeeRow
<1> QED
  BY <1>2, <1>3, <1>4

LEMMA TopupRefines ==
    ASSUME IInv, NEW h \in Handlers, TopupCommit(h)
    PROVE  Atomic!Next
<1> DEFINE t == req[h].topup
           m == topups[t].manager
<1>1. /\ managers \in [Managers -> ManagerRow]
      /\ topups \in [Topups -> TopupRow \cup {NoRow}]
      /\ pc[h] = "TopupCommit" /\ RequestFits(h) /\ HandlerFits(h)
  BY DEF IInv, TypeOK, TablesTypeOK, TopupCommit
<1>2. /\ t \in Topups /\ topups[t] # NoRow /\ topups[t].status = "pending"
      /\ req[h].status \in {"approved", "rejected"}
  BY <1>1 DEF RequestFits, TopupReviews, HandlerFits, TopupReviewFits, TopupIsPending
<1>3. m \in Managers /\ topups[t].amount \in Nat
  BY <1>1, <1>2, AmountsAssumption DEF TopupRow
<1>4. managers[m] \in ManagerRow
  BY <1>1, <1>3
<1>5. CASE req[h].status = "approved"
  <2>1. Granted(m, topups[t].amount)
    BY <1>5 DEF TopupCommit, TopupCredit, Granted
  <2>2. Atomic!Budget(m, topups[t].amount, 0)
    BY <1>1, <1>3, <2>1, BudgetChanges
  <2>3. Atomic!ApproveTopup(t)
    BY <1>2, <1>5, <2>2 DEF Atomic!ApproveTopup, TopupCommit
  <2> QED
    BY <1>2, <2>3 DEF Atomic!Next
<1>6. CASE req[h].status = "rejected"
  <2>1. managers' = managers
    BY <1>1, <1>3, <1>4, <1>6 DEF TopupCommit, TopupCredit, ManagerRow
  <2>2. Atomic!RejectTopup(t)
    BY <1>2, <1>6, <2>1 DEF Atomic!RejectTopup, TopupCommit
  <2> QED
    BY <1>2, <2>2 DEF Atomic!Next
<1> QED
  BY <1>2, <1>5, <1>6

LEMMA ProjectRefines ==
    ASSUME IInv, NEW h \in Handlers, ProjectCommit(h)
    PROVE  Atomic!Next
<1> DEFINE r == req[h]
           m == r.manager
           total == r.envelope_total
<1>1. /\ managers \in [Managers -> ManagerRow]
      /\ pc[h] = "ProjectCommit" /\ RequestFits(h) /\ HandlerFits(h)
  BY DEF IInv, TypeOK, TablesTypeOK, ProjectCommit
<1>2. r \in ProjectCreations
  BY <1>1 DEF RequestFits
<1>3. m \in Managers /\ total \in Nat /\ managers[m] \in ManagerRow
  BY <1>1, <1>2, AmountsAssumption DEF ProjectCreations
<1>4. /\ projects[r.project] = NoRow /\ r.claim_amount <= total
      /\ total <= managers[m].budget_available
  BY <1>1, <1>3 DEF HandlerFits, ProjectCreationFits, BudgetSuffices, ManagerRow
<1>5. Reserved(m, total)
  BY DEF ProjectCommit, Reserved
<1>6. Atomic!Budget(m, -total, total)
  BY <1>1, <1>3, <1>5, BudgetChanges
<1>7. Atomic!OpenProject(r.project, m, total, r.claim_amount)
  BY <1>4, <1>6 DEF Atomic!OpenProject, ProjectCommit
<1> QED
  BY <1>2, <1>7 DEF Atomic!Next, ProjectCreations

LEMMA SetDeletedRefines ==
    ASSUME IInv, NEW h \in Handlers, ProjectDelete(h) \/ ProjectRestore(h)
    PROVE  Atomic!Next
<1>1. req[h].project \in Projects /\ projects[req[h].project] # NoRow
  BY DEF IInv, TypeOK, RequestFits, ProjectTargets, HandlerFits, ProjectTargetFits,
         ProjectDelete, ProjectRestore
<1>2. \E hidden \in BOOLEAN : Atomic!HideProject(req[h].project, hidden)
  BY <1>1 DEF Atomic!HideProject, ProjectDelete, ProjectRestore, SetDeleted
<1> QED
  BY <1>1, <1>2 DEF Atomic!Next

LEMMA ClaimCreateRefines ==
    ASSUME IInv, NEW h \in Handlers, ClaimCreate(h)
    PROVE  Atomic!Next \/ UNCHANGED tables
<1>1. /\ req[h].project \in Projects /\ req[h].employee \in Employees
      /\ projects[req[h].project] # NoRow
  BY DEF IInv, TypeOK, RequestFits, ClaimCreations, HandlerFits, ClaimCreationFits,
         ClaimCreate
<1>2. CASE ClaimIsUnique(req[h].project, req[h].employee)
  <2>1. PICK c \in Claims : /\ claims[c] = NoRow
                            /\ claims' = [claims EXCEPT ![c] =
                                 [project |-> req[h].project,
                                  employee |-> req[h].employee, status |-> "pending"]]
    BY <1>2 DEF ClaimCreate
  <2>2. Atomic!FileClaim(c, req[h].project, req[h].employee)
    BY <1>1, <1>2, <2>1 DEF Atomic!FileClaim, ClaimCreate, ClaimIsUnique, HasClaim
  <2> QED
    BY <1>1, <2>2 DEF Atomic!Next
<1>3. CASE ~ClaimIsUnique(req[h].project, req[h].employee)
  BY <1>3 DEF ClaimCreate, Rollback
<1> QED
  BY <1>2, <1>3

LEMMA ClaimRejectRefines ==
    ASSUME IInv, NEW h \in Handlers, ClaimReject(h)
    PROVE  Atomic!Next
<1>1. req[h].claim \in Claims /\ claims[req[h].claim] # NoRow
  BY DEF IInv, TypeOK, RequestFits, ClaimReviews, HandlerFits, ClaimReviewFits, ClaimReject
<1>2. Atomic!RejectClaim(req[h].claim)
  BY <1>1 DEF Atomic!RejectClaim, ClaimReject
<1> QED
  BY <1>1, <1>2 DEF Atomic!Next

LEMMA ClaimRefines ==
    ASSUME IInv, NEW h \in Handlers, ClaimCommit(h)
    PROVE  Atomic!Next
<1> DEFINE c == req[h].claim
           p == claims[c].project
           m == projects[p].manager
           e == claims[c].employee
           amount == projects[p].claim_amount
<1>1. /\ managers \in [Managers -> ManagerRow] /\ employees \in [Employees -> EmployeeRow]
      /\ claims \in [Claims -> ClaimRow \cup {NoRow}]
      /\ projects \in [Projects -> ProjectRow \cup {NoRow}]
      /\ pc[h] = "ClaimCommit" /\ RequestFits(h) /\ HandlerFits(h) /\ ClaimsHaveProjects
  BY DEF IInv, TypeOK, TablesTypeOK, ClaimCommit
<1>2. c \in Claims /\ claims[c] # NoRow /\ claims[c] \in ClaimRow
  BY <1>1 DEF RequestFits, ClaimReviews, HandlerFits, ClaimReviewFits
<1>3. p \in Projects /\ e \in Employees /\ projects[p] \in ProjectRow
  BY <1>1, <1>2 DEF ClaimRow, ClaimsHaveProjects
<1>4. /\ m \in Managers /\ amount \in Nat /\ managers[m] \in ManagerRow
      /\ employees[e] \in EmployeeRow /\ projects[p].envelope_remaining \in Nat
  BY <1>1, <1>3, AmountsAssumption DEF ProjectRow
<1>5. EnvelopeSuffices(p, amount) /\ managers[m].budget_locked >= amount
  BY <1>1 DEF HandlerFits, ClaimReviewFits, ProjectOf, ManagerOf, AmountOf
<1>6. /\ ~projects[p].deleted /\ amount <= projects[p].envelope_remaining
      /\ amount <= managers[m].budget_locked
  BY <1>4, <1>5 DEF EnvelopeSuffices, ManagerRow
<1>7. Spends(m, amount)
  BY DEF ClaimCommit, ManagerOf, AmountOf, ProjectOf, Spends
<1>8. Atomic!Budget(m, 0, -amount)
  BY <1>1, <1>4, <1>7, BudgetChanges
<1>9. Credited(e, amount)
  BY DEF ClaimCommit, AmountOf, ProjectOf, Credited
<1>10. Atomic!Reimburse(e, amount, 0)
  BY <1>1, <1>3, <1>4, <1>9, ReimburseChanges
<1>11. Atomic!ApproveClaim(c)
  BY <1>2, <1>6, <1>8, <1>10 DEF Atomic!ApproveClaim, ClaimCommit, ProjectOf, AmountOf
<1> QED
  BY <1>2, <1>11 DEF Atomic!Next

LEMMA PayoutCreateRefines ==
    ASSUME IInv, NEW h \in Handlers, PayoutCreateCommit(h)
    PROVE  Atomic!Next
<1> DEFINE r == req[h]
           e == r.employee
<1>1. /\ employees \in [Employees -> EmployeeRow]
      /\ pc[h] = "PayoutCreateCommit" /\ RequestFits(h) /\ HandlerFits(h)
  BY DEF IInv, TypeOK, TablesTypeOK, PayoutCreateCommit
<1>2. r \in PayoutCreations
  BY <1>1 DEF RequestFits
<1>3. e \in Employees /\ r.amount \in Nat /\ employees[e] \in EmployeeRow
  BY <1>1, <1>2, AmountsAssumption DEF PayoutCreations
<1>4. payouts[r.payout] = NoRow /\ r.amount <= employees[e].reimburse_available
  BY <1>1, <1>3 DEF HandlerFits, PayoutCreationFits, BalanceSuffices, EmployeeRow
<1>5. SetAside(e, r.amount)
  BY DEF PayoutCreateCommit, SetAside
<1>6. Atomic!Reimburse(e, -r.amount, r.amount)
  BY <1>1, <1>3, <1>5, ReimburseChanges
<1>7. Atomic!FilePayout(r.payout, e, r.amount)
  BY <1>4, <1>6 DEF Atomic!FilePayout, PayoutCreateCommit
<1> QED
  BY <1>2, <1>7 DEF Atomic!Next, PayoutCreations

LEMMA PayoutRefines ==
    ASSUME IInv, NEW h \in Handlers, PayoutCommit(h)
    PROVE  Atomic!Next
<1> DEFINE y == req[h].payout
           e == payouts[y].employee
           amount == payouts[y].amount
<1>1. /\ employees \in [Employees -> EmployeeRow]
      /\ payouts \in [Payouts -> PayoutRow \cup {NoRow}]
      /\ pc[h] = "PayoutCommit" /\ RequestFits(h) /\ HandlerFits(h)
  BY DEF IInv, TypeOK, TablesTypeOK, PayoutCommit
<1>2. /\ y \in Payouts /\ payouts[y] # NoRow /\ payouts[y] \in PayoutRow
      /\ req[h].status \in {"completed", "failed"}
  BY <1>1 DEF RequestFits, PayoutReviews, HandlerFits, PayoutReviewFits
<1>3. e \in Employees /\ amount \in Nat /\ employees[e] \in EmployeeRow
  BY <1>1, <1>2, AmountsAssumption DEF PayoutRow
<1>4. amount <= employees[e].reimburse_locked
  BY <1>1, <1>3 DEF HandlerFits, PayoutReviewFits, LockedSuffices, PaidEmployee, PaidAmount,
                    EmployeeRow
<1>5. Released(h) \in Nat
  BY <1>3 DEF Released, PaidAmount
<1>6. Settled(e, amount, Released(h))
  BY DEF PayoutCommit, PaidEmployee, PaidAmount, Settled
<1>7. Atomic!Reimburse(e, Released(h), -amount)
  BY <1>1, <1>3, <1>5, <1>6, ReimburseChanges
<1>8. CASE req[h].status = "completed"
  <2>1. Atomic!CompletePayout(y)
    BY <1>2, <1>4, <1>7, <1>8 DEF Atomic!CompletePayout, PayoutCommit, Released
  <2> QED
    BY <1>2, <2>1 DEF Atomic!Next
<1>9. CASE req[h].status = "failed"
  <2>1. Atomic!FailPayout(y)
    BY <1>2, <1>4, <1>7, <1>9 DEF Atomic!FailPayout, PayoutCommit, Released, PaidAmount
  <2> QED
    BY <1>2, <2>1 DEF Atomic!Next
<1> QED
  BY <1>2, <1>8, <1>9

(* A step of a request on the tables is an operation of AtomicLedger, or  *)
(* leaves them alone.                                                      *)
LEMMA StepsAreAtomic == IInv /\ [Next]_vars => [Atomic!Next]_(Atomic!books)
<1> SUFFICES ASSUME IInv, [Next]_vars
             PROVE  Atomic!Next \/ UNCHANGED tables
  BY DEF tables, Atomic!books
<1>1. ASSUME NEW m \in Managers, NEW t \in Topups, NEW a \in Amounts,
             CreateTopup(m, t, a)
      PROVE  Atomic!Next
  <2>1. Atomic!FileTopup(t, m, a)
    BY <1>1 DEF CreateTopup, Atomic!FileTopup
  <2> QED
    BY <2>1 DEF Atomic!Next
<1>2. ASSUME NEW h \in Handlers, Commits(h)
      PROVE  Atomic!Next \/ UNCHANGED tables
  BY <1>2, TopupRefines, ProjectRefines, SetDeletedRefines, ClaimCreateRefines,
     ClaimRejectRefines, ClaimRefines, PayoutCreateRefines, PayoutRefines DEF Commits
<1> QED
  BY <1>1, <1>2, WritesAtCommit

(* Each operation of the server on money happens at one instant, at which  *)
(* all it checked is true, or not at all.                                  *)
THEOREM TransactionsAreAtomic == Spec => ImplementsAtomic
<1>1. Init => Atomic!Init
  BY DEF Init, TablesInit, Atomic!Init
<1> QED
  BY <1>1, StepsAreAtomic, InductiveInvariant, PTL DEF Spec, ImplementsAtomic, Atomic!Spec

-----------------------------------------------------------------------------
(* The accounts balance.  The sums of columns of the tables change by one  *)
(* term when one row is written; so every operation of AtomicLedger keeps  *)
(* the accounts, and so do the transactions that implement them.           *)

(* A sum of integers with finitely many terms.                             *)
Adds(f, S) == IsFiniteSet(S) /\ f \in [S -> Int] /\ SumFunction(f) \in Int

(* The sums of the accounts are sums of integers over finitely many rows.   *)
TermsAdd ==
    /\ \A m \in Managers : /\ Adds(Envelopes(m), ProjectsOf(m))
                           /\ Adds(Remainders(m), ProjectsOf(m))
                           /\ Adds(Grants(m), ApprovedTopupsOf(m))
    /\ Adds(Holdings, Employees)
    /\ Adds(PaidOut, PayoutsIn("completed"))
    /\ \A e \in Employees : Adds(Aside(e), PendingOf(e))
    /\ Adds(GivenOut, {q \in Projects : projects[q] # NoRow})

LEMMA AddsUp ==
    ASSUME NEW S, NEW U, IsFiniteSet(U), S \subseteq U, NEW f \in [S -> Int]
    PROVE  Adds(f, S)
BY FS_Subset, SumType DEF Adds

LEMMA AmountsAreInts == \A a \in Amounts : a \in Int
BY AmountsAssumption

LEMMA TypedTermsAdd == TablesTypeOK => TermsAdd
<1> SUFFICES ASSUME TablesTypeOK  PROVE TermsAdd
  OBVIOUS
<1>1. \A p \in Projects : projects[p] # NoRow =>
        EnvelopeTotal(p) \in Int /\ EnvelopeRemaining(p) \in Int /\ Spent(p) \in Int
  BY AmountsFit DEF TablesTypeOK, EnvelopeTotal, EnvelopeRemaining
<1>2. ASSUME NEW m \in Managers
      PROVE  /\ Adds(Envelopes(m), ProjectsOf(m)) /\ Adds(Remainders(m), ProjectsOf(m))
             /\ Adds(Grants(m), ApprovedTopupsOf(m))
  <2>1. ProjectsOf(m) \subseteq Projects /\ ApprovedTopupsOf(m) \subseteq Topups
    BY DEF ProjectsOf, ApprovedTopupsOf
  <2>2. Envelopes(m) \in [ProjectsOf(m) -> Int] /\ Remainders(m) \in [ProjectsOf(m) -> Int]
    BY <1>1 DEF ProjectsOf, Envelopes, Remainders
  <2>3. \A t \in ApprovedTopupsOf(m) : topups[t].amount \in Amounts
    BY DEF ApprovedTopupsOf, TablesTypeOK, TopupRow
  <2>4. Grants(m) \in [ApprovedTopupsOf(m) -> Int]
    BY <2>3, AmountsAssumption DEF Grants, TopupAmount
  <2> QED BY <2>1, <2>2, <2>4, AddsUp, RowsAssumption
<1>3. Adds(Holdings, Employees)
  <2>1. Holdings \in [Employees -> Int]
    BY DEF Holdings, Holding, TablesTypeOK, EmployeeRow
  <2> QED BY <2>1, AddsUp, RowsAssumption
<1>4. Adds(PaidOut, PayoutsIn("completed"))
  <2>1. PayoutsIn("completed") \subseteq Payouts
    BY DEF PayoutsIn
  <2>2. \A y \in PayoutsIn("completed") : payouts[y].amount \in Amounts
    BY DEF PayoutsIn, TablesTypeOK, PayoutRow
  <2>3. \A y \in PayoutsIn("completed") : payouts[y].amount \in Int
    BY <2>2, AmountsAreInts
  <2>4. PaidOut \in [PayoutsIn("completed") -> Int]
    BY <2>3 DEF PaidOut, PayoutAmount
  <2> QED BY <2>1, <2>4, AddsUp, RowsAssumption
<1>5. Adds(GivenOut, {q \in Projects : projects[q] # NoRow})
  <2>1. GivenOut \in [{q \in Projects : projects[q] # NoRow} -> Int]
    BY <1>1 DEF GivenOut
  <2> QED BY <2>1, AddsUp, RowsAssumption
<1>6. ASSUME NEW e \in Employees
      PROVE  Adds(Aside(e), PendingOf(e))
  <2>1. PendingOf(e) \subseteq Payouts
    BY DEF PendingOf, PayoutsIn
  <2>2. \A y \in PendingOf(e) : payouts[y].amount \in Amounts
    BY DEF PendingOf, PayoutsIn, TablesTypeOK, PayoutRow
  <2>3. \A y \in PendingOf(e) : payouts[y].amount \in Int
    BY <2>2, AmountsAreInts
  <2>4. Aside(e) \in [PendingOf(e) -> Int]
    BY <2>3 DEF Aside, PayoutAmount
  <2> QED BY <2>1, <2>4, AddsUp, RowsAssumption
<1> QED BY <1>2, <1>3, <1>4, <1>5, <1>6 DEF TermsAdd

LEMMA TypedTermsAddNext == TablesTypeOK' => TermsAdd'
BY TypedTermsAdd, PTL

(* One term of a sum changes, appears or goes.                             *)
LEMMA AddsChange ==
    ASSUME NEW S, NEW T, NEW f, NEW g, Adds(f, S), Adds(g, T),
           NEW x, S \ {x} = T \ {x}, \A y \in S \ {x} : g[y] = f[y]
    PROVE  SumFunction(g) = SumFunction(f) - (IF x \in S THEN f[x] ELSE 0)
                                           + (IF x \in T THEN g[x] ELSE 0)
BY SumChangesAt DEF Adds

-----------------------------------------------------------------------------
(* How the sums change when one row of a table is written.                 *)

ProjectWritten(q) ==
    /\ q \in Projects
    /\ projects'[q] # NoRow
    /\ projects[q] # NoRow => /\ projects'[q].manager = projects[q].manager
                              /\ projects'[q].envelope_total = projects[q].envelope_total
    /\ \A p \in Projects \ {q} : projects'[p] = projects[p]

LEMMA EnvelopesChange ==
    ASSUME TermsAdd, TermsAdd', NEW q, ProjectWritten(q), NEW m \in Managers
    PROVE  /\ projects'[q].manager # m =>
                /\ SumFunction(Envelopes(m))' = SumFunction(Envelopes(m))
                /\ SumFunction(Remainders(m))' = SumFunction(Remainders(m))
           /\ projects'[q].manager = m /\ projects[q] # NoRow =>
                /\ SumFunction(Envelopes(m))' = SumFunction(Envelopes(m))
                /\ SumFunction(Remainders(m))' = SumFunction(Remainders(m))
                     - projects[q].envelope_remaining + projects'[q].envelope_remaining
           /\ projects'[q].manager = m /\ projects[q] = NoRow =>
                /\ SumFunction(Envelopes(m))' =
                     SumFunction(Envelopes(m)) + projects'[q].envelope_total
                /\ SumFunction(Remainders(m))' =
                     SumFunction(Remainders(m)) + projects'[q].envelope_remaining
<1>1. /\ Adds(Envelopes(m), ProjectsOf(m)) /\ Adds(Remainders(m), ProjectsOf(m))
      /\ Adds(Envelopes(m)', ProjectsOf(m)') /\ Adds(Remainders(m)', ProjectsOf(m)')
  BY DEF TermsAdd, Adds
<1>2. ProjectsOf(m) \ {q} = ProjectsOf(m)' \ {q}
  BY DEF ProjectsOf, ProjectWritten
<1>3. /\ q \in ProjectsOf(m)' <=> projects'[q].manager = m
      /\ q \in ProjectsOf(m) <=> projects[q] # NoRow /\ projects'[q].manager = m
  BY DEF ProjectsOf, ProjectWritten
<1>4. \A p \in ProjectsOf(m) \ {q} : /\ Envelopes(m)'[p] = Envelopes(m)[p]
                                     /\ Remainders(m)'[p] = Remainders(m)[p]
  BY <1>2 DEF ProjectsOf, ProjectWritten, Envelopes, Remainders, EnvelopeTotal,
     EnvelopeRemaining
<1>5. /\ q \in ProjectsOf(m) => /\ Envelopes(m)[q] = projects[q].envelope_total
                                /\ Remainders(m)[q] = projects[q].envelope_remaining
      /\ q \in ProjectsOf(m)' => /\ Envelopes(m)'[q] = projects'[q].envelope_total
                                 /\ Remainders(m)'[q] = projects'[q].envelope_remaining
  BY DEF Envelopes, Remainders, EnvelopeTotal, EnvelopeRemaining
<1>6. SumFunction(Envelopes(m)') = SumFunction(Envelopes(m))
         - (IF q \in ProjectsOf(m) THEN Envelopes(m)[q] ELSE 0)
         + (IF q \in ProjectsOf(m)' THEN Envelopes(m)'[q] ELSE 0)
  BY <1>1, <1>2, <1>4, AddsChange
<1>7. SumFunction(Remainders(m)') = SumFunction(Remainders(m))
         - (IF q \in ProjectsOf(m) THEN Remainders(m)[q] ELSE 0)
         + (IF q \in ProjectsOf(m)' THEN Remainders(m)'[q] ELSE 0)
  BY <1>1, <1>2, <1>4, AddsChange
<1>8. /\ SumFunction(Envelopes(m)) \in Int /\ SumFunction(Remainders(m)) \in Int
      /\ q \in ProjectsOf(m) => Envelopes(m)[q] \in Int /\ Remainders(m)[q] \in Int
      /\ q \in ProjectsOf(m)' => Envelopes(m)'[q] \in Int /\ Remainders(m)'[q] \in Int
  BY <1>1 DEF Adds
<1>9. q \in ProjectsOf(m) => projects'[q].envelope_total = projects[q].envelope_total
  BY DEF ProjectsOf, ProjectWritten
<1> QED BY <1>3, <1>5, <1>6, <1>7, <1>8, <1>9

LEMMA GivenOutChanges ==
    ASSUME TermsAdd, TermsAdd', NEW q, ProjectWritten(q)
    PROVE  SumFunction(GivenOut)' =
             SumFunction(GivenOut) - (IF projects[q] # NoRow THEN Spent(q) ELSE 0)
                                   + Spent(q)'
<1> DEFINE S == {p \in Projects : projects[p] # NoRow}
<1>1. Adds(GivenOut, S) /\ Adds(GivenOut', S')
  BY DEF TermsAdd, Adds
<1>2. /\ S \ {q} = S' \ {q} /\ q \in S'
      /\ q \in S <=> projects[q] # NoRow
  BY DEF ProjectWritten
<1>3. /\ \A p \in S \ {q} : GivenOut'[p] = GivenOut[p]
      /\ q \in S => GivenOut[q] = Spent(q)
      /\ GivenOut'[q] = Spent(q)'
  BY <1>2 DEF ProjectWritten, GivenOut, Spent, EnvelopeTotal, EnvelopeRemaining
<1> HIDE DEF S
<1>4. SumFunction(GivenOut') = SumFunction(GivenOut)
         - (IF q \in S THEN GivenOut[q] ELSE 0)
         + (IF q \in S' THEN GivenOut'[q] ELSE 0)
  BY <1>1, <1>2, <1>3, AddsChange
<1> QED BY <1>2, <1>3, <1>4

TopupWritten(t) ==
    /\ t \in Topups
    /\ topups'[t] # NoRow
    /\ topups[t] # NoRow => topups[t].status = "pending"
    /\ \A u \in Topups \ {t} : topups'[u] = topups[u]

LEMMA GrantsChange ==
    ASSUME TermsAdd, TermsAdd', NEW t, TopupWritten(t), NEW m \in Managers
    PROVE  SumFunction(Grants(m))' = SumFunction(Grants(m)) +
             (IF topups'[t].manager = m /\ topups'[t].status = "approved"
                THEN topups'[t].amount ELSE 0)
<1>1. Adds(Grants(m), ApprovedTopupsOf(m)) /\ Adds(Grants(m)', ApprovedTopupsOf(m)')
  BY DEF TermsAdd, Adds
<1>2. /\ ApprovedTopupsOf(m) \ {t} = ApprovedTopupsOf(m)' \ {t}
      /\ t \notin ApprovedTopupsOf(m)
      /\ t \in ApprovedTopupsOf(m)' <=>
           topups'[t].manager = m /\ topups'[t].status = "approved"
  BY DEF TopupWritten, ApprovedTopupsOf
<1>3. /\ \A u \in ApprovedTopupsOf(m) \ {t} : Grants(m)'[u] = Grants(m)[u]
      /\ t \in ApprovedTopupsOf(m)' => Grants(m)'[t] = topups'[t].amount
  BY <1>2 DEF TopupWritten, Grants, TopupAmount, ApprovedTopupsOf
<1>4. SumFunction(Grants(m)') = SumFunction(Grants(m))
         - (IF t \in ApprovedTopupsOf(m) THEN Grants(m)[t] ELSE 0)
         + (IF t \in ApprovedTopupsOf(m)' THEN Grants(m)'[t] ELSE 0)
  BY <1>1, <1>2, <1>3, AddsChange
<1>5. SumFunction(Grants(m)) \in Int
  BY <1>1 DEF Adds
<1> QED BY <1>2, <1>3, <1>4, <1>5

EmployeeWritten(e) ==
    e \in Employees /\ \A d \in Employees \ {e} : employees'[d] = employees[d]

LEMMA HoldingsChange ==
    ASSUME TermsAdd, TermsAdd', NEW e, EmployeeWritten(e)
    PROVE  SumFunction(Holdings)' = SumFunction(Holdings) - Holding(e) + Holding(e)'
<1>1. Adds(Holdings, Employees) /\ Adds(Holdings', Employees) /\ e \in Employees
  BY DEF TermsAdd, Adds, EmployeeWritten
<1>2. /\ \A d \in Employees \ {e} : Holdings'[d] = Holdings[d]
      /\ Holdings[e] = Holding(e) /\ Holdings'[e] = Holding(e)'
  BY DEF EmployeeWritten, Holdings, Holding
<1>3. SumFunction(Holdings') = SumFunction(Holdings)
         - (IF e \in Employees THEN Holdings[e] ELSE 0)
         + (IF e \in Employees THEN Holdings'[e] ELSE 0)
  BY <1>1, <1>2, AddsChange
<1> QED BY <1>1, <1>2, <1>3

PayoutWritten(y) ==
    /\ y \in Payouts
    /\ payouts'[y] # NoRow
    /\ payouts[y] # NoRow => payouts'[y].amount = payouts[y].amount
    /\ \A z \in Payouts \ {y} : payouts'[z] = payouts[z]

Completed(y) == payouts[y] # NoRow /\ payouts[y].status = "completed"

LEMMA PaidOutChanges ==
    ASSUME TermsAdd, TermsAdd', NEW y, PayoutWritten(y)
    PROVE  SumFunction(PaidOut)' = SumFunction(PaidOut)
             - (IF Completed(y) THEN payouts'[y].amount ELSE 0)
             + (IF Completed(y)' THEN payouts'[y].amount ELSE 0)
<1> DEFINE S == PayoutsIn("completed")
<1>1. Adds(PaidOut, S) /\ Adds(PaidOut', S')
  BY DEF TermsAdd, Adds
<1>2. /\ S \ {y} = S' \ {y}
      /\ y \in S <=> Completed(y)
      /\ y \in S' <=> Completed(y)'
  BY DEF PayoutWritten, PayoutsIn, Completed
<1>3. /\ \A z \in S \ {y} : PaidOut'[z] = PaidOut[z]
      /\ y \in S => PaidOut[y] = payouts'[y].amount
      /\ y \in S' => PaidOut'[y] = payouts'[y].amount
  BY <1>2 DEF PayoutWritten, PaidOut, PayoutAmount, PayoutsIn
<1> HIDE DEF S
<1>4. SumFunction(PaidOut') = SumFunction(PaidOut)
         - (IF y \in S THEN PaidOut[y] ELSE 0)
         + (IF y \in S' THEN PaidOut'[y] ELSE 0)
  BY <1>1, <1>2, <1>3, AddsChange
<1> QED BY <1>2, <1>3, <1>4

LEMMA AsideChanges ==
    ASSUME TermsAdd, TermsAdd', NEW y, PayoutWritten(y), NEW e \in Employees
    PROVE  SumFunction(Aside(e))' = SumFunction(Aside(e))
             - (IF y \in PendingOf(e) THEN payouts'[y].amount ELSE 0)
             + (IF y \in PendingOf(e)' THEN payouts'[y].amount ELSE 0)
<1>1. Adds(Aside(e), PendingOf(e)) /\ Adds(Aside(e)', PendingOf(e)')
  BY DEF TermsAdd, Adds
<1>2. PendingOf(e) \ {y} = PendingOf(e)' \ {y}
  BY DEF PayoutWritten, PendingOf, PayoutsIn
<1>3. /\ \A z \in PendingOf(e) \ {y} : Aside(e)'[z] = Aside(e)[z]
      /\ y \in PendingOf(e) => Aside(e)[y] = payouts'[y].amount
      /\ y \in PendingOf(e)' => Aside(e)'[y] = payouts'[y].amount
  BY <1>2 DEF PayoutWritten, Aside, PayoutAmount, PendingOf, PayoutsIn
<1>4. SumFunction(Aside(e)') = SumFunction(Aside(e))
         - (IF y \in PendingOf(e) THEN Aside(e)[y] ELSE 0)
         + (IF y \in PendingOf(e)' THEN Aside(e)'[y] ELSE 0)
  BY <1>1, <1>2, <1>3, AddsChange
<1> QED BY <1>3, <1>4

-----------------------------------------------------------------------------
(* The accounts, and what every operation of AtomicLedger does to them.    *)

Accounts == BudgetAccounted /\ EnvelopesBacked /\ ReimbursementsBacked

Typed == TablesTypeOK /\ TermsAdd /\ TablesTypeOK' /\ TermsAdd'

(* What a commit leaves alone adds up to the same.                         *)
LEMMA SumsStay ==
    /\ UNCHANGED projects => /\ \A m \in Managers : /\ Envelopes(m)' = Envelopes(m)
                                                     /\ Remainders(m)' = Remainders(m)
                             /\ GivenOut' = GivenOut
    /\ UNCHANGED topups => \A m \in Managers : Grants(m)' = Grants(m)
    /\ UNCHANGED employees => Holdings' = Holdings
    /\ UNCHANGED payouts => /\ PaidOut' = PaidOut
                            /\ \A e \in Employees : Aside(e)' = Aside(e)
<1>1. UNCHANGED projects => /\ \A m \in Managers : /\ Envelopes(m)' = Envelopes(m)
                                                   /\ Remainders(m)' = Remainders(m)
                           /\ GivenOut' = GivenOut
  BY DEF Envelopes, Remainders, GivenOut, ProjectsOf, EnvelopeTotal, EnvelopeRemaining, Spent
<1>2. UNCHANGED topups => \A m \in Managers : Grants(m)' = Grants(m)
  BY DEF Grants, ApprovedTopupsOf, TopupAmount
<1>3. UNCHANGED employees => Holdings' = Holdings
  BY DEF Holdings, Holding
<1>4. UNCHANGED payouts => /\ PaidOut' = PaidOut
                           /\ \A e \in Employees : Aside(e)' = Aside(e)
  BY DEF PaidOut, Aside, PendingOf, PayoutsIn, PayoutAmount
<1> QED BY <1>1, <1>2, <1>3, <1>4

(* What a row of users' balances becomes.                                  *)
LEMMA BudgetWritten ==
    ASSUME TablesTypeOK, NEW m \in Managers, NEW available \in Int, NEW locked \in Int,
           Atomic!Budget(m, available, locked)
    PROVE  /\ managers'[m].budget_available = managers[m].budget_available + available
           /\ managers'[m].budget_locked = managers[m].budget_locked + locked
           /\ \A n \in Managers \ {m} : managers'[n] = managers[n]
BY DEF TablesTypeOK, ManagerRow, Atomic!Budget

LEMMA ReimburseWritten ==
    ASSUME TablesTypeOK, NEW e \in Employees, NEW available \in Int, NEW locked \in Int,
           Atomic!Reimburse(e, available, locked)
    PROVE  EmployeeWritten(e) /\ Holding(e)' = Holding(e) + available + locked
<1>1. /\ employees'[e].reimburse_available = employees[e].reimburse_available + available
      /\ employees'[e].reimburse_locked = employees[e].reimburse_locked + locked
      /\ \A d \in Employees \ {e} : employees'[d] = employees[d]
  BY DEF TablesTypeOK, EmployeeRow, Atomic!Reimburse
<1>2. employees[e].reimburse_available \in Int /\ employees[e].reimburse_locked \in Int
  BY DEF TablesTypeOK, EmployeeRow
<1> QED BY <1>1, <1>2 DEF EmployeeWritten, Holding

LEMMA TopupAccounts ==
    ASSUME Typed, Accounts, NEW t \in Topups,
           \/ \E m \in Managers, a \in Amounts : Atomic!FileTopup(t, m, a)
           \/ Atomic!ApproveTopup(t)
           \/ Atomic!RejectTopup(t)
    PROVE  Accounts'
<1> USE DEF Typed
<1>1. TopupWritten(t)
  BY NoRowAssumption DEF TablesTypeOK, TopupRow, TopupWritten, Atomic!FileTopup, Atomic!ApproveTopup,
     Atomic!RejectTopup
<1>2. UNCHANGED <<projects, employees, payouts>>
  BY DEF Atomic!FileTopup, Atomic!ApproveTopup, Atomic!RejectTopup
<1>3. ReimbursementsBacked'
  BY <1>2, SumsStay DEF Accounts, ReimbursementsBacked
<1>4. ASSUME NEW m \in Managers
      PROVE  /\ managers'[m].budget_locked = managers[m].budget_locked
             /\ managers'[m].budget_available = managers[m].budget_available +
                  (IF topups'[t].manager = m /\ topups'[t].status = "approved"
                     THEN topups'[t].amount ELSE 0)
  <2>1. managers[m].budget_available \in Nat /\ managers[m].budget_locked \in Nat
    BY DEF TablesTypeOK, ManagerRow
  <2>2. CASE Atomic!ApproveTopup(t)
    <3>1. /\ topups[t] \in TopupRow
          /\ topups'[t] = [topups[t] EXCEPT !.status = "approved"]
          /\ Atomic!Budget(topups[t].manager, topups[t].amount, 0)
      BY <2>2 DEF TablesTypeOK, Atomic!ApproveTopup
    <3>2. /\ topups[t].manager \in Managers /\ topups[t].amount \in Int
          /\ topups'[t].manager = topups[t].manager /\ topups'[t].status = "approved"
          /\ topups'[t].amount = topups[t].amount
      BY <3>1, AmountsAssumption DEF TopupRow
    <3> QED BY <2>1, <3>1, <3>2, BudgetWritten
  <2>3. CASE ~Atomic!ApproveTopup(t)
    <3>1. topups'[t].status # "approved" /\ managers' = managers
      BY <2>3 DEF TablesTypeOK, TopupRow, Atomic!FileTopup, Atomic!RejectTopup
    <3> QED BY <2>1, <3>1
  <2> QED BY <2>2, <2>3
<1>5. EnvelopesBacked'
  BY <1>2, <1>4, SumsStay DEF Accounts, EnvelopesBacked
<1>6. ASSUME NEW m \in Managers
      PROVE  managers'[m].budget_available + SumFunction(Envelopes(m))'
               = OpeningBudget + SumFunction(Grants(m))'
  <2> DEFINE x == IF topups'[t].manager = m /\ topups'[t].status = "approved"
                    THEN topups'[t].amount ELSE 0
  <2>1. SumFunction(Grants(m))' = SumFunction(Grants(m)) + x
    BY <1>1, GrantsChange
  <2>2. SumFunction(Envelopes(m))' = SumFunction(Envelopes(m))
    BY <1>2, SumsStay
  <2>3. managers'[m].budget_available = managers[m].budget_available + x
    BY <1>4
  <2>4. managers[m].budget_available + SumFunction(Envelopes(m))
          = OpeningBudget + SumFunction(Grants(m))
    BY DEF Accounts, BudgetAccounted
  <2>5. /\ x \in Int /\ managers[m].budget_available \in Int
        /\ SumFunction(Envelopes(m)) \in Int /\ SumFunction(Grants(m)) \in Int
        /\ OpeningBudget \in Int
    <3>1. topups'[t].amount \in Amounts
      BY <1>1 DEF TablesTypeOK, TopupWritten, TopupRow
    <3>2. topups'[t].amount \in Int
      BY <3>1, AmountsAreInts
    <3> QED BY <3>2, OpeningAssumption DEF TablesTypeOK, ManagerRow, TermsAdd, Adds
  <2> HIDE DEF x
  <2> QED BY <2>1, <2>2, <2>3, <2>4, <2>5
<1>7. BudgetAccounted'
  BY <1>6 DEF BudgetAccounted
<1> QED BY <1>3, <1>5, <1>7 DEF Accounts

(* The accounts of one manager.                                            *)
Balanced(m) ==
    /\ managers[m].budget_available + SumFunction(Envelopes(m))
         = OpeningBudget + SumFunction(Grants(m))
    /\ managers[m].budget_locked = SumFunction(Remainders(m))

LEMMA AccountsAreBalanced ==
    Accounts <=> (\A m \in Managers : Balanced(m)) /\ ReimbursementsBacked
BY DEF Accounts, BudgetAccounted, EnvelopesBacked, Balanced

LEMMA AccountsWillBeBalanced ==
    Accounts' <=> (\A m \in Managers : Balanced(m)') /\ ReimbursementsBacked'
BY DEF Accounts, BudgetAccounted, EnvelopesBacked, Balanced

LEMMA SumsAreInts ==
    ASSUME Typed
    PROVE  /\ \A m \in Managers :
                /\ managers[m].budget_available \in Int /\ managers[m].budget_locked \in Int
                /\ SumFunction(Envelopes(m)) \in Int /\ SumFunction(Remainders(m)) \in Int
                /\ SumFunction(Grants(m)) \in Int
           /\ OpeningBudget \in Int
           /\ Cardinality(Employees) * OpeningReimburse \in Int
           /\ SumFunction(Holdings) \in Int /\ SumFunction(PaidOut) \in Int
           /\ SumFunction(GivenOut) \in Int
<1>1. ASSUME NEW m \in Managers
      PROVE  /\ managers[m].budget_available \in Int /\ managers[m].budget_locked \in Int
             /\ SumFunction(Envelopes(m)) \in Int /\ SumFunction(Remainders(m)) \in Int
             /\ SumFunction(Grants(m)) \in Int
  BY DEF Typed, TablesTypeOK, ManagerRow, TermsAdd, Adds
<1>2. Cardinality(Employees) * OpeningReimburse \in Int
  <2>1. Cardinality(Employees) \in Nat
    BY RowsAssumption, FS_CardinalityType
  <2> QED BY <2>1, OpeningAssumption
<1>3. /\ SumFunction(Holdings) \in Int /\ SumFunction(PaidOut) \in Int
      /\ SumFunction(GivenOut) \in Int
  BY DEF Typed, TermsAdd, Adds
<1> QED BY <1>1, <1>2, <1>3, OpeningAssumption

LEMMA OpenProjectAccounts ==
    ASSUME Typed, Accounts, NEW p \in Projects, NEW m \in Managers,
           NEW total \in Amounts, NEW amount \in Amounts,
           Atomic!OpenProject(p, m, total, amount)
    PROVE  Accounts'
<1>1. /\ projects[p] = NoRow
      /\ projects'[p] = [manager |-> m, claim_amount |-> amount, envelope_total |-> total,
                         envelope_remaining |-> total, status |-> "open", deleted |-> FALSE]
      /\ projects'[p] \in ProjectRow
      /\ \A q \in Projects \ {p} : projects'[q] = projects[q]
      /\ Atomic!Budget(m, -total, total)
      /\ UNCHANGED <<employees, topups, claims, payouts>>
  BY AmountsAssumption DEF Typed, TablesTypeOK, Atomic!OpenProject, ProjectRow
<1>2. /\ projects'[p].manager = m /\ projects'[p].envelope_total = total
      /\ projects'[p].envelope_remaining = total /\ total \in Int
  BY <1>1, AmountsAreInts
<1>3. ProjectWritten(p)
  BY <1>1, NoRowAssumption DEF ProjectWritten
<1>4. Spent(p)' = 0
  BY <1>2 DEF Spent, EnvelopeTotal, EnvelopeRemaining
<1>5. ReimbursementsBacked'
  <2>1. SumFunction(GivenOut)' = SumFunction(GivenOut) - 0 + 0
    BY <1>1, <1>3, <1>4, GivenOutChanges DEF Typed
  <2>2. Holdings' = Holdings /\ PaidOut' = PaidOut
    BY <1>1, SumsStay
  <2> QED BY <2>1, <2>2, SumsAreInts DEF Accounts, ReimbursementsBacked
<1>6. /\ managers'[m].budget_available = managers[m].budget_available + (-total)
      /\ managers'[m].budget_locked = managers[m].budget_locked + total
      /\ \A n \in Managers \ {m} : managers'[n] = managers[n]
  BY <1>1, <1>2, BudgetWritten DEF Typed
<1>7. ASSUME NEW n \in Managers
      PROVE  Balanced(n)'
  <2>1. Balanced(n) /\ SumFunction(Grants(n))' = SumFunction(Grants(n))
    BY <1>1, SumsStay, AccountsAreBalanced
  <2>2. CASE n # m
    <3>1. /\ SumFunction(Envelopes(n))' = SumFunction(Envelopes(n))
          /\ SumFunction(Remainders(n))' = SumFunction(Remainders(n))
      BY <1>2, <1>3, <2>2, EnvelopesChange DEF Typed
    <3> QED BY <1>6, <2>1, <2>2, <3>1 DEF Balanced
  <2>3. CASE n = m
    <3>1. /\ SumFunction(Envelopes(n))' = SumFunction(Envelopes(n)) + total
          /\ SumFunction(Remainders(n))' = SumFunction(Remainders(n)) + total
      BY <1>1, <1>2, <1>3, <2>3, EnvelopesChange DEF Typed
    <3> QED BY <1>2, <1>6, <2>1, <2>3, <3>1, SumsAreInts DEF Balanced
  <2> QED BY <2>2, <2>3
<1> QED BY <1>5, <1>7, AccountsWillBeBalanced

LEMMA HideProjectAccounts ==
    ASSUME Typed, Accounts, NEW p \in Projects, NEW hidden \in BOOLEAN,
           Atomic!HideProject(p, hidden)
    PROVE  Accounts'
<1>1. /\ projects[p] # NoRow /\ projects'[p] \in ProjectRow
      /\ projects'[p].manager = projects[p].manager
      /\ projects'[p].envelope_total = projects[p].envelope_total
      /\ projects'[p].envelope_remaining = projects[p].envelope_remaining
      /\ \A q \in Projects \ {p} : projects'[q] = projects[q]
      /\ UNCHANGED <<managers, employees, topups, claims, payouts>>
  BY DEF Typed, TablesTypeOK, Atomic!HideProject, ProjectRow
<1>2. ProjectWritten(p)
  BY <1>1, NoRowAssumption DEF ProjectWritten
<1>3. Spent(p)' = Spent(p) /\ Spent(p) \in Int /\ projects[p].envelope_remaining \in Int
  BY <1>1, AmountsFit DEF Spent, EnvelopeTotal, EnvelopeRemaining, Typed, TablesTypeOK
<1>4. ReimbursementsBacked'
  <2>1. SumFunction(GivenOut)' = SumFunction(GivenOut) - Spent(p) + Spent(p)
    BY <1>1, <1>2, <1>3, GivenOutChanges DEF Typed
  <2>2. Holdings' = Holdings /\ PaidOut' = PaidOut
    BY <1>1, SumsStay
  <2> QED BY <1>3, <2>1, <2>2, SumsAreInts DEF Accounts, ReimbursementsBacked
<1>5. ASSUME NEW n \in Managers
      PROVE  Balanced(n)'
  <2>1. Balanced(n) /\ SumFunction(Grants(n))' = SumFunction(Grants(n))
    BY <1>1, SumsStay, AccountsAreBalanced
  <2>2. /\ SumFunction(Envelopes(n))' = SumFunction(Envelopes(n))
        /\ SumFunction(Remainders(n))' = SumFunction(Remainders(n))
    BY <1>1, <1>2, <1>3, EnvelopesChange, SumsAreInts DEF Typed
  <2> QED BY <1>1, <2>1, <2>2 DEF Balanced
<1> QED BY <1>4, <1>5, AccountsWillBeBalanced

LEMMA ApproveClaimAccounts ==
    ASSUME Typed, Accounts, NEW c \in Claims, claims[c] # NoRow,
           projects[claims[c].project] # NoRow, Atomic!ApproveClaim(c)
    PROVE  Accounts'
<1>1. PICK p \in Projects, e \in Employees :
        p = claims[c].project /\ e = claims[c].employee /\ projects[p] \in ProjectRow
  BY DEF Typed, TablesTypeOK, ClaimRow
<1>2. PICK amount \in Nat : amount = projects[p].claim_amount
  BY <1>1, AmountsFit
<1>3. PICK m \in Managers : m = projects[p].manager
  BY <1>1 DEF ProjectRow
<1>4. /\ projects' = [projects EXCEPT ![p].envelope_remaining = @ - amount]
      /\ Atomic!Budget(m, 0, -amount)
      /\ Atomic!Reimburse(e, amount, 0)
      /\ UNCHANGED <<topups, payouts>>
  BY <1>1, <1>2, <1>3 DEF Atomic!ApproveClaim
<1>5. /\ projects[p] # NoRow /\ projects'[p] \in ProjectRow
      /\ projects'[p].manager = m
      /\ projects'[p].envelope_total = projects[p].envelope_total
      /\ projects'[p].envelope_remaining = projects[p].envelope_remaining - amount
      /\ \A q \in Projects \ {p} : projects'[q] = projects[q]
  <2>1. projects[p] # NoRow /\ projects'[p] = [projects[p] EXCEPT !.envelope_remaining = @ - amount]
    BY <1>1, <1>4 DEF Typed, TablesTypeOK
  <2>2. projects'[p].manager = m
    BY <1>1, <1>3, <2>1 DEF ProjectRow
  <2>3. projects[p].envelope_remaining \in Nat /\ amount <= projects[p].envelope_remaining
    BY <1>1, <1>2 DEF Atomic!ApproveClaim, ProjectRow
  <2>4. projects'[p] \in ProjectRow
    BY <1>1, <1>2, <2>1, <2>3 DEF ProjectRow
  <2> QED BY <1>1, <1>4, <2>1, <2>2, <2>4 DEF Typed, TablesTypeOK, ProjectRow
<1>6. ProjectWritten(p)
  BY <1>3, <1>5, NoRowAssumption DEF ProjectWritten
<1>7. /\ projects[p].envelope_total \in Int /\ projects[p].envelope_remaining \in Int
      /\ Spent(p) \in Int /\ Spent(p)' = Spent(p) + amount
  BY <1>1, <1>5, AmountsFit DEF Spent, EnvelopeTotal, EnvelopeRemaining
<1>8. ReimbursementsBacked'
  <2>1. SumFunction(GivenOut)' = SumFunction(GivenOut) - Spent(p) + (Spent(p) + amount)
    BY <1>5, <1>6, <1>7, GivenOutChanges DEF Typed
  <2>2. SumFunction(Holdings)' = SumFunction(Holdings) - Holding(e) + (Holding(e) + amount + 0)
    BY <1>4, ReimburseWritten, HoldingsChange DEF Typed
  <2>3. Holding(e) \in Int
    BY DEF Holding, Typed, TablesTypeOK, EmployeeRow
  <2>4. PaidOut' = PaidOut
    BY <1>4, SumsStay
  <2> QED BY <1>7, <2>1, <2>2, <2>3, <2>4, SumsAreInts DEF Accounts, ReimbursementsBacked
<1>9. /\ managers'[m].budget_available = managers[m].budget_available + 0
      /\ managers'[m].budget_locked = managers[m].budget_locked + (-amount)
      /\ \A n \in Managers \ {m} : managers'[n] = managers[n]
  BY <1>4, BudgetWritten DEF Typed
<1>10. ASSUME NEW n \in Managers
      PROVE  Balanced(n)'
  <2>1. Balanced(n) /\ SumFunction(Grants(n))' = SumFunction(Grants(n))
    BY <1>4, SumsStay, AccountsAreBalanced
  <2>2. CASE n # m
    <3>1. /\ SumFunction(Envelopes(n))' = SumFunction(Envelopes(n))
          /\ SumFunction(Remainders(n))' = SumFunction(Remainders(n))
      BY <1>5, <1>6, <2>2, EnvelopesChange DEF Typed
    <3> QED BY <1>9, <2>1, <2>2, <3>1 DEF Balanced
  <2>3. CASE n = m
    <3>1. /\ SumFunction(Envelopes(n))' = SumFunction(Envelopes(n))
          /\ SumFunction(Remainders(n))' = SumFunction(Remainders(n))
               - projects[p].envelope_remaining + (projects[p].envelope_remaining - amount)
      BY <1>5, <1>6, <2>3, EnvelopesChange DEF Typed
    <3> QED BY <1>7, <1>9, <2>1, <2>3, <3>1, SumsAreInts DEF Balanced
  <2> QED BY <2>2, <2>3
<1> QED BY <1>8, <1>10, AccountsWillBeBalanced

LEMMA FileClaimAccounts ==
    ASSUME Typed, Accounts, UNCHANGED <<managers, employees, topups, projects, payouts>>
    PROVE  Accounts'
<1>1. ReimbursementsBacked'
  BY SumsStay DEF Accounts, ReimbursementsBacked
<1>2. \A m \in Managers : Balanced(m)'
  BY SumsStay, AccountsAreBalanced DEF Balanced
<1> QED BY <1>1, <1>2, AccountsWillBeBalanced

(* A payout moves its amount between the employee's balances or out of     *)
(* them; reviewed again, it takes a second amount that pays for nothing.   *)
LEMMA PayoutAccounts ==
    ASSUME Typed, Accounts, NEW y \in Payouts,
           \/ \E e \in Employees, a \in Amounts : Atomic!FilePayout(y, e, a)
           \/ Atomic!CompletePayout(y)
           \/ Atomic!FailPayout(y)
    PROVE  Accounts'
<1>1. UNCHANGED <<managers, topups, projects, claims>>
  BY DEF Atomic!FilePayout, Atomic!CompletePayout, Atomic!FailPayout
<1>2. /\ payouts'[y] \in PayoutRow
      /\ payouts[y] # NoRow => payouts'[y].amount = payouts[y].amount
      /\ \A z \in Payouts \ {y} : payouts'[z] = payouts[z]
  BY AmountsAssumption DEF Typed, TablesTypeOK, PayoutRow, Atomic!FilePayout,
     Atomic!CompletePayout, Atomic!FailPayout
<1>3. PayoutWritten(y)
  BY <1>2, NoRowAssumption DEF PayoutWritten
<1>4. PICK amount \in Nat : amount = payouts'[y].amount
  BY <1>2, AmountsAssumption DEF PayoutRow
<1>5. PICK paid \in Nat : paid = IF Completed(y)' THEN amount ELSE 0
  OBVIOUS
<1>6. \A e \in Employees : Holding(e) \in Int
  BY DEF Holding, Typed, TablesTypeOK, EmployeeRow
<1>7. PICK e \in Employees : EmployeeWritten(e) /\ Holding(e)' = Holding(e) - paid
  <2>1. CASE \E e \in Employees, a \in Amounts : Atomic!FilePayout(y, e, a)
    <3>1. PICK e \in Employees, a \in Amounts : Atomic!FilePayout(y, e, a)
      BY <2>1
    <3>2. payouts'[y] = [employee |-> e, amount |-> a, status |-> "pending"]
      BY <3>1 DEF Typed, TablesTypeOK, Atomic!FilePayout
    <3>3. a \in Int /\ paid = 0
      BY <1>5, <3>2, AmountsAreInts DEF Completed
    <3>4. EmployeeWritten(e) /\ Holding(e)' = Holding(e) + (-a) + a
      BY <3>1, <3>3, ReimburseWritten DEF Typed, Atomic!FilePayout
    <3>5. Holding(e)' = Holding(e) - paid
      <4>1. Holding(e) \in Int
        BY <1>6
      <4>2. Holding(e) + (-a) + a = Holding(e) - paid
        BY <3>3, <4>1
      <4> QED BY <3>4, <4>2
    <3> QED BY <3>4, <3>5
  <2>2. CASE Atomic!CompletePayout(y)
    <3>1. /\ payouts[y].employee \in Employees /\ payouts[y].amount = amount
          /\ Atomic!Reimburse(payouts[y].employee, 0, -amount)
      BY <1>2, <1>4, <2>2 DEF Typed, TablesTypeOK, PayoutRow, Atomic!CompletePayout
    <3>2. paid = amount
      <4>1. payouts'[y].status = "completed" /\ payouts'[y] # NoRow
        BY <1>3, <2>2 DEF Typed, TablesTypeOK, PayoutRow, Atomic!CompletePayout, PayoutWritten
      <4> QED BY <1>5, <4>1 DEF Completed
    <3>3. PICK e \in Employees : e = payouts[y].employee
      BY <3>1
    <3>4. EmployeeWritten(e) /\ Holding(e)' = Holding(e) + 0 + (-amount)
      BY <3>1, <3>3, ReimburseWritten DEF Typed
    <3>5. Holding(e)' = Holding(e) - paid
      BY <1>6, <3>2, <3>4
    <3> QED BY <3>4, <3>5
  <2>3. CASE Atomic!FailPayout(y)
    <3>1. /\ payouts[y].employee \in Employees /\ payouts[y].amount = amount
          /\ Atomic!Reimburse(payouts[y].employee, amount, -amount)
      BY <1>2, <1>4, <2>3 DEF Typed, TablesTypeOK, PayoutRow, Atomic!FailPayout
    <3>2. paid = 0
      BY <1>5, <2>3 DEF Typed, TablesTypeOK, PayoutRow, Atomic!FailPayout, Completed
    <3>3. PICK e \in Employees : e = payouts[y].employee
      BY <3>1
    <3>4. EmployeeWritten(e) /\ Holding(e)' = Holding(e) + amount + (-amount)
      BY <3>1, <3>3, ReimburseWritten DEF Typed
    <3>5. Holding(e)' = Holding(e) - paid
      BY <1>6, <3>2, <3>4
    <3> QED BY <3>4, <3>5
  <2> QED BY <2>1, <2>2, <2>3
<1>8. SumFunction(Holdings)' = SumFunction(Holdings) - Holding(e) + (Holding(e) - paid)
  BY <1>7, HoldingsChange DEF Typed
<1>9. SumFunction(PaidOut)' <= SumFunction(PaidOut) + paid
  <2>1. SumFunction(PaidOut)' = SumFunction(PaidOut)
          - (IF Completed(y) THEN amount ELSE 0) + paid
    BY <1>3, <1>4, <1>5, PaidOutChanges DEF Typed
  <2> QED BY <2>1, SumsAreInts
<1>10. SumFunction(PaidOut)' \in Int
  BY DEF Typed, TermsAdd, Adds
<1>11. ReimbursementsBacked'
  <2>1. GivenOut' = GivenOut
    BY <1>1, SumsStay
  <2>2. SumFunction(Holdings)' + SumFunction(PaidOut)'
          <= SumFunction(Holdings) + SumFunction(PaidOut)
    BY <1>6, <1>8, <1>9, <1>10, SumsAreInts
  <2>3. SumFunction(Holdings)' \in Int
    BY DEF Typed, TermsAdd, Adds
  <2> QED BY <1>10, <2>1, <2>2, <2>3, SumsAreInts DEF Accounts, ReimbursementsBacked
<1>12. \A m \in Managers : Balanced(m)'
  BY <1>1, SumsStay, AccountsAreBalanced DEF Balanced
<1> QED BY <1>11, <1>12, AccountsWillBeBalanced

-----------------------------------------------------------------------------
(* What is locked of an employee's money. *)

(* The row e of a payout's employee is settled or set aside.               *)
LEMMA PayoutLocks ==
    ASSUME Typed, NEW y \in Payouts,
           \/ \E e \in Employees, a \in Amounts : Atomic!FilePayout(y, e, a)
           \/ Atomic!CompletePayout(y)
           \/ Atomic!FailPayout(y)
    PROVE  \E e \in Employees, amount \in Nat :
             /\ PayoutWritten(y) /\ payouts'[y].amount = amount /\ payouts'[y].employee = e
             /\ payouts[y] # NoRow => payouts[y].employee = e
             /\ \A d \in Employees \ {e} : employees'[d] = employees[d]
             /\ \/ /\ payouts[y] = NoRow /\ payouts'[y].status = "pending"
                   /\ employees'[e].reimburse_locked = employees[e].reimburse_locked + amount
                \/ /\ payouts'[y].status # "pending"
                   /\ employees'[e].reimburse_locked = employees[e].reimburse_locked - amount
<1>1. /\ payouts'[y] \in PayoutRow
      /\ payouts[y] # NoRow => /\ payouts[y] \in PayoutRow
                               /\ payouts'[y].amount = payouts[y].amount
                               /\ payouts'[y].employee = payouts[y].employee
      /\ \A z \in Payouts \ {y} : payouts'[z] = payouts[z]
  BY AmountsAssumption DEF Typed, TablesTypeOK, PayoutRow, Atomic!FilePayout,
     Atomic!CompletePayout, Atomic!FailPayout
<1>2. PayoutWritten(y)
  BY <1>1, NoRowAssumption DEF PayoutWritten
<1>3. PICK e \in Employees, amount \in Nat :
        payouts'[y].employee = e /\ payouts'[y].amount = amount
  BY <1>1, AmountsAssumption DEF PayoutRow
<1>4. payouts[y] # NoRow => payouts[y].employee = e /\ payouts[y].amount = amount
  BY <1>1, <1>3
<1>5. employees[e].reimburse_locked \in Int
  BY DEF Typed, TablesTypeOK, EmployeeRow
<1>6. CASE \E d \in Employees, a \in Amounts : Atomic!FilePayout(y, d, a)
  <2>1. PICK d \in Employees, a \in Amounts : Atomic!FilePayout(y, d, a)
    BY <1>6
  <2>2. payouts'[y] = [employee |-> d, amount |-> a, status |-> "pending"]
    BY <2>1 DEF Typed, TablesTypeOK, Atomic!FilePayout
  <2>3. d = e /\ a = amount /\ payouts[y] = NoRow /\ payouts'[y].status = "pending"
    BY <1>3, <2>1, <2>2 DEF Atomic!FilePayout
  <2>4. Atomic!Reimburse(e, -amount, amount)
    BY <2>1, <2>3 DEF Atomic!FilePayout
  <2>5. /\ employees'[e].reimburse_locked = employees[e].reimburse_locked + amount
        /\ \A f \in Employees \ {e} : employees'[f] = employees[f]
    BY <2>4 DEF Typed, TablesTypeOK, EmployeeRow, Atomic!Reimburse
  <2> QED BY <1>2, <1>3, <1>4, <2>3, <2>5
<1>7. CASE Atomic!CompletePayout(y) \/ Atomic!FailPayout(y)
  <2>1. payouts[y] # NoRow
    BY <1>7 DEF Atomic!CompletePayout, Atomic!FailPayout
  <2>2. payouts'[y].status # "pending"
    BY <1>1, <1>7, <2>1 DEF Typed, TablesTypeOK, PayoutRow, Atomic!CompletePayout,
       Atomic!FailPayout
  <2>3. PICK back \in {0, amount} : Atomic!Reimburse(e, back, -amount)
    BY <1>4, <1>7, <2>1 DEF Atomic!CompletePayout, Atomic!FailPayout
  <2>4. /\ employees'[e].reimburse_locked = employees[e].reimburse_locked + (-amount)
        /\ \A f \in Employees \ {e} : employees'[f] = employees[f]
    BY <2>3 DEF Typed, TablesTypeOK, EmployeeRow, Atomic!Reimburse
  <2>5. employees[e].reimburse_locked + (-amount) = employees[e].reimburse_locked - amount
    BY <1>5
  <2> QED BY <1>2, <1>3, <1>4, <2>2, <2>4, <2>5
<1> QED BY <1>6, <1>7

(* A payout unlocks its amount whenever it is settled, and is pending      *)
(* until it is settled first.                                              *)
LEMMA PayoutKeepsLocked ==
    ASSUME Typed, LockedIsPending, NEW y \in Payouts,
           \/ \E e \in Employees, a \in Amounts : Atomic!FilePayout(y, e, a)
           \/ Atomic!CompletePayout(y)
           \/ Atomic!FailPayout(y)
    PROVE  LockedIsPending'
<1>1. PICK e \in Employees, amount \in Nat :
        /\ PayoutWritten(y) /\ payouts'[y].amount = amount /\ payouts'[y].employee = e
        /\ payouts[y] # NoRow => payouts[y].employee = e
        /\ \A d \in Employees \ {e} : employees'[d] = employees[d]
        /\ \/ /\ payouts[y] = NoRow /\ payouts'[y].status = "pending"
              /\ employees'[e].reimburse_locked = employees[e].reimburse_locked + amount
           \/ /\ payouts'[y].status # "pending"
              /\ employees'[e].reimburse_locked = employees[e].reimburse_locked - amount
  BY PayoutLocks
<1>2. ASSUME NEW d \in Employees
      PROVE  employees'[d].reimburse_locked <= SumFunction(Aside(d))'
  <2>1. SumFunction(Aside(d))' = SumFunction(Aside(d))
           - (IF y \in PendingOf(d) THEN amount ELSE 0)
           + (IF y \in PendingOf(d)' THEN amount ELSE 0)
    BY <1>1, AsideChanges DEF Typed
  <2>2. /\ employees[d].reimburse_locked <= SumFunction(Aside(d))
        /\ employees[d].reimburse_locked \in Int /\ SumFunction(Aside(d)) \in Int
    BY DEF LockedIsPending, Typed, TablesTypeOK, EmployeeRow, TermsAdd, Adds
  <2>3. /\ y \in PendingOf(d) => payouts[y] # NoRow /\ d = e
        /\ y \in PendingOf(d)' <=> payouts'[y].status = "pending" /\ d = e
    BY <1>1 DEF PendingOf, PayoutsIn, PayoutWritten
  <2>4. CASE d # e
    BY <1>1, <2>1, <2>2, <2>3, <2>4
  <2>5. CASE d = e
    BY <1>1, <2>1, <2>2, <2>3, <2>5
  <2> QED BY <2>4, <2>5
<1> QED BY <1>2 DEF LockedIsPending

LEMMA OthersKeepLocked ==
    ASSUME Typed, LockedIsPending, UNCHANGED payouts,
           \A e \in Employees :
             employees'[e].reimburse_locked = employees[e].reimburse_locked
    PROVE  LockedIsPending'
BY SumsStay DEF LockedIsPending

LEMMA LockedKept ==
    ASSUME IInv, IInv', LockedIsPending, [Atomic!Next]_(Atomic!books)
    PROVE  LockedIsPending'
<1>1. Typed
  BY TypedTermsAdd, TypedTermsAddNext DEF IInv, TypeOK, Typed
<1>2. CASE UNCHANGED <<employees, payouts>>
  BY <1>1, <1>2, OthersKeepLocked
<1>3. ASSUME NEW c \in Claims, Atomic!ApproveClaim(c)
      PROVE  LockedIsPending'
  <2>1. claims[c] # NoRow /\ projects[claims[c].project] # NoRow
    BY <1>3 DEF Atomic!ApproveClaim, IInv, ClaimsHaveProjects
  <2>2. PICK p \in Projects, e \in Employees :
          p = claims[c].project /\ e = claims[c].employee /\ projects[p] \in ProjectRow
    BY <1>1, <2>1 DEF Typed, TablesTypeOK, ClaimRow
  <2>3. PICK amount \in Nat : amount = projects[p].claim_amount
    BY <2>2, AmountsFit
  <2>4. Atomic!Reimburse(e, amount, 0) /\ UNCHANGED payouts
    BY <1>3, <2>2, <2>3 DEF Atomic!ApproveClaim
  <2>5. \A d \in Employees :
          employees'[d].reimburse_locked = employees[d].reimburse_locked
    BY <1>1, <2>4 DEF Atomic!Reimburse, Typed, TablesTypeOK, EmployeeRow
  <2> QED BY <1>1, <2>4, <2>5, OthersKeepLocked
<1>4. ASSUME NEW y \in Payouts, \/ \E e \in Employees, a \in Amounts : Atomic!FilePayout(y, e, a)
                                \/ Atomic!CompletePayout(y)
                                \/ Atomic!FailPayout(y)
      PROVE  LockedIsPending'
  BY <1>1, <1>4, PayoutKeepsLocked
<1>5. CASE UNCHANGED Atomic!books
  BY <1>2, <1>5 DEF Atomic!books
<1> QED
  BY <1>2, <1>3, <1>4, <1>5 DEF Atomic!Next, Atomic!FileTopup, Atomic!ApproveTopup,
     Atomic!RejectTopup, Atomic!OpenProject, Atomic!HideProject, Atomic!FileClaim,
     Atomic!RejectClaim

LEMMA LockedInit == Init => LockedIsPending
<1> SUFFICES ASSUME Init, NEW e \in Employees
             PROVE  employees[e].reimburse_locked <= SumFunction(Aside(e))
  BY DEF LockedIsPending
<1>1. DOMAIN Aside(e) = {}
  BY DEF Init, TablesInit, Aside, PendingOf, PayoutsIn
<1>2. SumFunction(Aside(e)) = 0
  BY <1>1, SumOfNothing
<1> QED BY <1>2 DEF Init, TablesInit

-----------------------------------------------------------------------------
LEMMA AccountsInit == Init => Accounts
<1> SUFFICES ASSUME Init  PROVE Accounts
  OBVIOUS
<1>1. ASSUME NEW m \in Managers
      PROVE  Balanced(m)
  <2>1. /\ DOMAIN Envelopes(m) = {} /\ DOMAIN Remainders(m) = {} /\ DOMAIN Grants(m) = {}
    BY DEF Init, TablesInit, Envelopes, Remainders, Grants, ProjectsOf, ApprovedTopupsOf
  <2>2. /\ SumFunction(Envelopes(m)) = 0 /\ SumFunction(Remainders(m)) = 0
        /\ SumFunction(Grants(m)) = 0
    BY <2>1, SumOfNothing
  <2> QED BY <2>2 DEF Init, TablesInit, Balanced
<1>2. ReimbursementsBacked
  <2>1. DOMAIN PaidOut = {} /\ DOMAIN GivenOut = {}
    BY DEF Init, TablesInit, PaidOut, GivenOut, PayoutsIn
  <2>2. SumFunction(PaidOut) = 0 /\ SumFunction(GivenOut) = 0
    BY <2>1, SumOfNothing
  <2>3. Holdings = [e \in Employees |-> OpeningReimburse]
    BY OpeningAssumption DEF Init, TablesInit, Holdings, Holding
  <2>4. SumFunction(Holdings) = Cardinality(Employees) * OpeningReimburse
    <3>1. OpeningReimburse \in Int
      BY OpeningAssumption
    <3>2. SumFunction([e \in Employees |-> OpeningReimburse])
            = Cardinality(Employees) * OpeningReimburse
      BY <3>1, SumOfConstant, RowsAssumption
    <3> QED BY <2>3, <3>2
  <2>5. Cardinality(Employees) * OpeningReimburse \in Int
    BY RowsAssumption, FS_CardinalityType, OpeningAssumption
  <2> QED BY <2>2, <2>4, <2>5 DEF ReimbursementsBacked
<1> QED BY <1>1, <1>2, AccountsAreBalanced

LEMMA AccountsKept ==
    ASSUME IInv, IInv', Accounts, [Atomic!Next]_(Atomic!books)
    PROVE  Accounts'
<1>1. Typed
  BY TypedTermsAdd, TypedTermsAddNext DEF IInv, TypeOK, Typed
<1>2. CASE UNCHANGED Atomic!books
  BY <1>1, <1>2, FileClaimAccounts DEF Atomic!books
<1>3. ASSUME NEW t \in Topups, \/ \E m \in Managers, a \in Amounts : Atomic!FileTopup(t, m, a)
                               \/ Atomic!ApproveTopup(t)
                               \/ Atomic!RejectTopup(t)
      PROVE  Accounts'
  BY <1>1, <1>3, TopupAccounts
<1>4. ASSUME NEW p \in Projects, NEW m \in Managers, NEW total \in Amounts,
             NEW a \in Amounts, Atomic!OpenProject(p, m, total, a)
      PROVE  Accounts'
  BY <1>1, <1>4, OpenProjectAccounts
<1>5. ASSUME NEW p \in Projects, NEW hidden \in BOOLEAN, Atomic!HideProject(p, hidden)
      PROVE  Accounts'
  BY <1>1, <1>5, HideProjectAccounts
<1>6. ASSUME NEW c \in Claims, NEW p \in Projects, NEW e \in Employees,
             Atomic!FileClaim(c, p, e)
      PROVE  Accounts'
  BY <1>1, <1>6, FileClaimAccounts DEF Atomic!FileClaim
<1>7. ASSUME NEW c \in Claims, Atomic!RejectClaim(c)
      PROVE  Accounts'
  BY <1>1, <1>7, FileClaimAccounts DEF Atomic!RejectClaim
<1>8. ASSUME NEW c \in Claims, Atomic!ApproveClaim(c)
      PROVE  Accounts'
  <2>1. claims[c] # NoRow /\ projects[claims[c].project] # NoRow
    BY <1>8 DEF Atomic!ApproveClaim, IInv, ClaimsHaveProjects
  <2> QED BY <1>1, <1>8, <2>1, ApproveClaimAccounts
<1>9. ASSUME NEW y \in Payouts, \/ \E e \in Employees, a \in Amounts : Atomic!FilePayout(y, e, a)
                                \/ Atomic!CompletePayout(y)
                                \/ Atomic!FailPayout(y)
      PROVE  Accounts'
  BY <1>1, <1>9, PayoutAccounts
<1> QED
  BY <1>2, <1>3, <1>4, <1>5, <1>6, <1>7, <1>8, <1>9 DEF Atomic!Next

(* The accounts are an invariant of the tables' operations, and every      *)
(* transaction is one of them.                                             *)
LEMMA AccountsHold == Spec => []Accounts
<1>1. IInv /\ IInv' /\ Accounts /\ [Next]_vars => Accounts'
  BY StepsAreAtomic, AccountsKept
<1> QED
  BY <1>1, AccountsInit, InductiveInvariant, PTL DEF Spec

(* A manager's balance and the envelopes of the projects created from it   *)
(* are together the opening balance and the top-ups that were approved,    *)
(* whatever was created, approved and stopped half-way.                    *)
THEOREM BudgetIsAccounted == Spec => []BudgetAccounted
<1>1. Accounts => BudgetAccounted
  BY DEF Accounts
<1> QED
  BY <1>1, AccountsHold, PTL

(* What is locked of a manager's balance is what is left in the envelopes  *)
(* of the manager's projects, deleted ones too.                            *)
THEOREM EnvelopesAreBacked == Spec => []EnvelopesBacked
<1>1. Accounts => EnvelopesBacked
  BY DEF Accounts
<1> QED
  BY <1>1, AccountsHold, PTL

(* No more was reimbursed, held and paid out together, than the opening    *)
(* balances and the claims that the projects' envelopes paid for.          *)
THEOREM ReimbursementsAreBacked == Spec => []ReimbursementsBacked
<1>1. Accounts => ReimbursementsBacked
  BY DEF Accounts
<1> QED
  BY <1>1, AccountsHold, PTL

(* No money of an employee's stays locked once no payout that could        *)
(* release it is pending, however often its payouts are reviewed           *)
(* (ReviewPayout, ConsumeLockedPayout and ReleaseLockedPayout).            *)
THEOREM NoMoneyStaysLocked == Spec => []LockedIsPending
<1>1. IInv /\ IInv' /\ LockedIsPending /\ [Next]_vars => LockedIsPending'
  BY StepsAreAtomic, LockedKept
<1> QED
  BY <1>1, LockedInit, InductiveInvariant, PTL DEF Spec

=============================================================================
