------------------------------ MODULE ApiProofs ------------------------------
(***************************************************************************)
(* The idempotency middleware in front of the ledger's real transactions   *)
(* implements Idempotency for every value of the constants.  Decided grows *)
(* at four commits only, by the row of the handler's request, and for a    *)
(* review with a key that is the row the key was made for (Linked).        *)
(***************************************************************************)
EXTENDS PaymentHistory, LedgerProofs

USE DEF Steps, TopupSteps, CreateProjectSteps, ProjectSteps, CreateClaimSteps,
        ApproveClaimSteps, ReviewClaimSteps, ClaimSteps, CreatePayoutSteps,
        ReviewPayoutSteps, PayoutSteps

Fits == [key : Keys!Keys, row : Reviewed]
Stages == {"idle", "Lookup", "Check", "Decide", "Save"}

(* The transaction of a review with a key is about the row it asks for.    *)
Linked(h) ==
    /\ stage[h] # "idle" => asked[h] \in Fits
    /\ stage[h] = "Decide" =>
         \/ pc[h] \in TopupSteps /\ req[h].topup = asked[h].row
         \/ pc[h] \in ReviewClaimSteps /\ req[h].claim = asked[h].row
         \/ pc[h] \in ReviewPayoutSteps /\ req[h].payout = asked[h].row

StagesFit ==
    /\ stage \in [Handlers -> Stages]
    /\ asked \in [Handlers -> Fits \cup {NoRequest}]
    /\ status \in [Handlers -> Keys!Statuses \cup {NoResponse}]

ApiInv ==
    /\ IInv
    /\ StagesFit
    /\ \A h \in Handlers : Linked(h)

-----------------------------------------------------------------------------
(* What each commit decides. *)

DecidedTopups  == {t \in Topups : topups[t] # NoRow /\ topups[t].status # "pending"}
DecidedClaims  == {c \in Claims : claims[c] # NoRow /\ claims[c].status # "pending"}
DecidedPayouts == {y \in Payouts : payouts[y] # NoRow /\ payouts[y].status # "pending"}

LEMMA DecidedByTable ==
    /\ Decided = DecidedTopups \cup DecidedClaims \cup DecidedPayouts
    /\ Decided' = DecidedTopups' \cup DecidedClaims' \cup DecidedPayouts'
  BY RowsAreDisjoint DEF Decided, Reviewed, Exists, Pending, RowOf, DecidedTopups,
     DecidedClaims, DecidedPayouts

LEMMA DecidedStays ==
    ASSUME UNCHANGED <<topups, claims, payouts>>
    PROVE  Decided' = Decided
  BY DecidedByTable DEF DecidedTopups, DecidedClaims, DecidedPayouts

(* A review of a top-up decides it, and it was pending still.              *)
LEMMA TopupDecides ==
    ASSUME IInv, NEW h \in Handlers, TopupCommit(h)
    PROVE  /\ req[h].topup \in Topups /\ req[h].topup \notin Decided
           /\ Decided' = Decided \cup {req[h].topup}
<1> DEFINE t == req[h].topup
<1>1. /\ topups \in [Topups -> TopupRow \cup {NoRow}] /\ pc[h] = "TopupCommit"
      /\ RequestFits(h) /\ HandlerFits(h)
  BY DEF IInv, TypeOK, TablesTypeOK, TopupCommit
<1>2. /\ t \in Topups /\ topups[t] \in TopupRow /\ topups[t].status = "pending"
      /\ req[h].status \in {"approved", "rejected"}
  BY <1>1 DEF RequestFits, TopupReviews, HandlerFits, TopupReviewFits, TopupIsPending
<1>3. topups' = [topups EXCEPT ![t].status = req[h].status] /\ UNCHANGED <<claims, payouts>>
  BY DEF TopupCommit
<1>4. /\ topups'[t] \in TopupRow /\ topups'[t].status # "pending"
      /\ \A u \in Topups : u # t => topups'[u] = topups[u]
  BY <1>1, <1>2, <1>3 DEF TopupRow
<1> HIDE DEF t
<1>5. DecidedTopups' = DecidedTopups \cup {t} /\ t \notin DecidedTopups
  BY <1>2, <1>4, NoRowAssumption DEF DecidedTopups
<1>6. UNCHANGED <<DecidedClaims, DecidedPayouts>>
  BY <1>3 DEF DecidedClaims, DecidedPayouts
<1>7. t \in Topups /\ t \notin Decided /\ Decided' = Decided \cup {t}
  BY <1>2, <1>5, <1>6, DecidedByTable, RowsAreDisjoint DEF DecidedClaims, DecidedPayouts
<1> QED BY <1>7 DEF t

(* A review of a claim decides it, whether or not it had been decided.     *)
LEMMA ClaimDecides ==
    ASSUME IInv, NEW h \in Handlers, ClaimReject(h) \/ ClaimCommit(h)
    PROVE  req[h].claim \in Claims /\ Decided' = Decided \cup {req[h].claim}
<1> DEFINE c == req[h].claim
<1>1. /\ claims \in [Claims -> ClaimRow \cup {NoRow}] /\ pc[h] \in ReviewClaimSteps
      /\ RequestFits(h) /\ HandlerFits(h)
  BY DEF IInv, TypeOK, TablesTypeOK, ClaimReject, ClaimCommit
<1>2. c \in Claims /\ claims[c] \in ClaimRow
  BY <1>1 DEF RequestFits, ClaimReviews, HandlerFits, ClaimReviewFits
<1>3. /\ \/ claims' = [claims EXCEPT ![c].status = "rejected"]
         \/ claims' = [claims EXCEPT ![c].status = "approved"]
      /\ UNCHANGED <<topups, payouts>>
  BY DEF ClaimReject, ClaimCommit
<1>4. /\ claims'[c] \in ClaimRow /\ claims'[c].status # "pending"
      /\ \A d \in Claims : d # c => claims'[d] = claims[d]
  BY <1>1, <1>2, <1>3 DEF ClaimRow
<1> HIDE DEF c
<1>5. DecidedClaims' = DecidedClaims \cup {c}
  BY <1>2, <1>4, NoRowAssumption DEF DecidedClaims
<1>6. UNCHANGED <<DecidedTopups, DecidedPayouts>>
  BY <1>3 DEF DecidedTopups, DecidedPayouts
<1>7. c \in Claims /\ Decided' = Decided \cup {c}
  BY <1>2, <1>5, <1>6, DecidedByTable
<1> QED BY <1>7 DEF c

LEMMA PayoutDecides ==
    ASSUME IInv, NEW h \in Handlers, PayoutCommit(h)
    PROVE  req[h].payout \in Payouts /\ Decided' = Decided \cup {req[h].payout}
<1> DEFINE y == req[h].payout
<1>1. /\ payouts \in [Payouts -> PayoutRow \cup {NoRow}] /\ pc[h] = "PayoutCommit"
      /\ RequestFits(h) /\ HandlerFits(h)
  BY DEF IInv, TypeOK, TablesTypeOK, PayoutCommit
<1>2. /\ y \in Payouts /\ payouts[y] \in PayoutRow
      /\ req[h].status \in {"completed", "failed"}
  BY <1>1 DEF RequestFits, PayoutReviews, HandlerFits, PayoutReviewFits
<1>3. payouts' = [payouts EXCEPT ![y].status = req[h].status] /\ UNCHANGED <<topups, claims>>
  BY DEF PayoutCommit
<1>4. /\ payouts'[y] \in PayoutRow /\ payouts'[y].status # "pending"
      /\ \A z \in Payouts : z # y => payouts'[z] = payouts[z]
  BY <1>1, <1>2, <1>3 DEF PayoutRow
<1> HIDE DEF y
<1>5. DecidedPayouts' = DecidedPayouts \cup {y}
  BY <1>2, <1>4, NoRowAssumption DEF DecidedPayouts
<1>6. UNCHANGED <<DecidedTopups, DecidedClaims>>
  BY <1>3 DEF DecidedTopups, DecidedClaims
<1>7. y \in Payouts /\ Decided' = Decided \cup {y}
  BY <1>2, <1>5, <1>6, DecidedByTable
<1> QED BY <1>7 DEF y

(* A row that is created is pending; every other statement decides nothing. *)
LEMMA ClaimCreateDecidesNothing ==
    ASSUME IInv, NEW h \in Handlers, ClaimCreate(h)
    PROVE  Decided' = Decided
<1>1. CASE UNCHANGED tables
  BY <1>1, DecidedStays DEF tables
<1>2. CASE ~UNCHANGED tables
  <2> DEFINE new == [project |-> req[h].project, employee |-> req[h].employee,
                     status |-> "pending"]
  <2>1. PICK c \in Claims : claims[c] = NoRow /\ claims' = [claims EXCEPT ![c] = new]
    BY <1>2 DEF ClaimCreate, Rollback
  <2>2. claims \in [Claims -> ClaimRow \cup {NoRow}] /\ UNCHANGED <<topups, payouts>>
    BY <1>2 DEF IInv, TypeOK, TablesTypeOK, ClaimCreate, Rollback
  <2>3. new.status = "pending"
    OBVIOUS
  <2> HIDE DEF new
  <2>4. UNCHANGED <<DecidedTopups, DecidedClaims, DecidedPayouts>>
    BY <2>1, <2>2, <2>3 DEF DecidedTopups, DecidedClaims, DecidedPayouts
  <2> QED BY <2>4, DecidedByTable
<1> QED BY <1>1, <1>2

LEMMA PayoutCreateDecidesNothing ==
    ASSUME IInv, NEW h \in Handlers, PayoutCreateCommit(h)
    PROVE  Decided' = Decided
<1> DEFINE y == req[h].payout
           new == [employee |-> req[h].employee, amount |-> req[h].amount,
                   status |-> "pending"]
<1>1. /\ payouts \in [Payouts -> PayoutRow \cup {NoRow}] /\ pc[h] = "PayoutCreateCommit"
      /\ HandlerFits(h)
  BY DEF IInv, TypeOK, TablesTypeOK, PayoutCreateCommit
<1>2. payouts[y] = NoRow
  BY <1>1 DEF HandlerFits, PayoutCreationFits
<1>3. payouts' = [payouts EXCEPT ![y] = new] /\ UNCHANGED <<topups, claims>>
  BY DEF PayoutCreateCommit
<1>4. new.status = "pending"
  OBVIOUS
<1> HIDE DEF new, y
<1>5. UNCHANGED <<DecidedTopups, DecidedClaims, DecidedPayouts>>
  BY <1>1, <1>2, <1>3, <1>4 DEF DecidedTopups, DecidedClaims, DecidedPayouts
<1> QED BY <1>5, DecidedByTable

LEMMA CreateTopupDecidesNothing ==
    ASSUME IInv, NEW m \in Managers, NEW t \in Topups, NEW amount \in Amounts,
           CreateTopup(m, t, amount)
    PROVE  Decided' = Decided
<1> DEFINE new == [manager |-> m, amount |-> amount, status |-> "pending"]
<1>1. /\ topups \in [Topups -> TopupRow \cup {NoRow}] /\ topups[t] = NoRow
      /\ topups' = [topups EXCEPT ![t] = new] /\ UNCHANGED <<claims, payouts>>
  BY DEF IInv, TypeOK, TablesTypeOK, CreateTopup
<1>2. new.status = "pending"
  OBVIOUS
<1> HIDE DEF new
<1>3. UNCHANGED <<DecidedTopups, DecidedClaims, DecidedPayouts>>
  BY <1>1, <1>2 DEF DecidedTopups, DecidedClaims, DecidedPayouts
<1> QED BY <1>3, DecidedByTable

LEMMA OthersDecideNothing ==
    ASSUME IInv, NEW h \in Handlers, Step(h), pc[h] \notin CommitStatements
    PROVE  Decided' = Decided
<1>1. CASE ~Commits(h)
  BY <1>1, StatementsRead, DecidedStays DEF tables
<1>2. CASE ProjectCommit(h) \/ ProjectDelete(h) \/ ProjectRestore(h)
  BY <1>2, DecidedStays DEF ProjectCommit, ProjectDelete, ProjectRestore, SetDeleted
<1>3. ~TopupCommit(h) /\ ~ClaimReject(h) /\ ~ClaimCommit(h) /\ ~PayoutCommit(h)
  BY DEF CommitStatements, TopupCommit, ClaimReject, ClaimCommit, PayoutCommit
<1> QED
  BY <1>1, <1>2, <1>3, ClaimCreateDecidesNothing, PayoutCreateDecidesNothing DEF Commits

-----------------------------------------------------------------------------
(* Where a statement leads: handlers work on their own requests, and a     *)
(* review stays one of the same row until it is answered.                  *)

OthersKept(h) == \A g \in Handlers \ {h} : pc'[g] = pc[g] /\ req'[g] = req[g]

SameReview(h) ==
    /\ req'[h] = req[h]
    /\ pc[h] \in TopupSteps => pc'[h] \in TopupSteps
    /\ pc[h] \in ReviewClaimSteps => pc'[h] \in ReviewClaimSteps
    /\ pc[h] \in ReviewPayoutSteps => pc'[h] \in ReviewPayoutSteps

LEMMA ReturnLeads ==
    ASSUME IInv, NEW h \in Handlers, Return(h)
    PROVE  OthersKept(h) /\ pc'[h] = "idle"
  BY DEF IInv, TypeOK, Return, OthersKept

LEMMA UpdateLeads ==
    ASSUME IInv, NEW h \in Handlers, NEW row, NEW where, NEW next,
           Update(h, row, where, next)
    PROVE  /\ OthersKept(h)
           /\ pc'[h] = "idle" \/ (pc'[h] = next /\ req'[h] = req[h])
<1>1. CASE Rollback(h)
  BY <1>1, ReturnLeads DEF Rollback
<1>2. CASE pc' = [pc EXCEPT ![h] = next] /\ UNCHANGED req
  BY <1>2 DEF IInv, TypeOK, OthersKept
<1> QED BY <1>1, <1>2 DEF Update

LEMMA StepLeads ==
    ASSUME IInv, NEW h \in Handlers, Step(h)
    PROVE  OthersKept(h) /\ (pc'[h] = "idle" \/ SameReview(h))
<1>0. pc \in [Handlers -> Steps \cup {"idle"}]
  BY DEF IInv, TypeOK
<1>1. CASE Return(h)
  BY <1>1, ReturnLeads
<1>2. CASE TopupUpdateStatus(h)
  <2> DEFINE next == IF req[h].status = "approved" THEN "TopupIncrementAvailable"
                                                   ELSE "TopupCommit"
             row == <<"budget_topups", req[h].topup>>
             where == TopupIsPending(req[h].topup)
  <2>1. pc[h] = "TopupUpdateStatus" /\ next \in TopupSteps /\ Update(h, row, where, next)
    BY <1>2 DEF TopupUpdateStatus
  <2> HIDE DEF next, row, where
  <2> QED BY <2>1, UpdateLeads DEF SameReview
<1>3. CASE TopupIncrementAvailable(h)
  BY <1>3, UpdateLeads DEF TopupIncrementAvailable, SameReview
<1>4. CASE LockEnvelope(h)
  BY <1>4, UpdateLeads DEF LockEnvelope, SameReview
<1>5. CASE DecrementEnvelope(h) \/ DecrementLocked(h) \/ CreditEmployee(h)
             \/ ClaimUpdateStatus(h)
  BY <1>5, UpdateLeads DEF DecrementEnvelope, DecrementLocked, CreditEmployee,
     ClaimUpdateStatus, SameReview
<1>6. CASE (ClaimExists(h) \/ ClaimFindProject(h)) /\ ~Return(h)
  BY <1>0, <1>6 DEF ClaimExists, ClaimFindProject, Rollback, SameReview, OthersKept
<1>7. CASE LockForPayout(h) \/ PayoutSettle(h) \/ PayoutUpdateReview(h)
  BY <1>7, UpdateLeads DEF LockForPayout, PayoutSettle, PayoutUpdateReview, SameReview
<1>8. Commits(h) => Return(h)
  BY DEF Commits, TopupCommit, ProjectCommit, ProjectDelete, ProjectRestore, SetDeleted,
     ClaimCreate, ClaimReject, ClaimCommit, PayoutCreateCommit, PayoutCommit, Rollback
<1> QED
  BY <1>1, <1>2, <1>3, <1>4, <1>5, <1>6, <1>7, <1>8
  DEF Step, TopupNext, ProjectNext, ClaimNext, PayoutNext, Commits

LEMMA RequestLeads ==
    ASSUME IInv, NEW h \in Handlers, Request(h)
    PROVE  OthersKept(h)
<1>1. \A request, next : Begin(h, request, next) => OthersKept(h)
  BY DEF IInv, TypeOK, Begin, OthersKept
<1> QED
  BY <1>1 DEF Request, ReviewTopup, CreateProject, DeleteProject, RestoreProject,
     CreateClaim, ReviewClaim, CreatePayout, ReviewPayout

-----------------------------------------------------------------------------
(* Each step of the API is a step of Idempotency. *)

KeyStep == [Keys!Next]_(Keys!vars)

LEMMA KeyStutter ==
    ASSUME UNCHANGED keyVars, Decided' = Decided
    PROVE  KeyStep
  BY DEF KeyStep, Keys!vars, keyVars

LEMMA LedgerKept ==
    ASSUME UNCHANGED vars
    PROVE  Decided' = Decided
  BY DecidedStays DEF vars, tables

LEMMA AskMaps ==
    ASSUME NEW h \in Handlers, Ask(h)
    PROVE  KeyStep
<1>1. PICK client \in Clients, id \in Reviewed : Keys!Receive(h, client, id)
  BY DEF Ask
<1> QED BY <1>1 DEF KeyStep, Keys!Next

LEMMA MiddlewareMaps ==
    ASSUME NEW h \in Handlers, Middleware(h)
    PROVE  KeyStep
  BY DEF Middleware, KeyStep, Keys!Next

(* The row was pending when the handler read it.                           *)
LEMMA StartMaps ==
    ASSUME ApiInv, NEW h \in Handlers, StartReview(h)
    PROVE  KeyStep
<1> DEFINE id == asked[h].row
<1>1. UNCHANGED tables
  BY DEF StartReview, ReviewTopup, ReviewClaim, ReviewPayout, Begin
<1>2. Decided' = Decided
  BY <1>1, DecidedStays DEF tables
<1>3. id \notin Decided
  <2>1. CASE id \in Topups /\ topups[id].status = "pending"
    BY <2>1 DEF Decided, Pending, RowOf
  <2>2. CASE id \in Claims /\ claims[id].status = "pending"
    BY <2>2, RowsAreDisjoint DEF Decided, Pending, RowOf
  <2>3. CASE id \in Payouts /\ payouts[id].status = "pending"
    BY <2>3, RowsAreDisjoint DEF Decided, Pending, RowOf
  <2> QED
    BY <2>1, <2>2, <2>3 DEF StartReview, ReviewTopup, ReviewClaim, ReviewPayout
<1>4. Keys!Check(h)
  BY <1>2, <1>3 DEF StartReview, Keys!Check, Keys!Goto
<1> QED BY <1>4 DEF KeyStep, Keys!Next

LEMMA RefuseMaps ==
    ASSUME ApiInv, NEW h \in Handlers, RefuseReview(h)
    PROVE  KeyStep
<1>1. Decided' = Decided /\ stage[h] = "Check"
  BY LedgerKept DEF RefuseReview
<1>2. CASE Respond(h, 404) \/ Respond(h, 500)
  <2>1. Keys!HandlerFails(h)
    BY <1>1, <1>2 DEF Respond, Keys!HandlerFails, Failures
  <2> QED BY <2>1 DEF KeyStep, Keys!Next
<1>3. CASE Exists(asked[h].row) /\ ~Pending(asked[h].row) /\ Respond(h, 409)
  <2>1. asked[h].row \in Reviewed
    BY <1>1 DEF ApiInv, Linked, Fits
  <2>2. asked[h].row \in Decided
    BY <1>3, <2>1 DEF Decided
  <2>3. Keys!Check(h)
    BY <1>1, <1>3, <2>2 DEF Respond, Keys!Check
  <2> QED BY <2>3 DEF KeyStep, Keys!Next
<1> QED BY <1>2, <1>3 DEF RefuseReview

LEMMA AbortMaps ==
    ASSUME NEW h \in Handlers, ReviewAborts(h)
    PROVE  KeyStep
<1>1. Decided' = Decided
  BY DecidedStays DEF ReviewAborts, Abort, Rollback, tables
<1>2. Keys!HandlerFails(h)
  BY <1>1 DEF ReviewAborts, Respond, Keys!HandlerFails, Failures
<1> QED BY <1>2 DEF KeyStep, Keys!Next

(* The row each commit decides, for any handler.                           *)
LEMMA CommitDecides ==
    ASSUME IInv, NEW h \in Handlers, Step(h), pc[h] \in CommitStatements
    PROVE  \E id \in Reviewed :
             /\ Decided' = Decided \cup {id} /\ Keys!StillDecidable(id)
             /\ pc[h] \in TopupSteps => id = req[h].topup
             /\ pc[h] \in ReviewClaimSteps => id = req[h].claim
             /\ pc[h] \in ReviewPayoutSteps => id = req[h].payout
<1>1. CASE TopupCommit(h)
  <2>1. pc[h] = "TopupCommit"
    BY <1>1 DEF TopupCommit
  <2> QED BY <1>1, <2>1, TopupDecides DEF Reviewed, Keys!StillDecidable
<1>2. CASE ClaimReject(h) \/ ClaimCommit(h)
  <2>1. pc[h] \in {"ClaimReject", "ClaimCommit"}
    BY <1>2 DEF ClaimReject, ClaimCommit
  <2> QED BY <1>2, <2>1, ClaimDecides, RowsAreDisjoint DEF Reviewed, Keys!StillDecidable
<1>3. CASE PayoutCommit(h)
  <2>1. pc[h] = "PayoutCommit"
    BY <1>3 DEF PayoutCommit
  <2> QED BY <1>3, <2>1, PayoutDecides, RowsAreDisjoint DEF Reviewed, Keys!StillDecidable
<1>4. TopupCommit(h) \/ ClaimReject(h) \/ ClaimCommit(h) \/ PayoutCommit(h)
  BY DEF CommitStatements, Step, TopupNext, ProjectNext, ClaimNext, PayoutNext,
     TopupUpdateStatus, TopupIncrementAvailable, LockEnvelope, ProjectCommit,
     ProjectDelete, ProjectRestore, ClaimExists, ClaimCreate, ClaimFindProject,
     DecrementEnvelope, DecrementLocked, CreditEmployee, ClaimUpdateStatus,
     LockForPayout, PayoutCreateCommit, PayoutSettle, PayoutUpdateReview
<1> QED BY <1>1, <1>2, <1>3, <1>4

LEMMA DirectMaps ==
    ASSUME IInv, NEW h \in Handlers, Direct(h) \/ DirectStep(h)
    PROVE  KeyStep
<1>1. CASE Direct(h)
  <2>1. Request(h) \/ Abort(h) => Decided' = Decided
    BY RequestsRead, DecidedStays DEF Abort, Rollback, tables
  <2>2. CreatesTopup => Decided' = Decided
    BY CreateTopupDecidesNothing DEF CreatesTopup
  <2>3. Decided' = Decided
    BY <1>1, <2>1, <2>2 DEF Direct
  <2> QED BY <1>1, <2>3, KeyStutter DEF Direct
<1>2. CASE DirectStep(h) /\ pc[h] \notin CommitStatements
  BY <1>2, OthersDecideNothing, KeyStutter DEF DirectStep
<1>3. CASE DirectStep(h) /\ pc[h] \in CommitStatements
  <2>1. PICK id \in Reviewed : Decided' = Decided \cup {id} /\ Keys!StillDecidable(id)
    BY <1>3, CommitDecides DEF DirectStep
  <2>2. Keys!Bypass(id)
    BY <1>3, <2>1 DEF DirectStep, keyVars, Keys!Bypass
  <2> QED BY <2>2 DEF KeyStep, Keys!Next
<1> QED BY <1>1, <1>2, <1>3

(* What a review with a key answers at its last statement, and what it     *)
(* decides there: the two agree unless the acknowledgement is lost.        *)
LEMMA ReviewMaps ==
    ASSUME ApiInv, NEW h \in Handlers, ReviewStep(h)
    PROVE  KeyStep
<1>1. /\ Step(h) /\ stage[h] = "Decide" /\ IInv /\ StagesFit /\ Linked(h)
      /\ asked[h].row \in Reviewed
  BY DEF ReviewStep, ApiInv, Linked, Fits
<1>2. CASE pc'[h] # "idle"
  <2>1. pc[h] \notin CommitStatements
    <3>1. SUFFICES ASSUME pc[h] \in CommitStatements  PROVE pc'[h] = "idle"
      BY <1>2
    <3>2. pc \in [Handlers -> Steps \cup {"idle"}]
      BY <1>1 DEF IInv, TypeOK
    <3> QED
      BY <1>1, <3>1, <3>2 DEF CommitStatements, Step, TopupNext, ProjectNext, ClaimNext,
         PayoutNext, TopupUpdateStatus, TopupIncrementAvailable, TopupCommit,
         LockEnvelope, ProjectCommit, ProjectDelete, ProjectRestore, ClaimExists,
         ClaimCreate, ClaimFindProject, ClaimReject, DecrementEnvelope,
         DecrementLocked, CreditEmployee, ClaimUpdateStatus, ClaimCommit,
         LockForPayout, PayoutCreateCommit, PayoutSettle, PayoutUpdateReview,
         PayoutCommit, Return
  <2> QED BY <1>1, <1>2, <2>1, OthersDecideNothing, KeyStutter DEF ReviewStep
<1>3. CASE pc'[h] = "idle" /\ pc[h] \in CommitStatements
  <2>1. PICK code \in {200, 500} : Respond(h, code)
    BY <1>3 DEF ReviewStep, Outcomes, CommitStatements
  <2>2. /\ Decided' = Decided \cup {asked[h].row}
        /\ Keys!StillDecidable(asked[h].row)
    BY <1>1, <1>3, CommitDecides DEF Linked
  <2>3. status'[h] = code
    BY <1>1, <2>1 DEF StagesFit, Respond, Keys!Respond
  <2>4. CASE code = 200
    <3>1. Keys!Decide(h)
      BY <1>1, <2>1, <2>2, <2>4 DEF Respond, Keys!Decide
    <3> QED BY <3>1 DEF KeyStep, Keys!Next
  <2>5. CASE code = 500
    <3>1. Keys!HandlerFails(h)
      BY <1>1, <2>1, <2>2, <2>3, <2>5 DEF Respond, Keys!HandlerFails, Failures
    <3> QED BY <3>1 DEF KeyStep, Keys!Next
  <2> QED BY <2>1, <2>4, <2>5
<1>4. CASE pc'[h] = "idle" /\ pc[h] \notin CommitStatements
  <2>1. Decided' = Decided
    BY <1>1, <1>4, OthersDecideNothing
  <2>2. CASE pc[h] = "TopupUpdateStatus"
    <3>1. Respond(h, 409)
      BY <1>4, <2>2 DEF ReviewStep, Outcomes, Refusal
    <3>2. asked[h].row \in Topups /\ topups[asked[h].row] # NoRow
      BY <1>1, <2>2 DEF IInv, TypeOK, RequestFits, TopupReviews, HandlerFits,
         TopupReviewFits, Linked
    <3>3. ~TopupIsPending(asked[h].row)
      <4>1. pc \in [Handlers -> Steps \cup {"idle"}] /\ asked[h].row = req[h].topup
        BY <1>1, <2>2 DEF IInv, TypeOK, Linked
      <4>2. TopupUpdateStatus(h)
        BY <1>1, <2>2 DEF Step, TopupNext, ProjectNext, ClaimNext,
           PayoutNext, TopupIncrementAvailable, TopupCommit,
           LockEnvelope, ProjectCommit, ProjectDelete, ProjectRestore, ClaimExists,
           ClaimCreate, ClaimFindProject, ClaimReject, DecrementEnvelope,
           DecrementLocked, CreditEmployee, ClaimUpdateStatus, ClaimCommit,
           LockForPayout, PayoutCreateCommit, PayoutSettle, PayoutUpdateReview,
           PayoutCommit
      <4> QED BY <1>4, <4>1, <4>2 DEF TopupUpdateStatus, Update
    <3>4. ~Keys!StillDecidable(asked[h].row)
      BY <1>1, <3>2, <3>3 DEF Keys!StillDecidable, Decided, Exists, Pending, RowOf,
         TopupIsPending
    <3>5. Keys!Decide(h)
      BY <1>1, <2>1, <3>1, <3>4 DEF Respond, Keys!Decide
    <3> QED BY <3>5 DEF KeyStep, Keys!Next
  <2>3. CASE pc[h] # "TopupUpdateStatus"
    <3>1. PICK code \in {403, 422, 500} : Respond(h, code)
      BY <1>4, <2>3 DEF ReviewStep, Outcomes, Refusal
    <3>2. Keys!HandlerFails(h)
      BY <1>1, <2>1, <3>1 DEF Respond, Keys!HandlerFails, Failures
    <3> QED BY <3>2 DEF KeyStep, Keys!Next
  <2> QED BY <2>2, <2>3
<1> QED BY <1>2, <1>3, <1>4

LEMMA CrashMaps ==
    ASSUME Crash
    PROVE  KeyStep
<1>1. Decided' = Decided
  BY DecidedStays DEF Crash, tables
<1> QED BY <1>1, KeyStutter DEF Crash, KeyStep, Keys!Next

LEMMA ApiNextMaps == ApiInv /\ [ApiNext]_apiVars => KeyStep
<1> SUFFICES ASSUME ApiInv, [ApiNext]_apiVars  PROVE KeyStep
  OBVIOUS
<1>1. IInv
  BY DEF ApiInv
<1>2. CASE UNCHANGED apiVars \/ Shutdown \/ Exit
  BY <1>2, LedgerKept, KeyStutter DEF apiVars, Shutdown, Exit
<1>3. CASE \E h \in Handlers : Ask(h) \/ Direct(h)
  BY <1>1, <1>3, AskMaps, DirectMaps
<1>4. CASE \E h \in Handlers : Serve(h)
  BY <1>1, <1>4, MiddlewareMaps, StartMaps, RefuseMaps, ReviewMaps, DirectMaps DEF Serve
<1>5. CASE \E h \in Handlers : ReviewAborts(h)
  BY <1>5, AbortMaps
<1> QED BY <1>2, <1>3, <1>4, <1>5, CrashMaps DEF ApiNext

-----------------------------------------------------------------------------
(* ApiInv is inductive. *)

(* The stages of the other handlers stay as well.                          *)
LEMMA LinksStay ==
    ASSUME ApiInv, NEW h \in Handlers, OthersKept(h), Linked(h)',
           \A g \in Handlers \ {h} : stage'[g] = stage[g] /\ asked'[g] = asked[g]
    PROVE  \A g \in Handlers : Linked(g)'
<1> SUFFICES ASSUME NEW g \in Handlers \ {h}  PROVE Linked(g)'
  OBVIOUS
<1> QED BY DEF ApiInv, Linked, OthersKept

LEMMA RespondLinks ==
    ASSUME ApiInv, NEW h \in Handlers, NEW code \in Keys!Statuses,
           Keys!Respond(h, code), OthersKept(h), stage[h] # "idle"
    PROVE  StagesFit' /\ \A g \in Handlers : Linked(g)'
<1>1. /\ stage' = [stage EXCEPT ![h] = "Save"] /\ UNCHANGED asked
      /\ status' = [status EXCEPT ![h] = code]
  BY DEF Keys!Respond, Keys!Goto
<1>2. StagesFit'
  BY <1>1 DEF ApiInv, StagesFit, Stages
<1>3. Linked(h)'
  BY <1>1 DEF ApiInv, StagesFit, Linked
<1> QED BY <1>1, <1>2, <1>3, LinksStay DEF ApiInv, StagesFit

LEMMA AskKeeps ==
    ASSUME ApiInv, NEW h \in Handlers, Ask(h)
    PROVE  ApiInv'
<1>1. IInv'
  BY StutterKeeps DEF Ask, ApiInv
<1>2. PICK client \in Clients, id \in Reviewed : Keys!Receive(h, client, id)
  BY DEF Ask
<1> DEFINE new == [key |-> Keys!KeyOf(client, id), row |-> id]
<1>3. /\ new \in Fits /\ stage' = [stage EXCEPT ![h] = "Lookup"]
      /\ asked' = [asked EXCEPT ![h] = new] /\ UNCHANGED status
  BY <1>2 DEF Keys!Receive, Keys!Goto, Keys!Keys, Keys!KeyOf, Fits
<1> HIDE DEF new
<1>4. StagesFit' /\ Linked(h)'
  BY <1>3 DEF ApiInv, StagesFit, Stages, Linked
<1>5. OthersKept(h)
  BY DEF Ask, vars, OthersKept
<1> QED BY <1>1, <1>3, <1>4, <1>5, LinksStay DEF ApiInv, StagesFit

LEMMA MiddlewareKeeps ==
    ASSUME ApiInv, NEW h \in Handlers, Middleware(h)
    PROVE  ApiInv'
<1>1. IInv' /\ OthersKept(h)
  BY StutterKeeps DEF Middleware, ApiInv, vars, OthersKept
<1>2. CASE Keys!Miss(h)
  <2>1. stage' = [stage EXCEPT ![h] = "Check"] /\ UNCHANGED <<asked, status>>
        /\ stage[h] = "Lookup"
    BY <1>2 DEF Keys!Miss, Keys!Goto
  <2>2. StagesFit' /\ Linked(h)'
    BY <2>1 DEF ApiInv, StagesFit, Stages, Linked
  <2> QED BY <1>1, <2>1, <2>2, LinksStay DEF ApiInv, StagesFit
<1>3. CASE Keys!Finish(h)
  <2>1. /\ stage' = [stage EXCEPT ![h] = "idle"] /\ asked' = [asked EXCEPT ![h] = NoRequest]
        /\ status' = [status EXCEPT ![h] = NoResponse]
    BY <1>3 DEF Keys!Finish, Keys!Goto
  <2>2. StagesFit' /\ Linked(h)'
    BY <2>1 DEF ApiInv, StagesFit, Stages, Linked
  <2> QED BY <1>1, <2>1, <2>2, LinksStay DEF ApiInv, StagesFit
<1> QED BY <1>2, <1>3 DEF Middleware, Keys!Replay, Keys!Save

LEMMA StartKeeps ==
    ASSUME ApiInv, NEW h \in Handlers, StartReview(h)
    PROVE  ApiInv'
<1> DEFINE id == asked[h].row
<1>0. /\ IInv /\ StagesFit /\ asked[h] \in Fits /\ pc \in [Handlers -> Steps \cup {"idle"}]
      /\ req \in [Handlers -> Requests \cup {NoRequest}]
      /\ asked[h].key[1][1] \in Callers
  <2>1. asked[h] \in Fits
    BY DEF ApiInv, Linked, StartReview
  <2> QED
    BY <2>1, ClientsAssumption DEF ApiInv, IInv, TypeOK, Fits, Keys!Keys
<1>1. Request(h)
  BY <1>0 DEF StartReview, Request
<1>2. IInv' /\ OthersKept(h)
  BY <1>0, <1>1, RequestKeeps, RequestLeads
<1>3. stage' = [stage EXCEPT ![h] = "Decide"] /\ UNCHANGED <<asked, status>>
  BY DEF StartReview
<1>4. StagesFit'
  BY <1>0, <1>3 DEF StagesFit, Stages
<1>5. \/ pc'[h] \in TopupSteps /\ req'[h].topup = id
      \/ pc'[h] \in ReviewClaimSteps /\ req'[h].claim = id
      \/ pc'[h] \in ReviewPayoutSteps /\ req'[h].payout = id
  BY <1>0 DEF StartReview, ReviewTopup, ReviewClaim, ReviewPayout, Begin
<1>6. Linked(h)'
  BY <1>0, <1>3, <1>5 DEF Linked, StagesFit
<1> QED BY <1>0, <1>2, <1>3, <1>4, <1>6, LinksStay DEF ApiInv, StagesFit

LEMMA RefuseKeeps ==
    ASSUME ApiInv, NEW h \in Handlers, RefuseReview(h)
    PROVE  ApiInv'
<1>1. IInv' /\ OthersKept(h)
  BY StutterKeeps DEF RefuseReview, ApiInv, vars, OthersKept
<1>2. PICK code \in {404, 409, 500} : Keys!Respond(h, code)
  BY DEF RefuseReview, Respond
<1>3. code \in Keys!Statuses /\ stage[h] # "idle"
  BY DEF Keys!Statuses, Failures, RefuseReview
<1> QED BY <1>1, <1>2, <1>3, RespondLinks DEF ApiInv

LEMMA ReviewKeeps ==
    ASSUME ApiInv, NEW h \in Handlers, ReviewStep(h) \/ ReviewAborts(h)
    PROVE  ApiInv'
<1>1. IInv /\ Linked(h) /\ StagesFit /\ stage[h] = "Decide"
  BY DEF ApiInv, ReviewStep, ReviewAborts
<1>2. IInv' /\ OthersKept(h) /\ (pc'[h] = "idle" \/ SameReview(h))
  <2>1. CASE Step(h)
    BY <1>1, <2>1, StepKeeps, StepLeads
  <2>2. CASE Abort(h)
    BY <1>1, <2>2, RollbackKeeps, ReturnLeads DEF Abort, Rollback
  <2> QED BY <2>1, <2>2 DEF ReviewStep, ReviewAborts
<1>3. CASE \E code \in Keys!Statuses : Keys!Respond(h, code)
  BY <1>1, <1>2, <1>3, RespondLinks DEF ApiInv
<1>4. CASE pc'[h] # "idle" /\ UNCHANGED keyVars
  <2>1. Linked(h)'
    BY <1>1, <1>2, <1>4 DEF Linked, SameReview, keyVars
  <2> QED BY <1>1, <1>2, <1>4, <2>1, LinksStay DEF ApiInv, StagesFit, keyVars
<1>5. \A code \in Outcomes(h) : code \in Keys!Statuses
  BY DEF Outcomes, Refusal, Keys!Statuses, Failures, CommitStatements
<1>6. 500 \in Keys!Statuses
  BY DEF Keys!Statuses, Failures
<1> QED BY <1>3, <1>4, <1>5, <1>6 DEF ReviewStep, ReviewAborts, Respond

LEMMA DirectKeeps ==
    ASSUME ApiInv, NEW h \in Handlers, Direct(h) \/ DirectStep(h)
    PROVE  ApiInv'
<1>1. IInv /\ stage[h] = "idle" /\ UNCHANGED <<stage, asked, status>>
  BY DEF ApiInv, Direct, DirectStep, keyVars
<1>2. IInv' /\ OthersKept(h)
  <2>1. CASE Request(h)
    BY <1>1, <2>1, RequestKeeps, RequestLeads
  <2>2. CASE CreatesTopup
    BY <1>1, <2>2, CreateTopupKeeps DEF CreatesTopup, CreateTopup, OthersKept
  <2>3. CASE Abort(h)
    BY <1>1, <2>3, RollbackKeeps, ReturnLeads DEF Abort, Rollback
  <2>4. CASE Step(h)
    BY <1>1, <2>4, StepKeeps, StepLeads
  <2> QED BY <2>1, <2>2, <2>3, <2>4 DEF Direct, DirectStep
<1>3. StagesFit' /\ Linked(h)'
  BY <1>1 DEF ApiInv, StagesFit, Linked
<1> QED BY <1>1, <1>2, <1>3, LinksStay DEF ApiInv

(* After a crash no handler holds a lock or works on a request.            *)
LEMMA CrashKeeps ==
    ASSUME ApiInv, Crash
    PROVE  ApiInv'
<1>1. /\ held' = [h \in Handlers |-> {}] /\ pc' = [h \in Handlers |-> "idle"]
      /\ req' = [h \in Handlers |-> NoRequest] /\ UNCHANGED tables
  BY DEF Crash
<1>2. TypeOK'
  BY <1>1 DEF ApiInv, IInv, TypeOK, TablesTypeOK, RequestFits, tables
<1>3. LockExclusion' /\ ClaimsHaveProjects' /\ FreshIdsDiffer'
  BY <1>1 DEF ApiInv, IInv, LockExclusion, ClaimsHaveProjects, FreshIdsDiffer, tables
<1>4. \A h \in Handlers : HandlerFits(h)'
  BY <1>1 DEF HandlerFits
<1>5. IInv'
  BY <1>2, <1>3, <1>4 DEF IInv
<1>6. CASE Keys!Crash
  <2>1. /\ stage' = [h \in Handlers |-> "idle"] /\ asked' = [h \in Handlers |-> NoRequest]
        /\ status' = [h \in Handlers |-> NoResponse]
    BY <1>6 DEF Keys!Crash
  <2> QED BY <1>5, <2>1 DEF ApiInv, StagesFit, Stages, Linked
<1>7. CASE UNCHANGED keyVars /\ \A h \in Handlers : stage[h] = "idle"
  BY <1>5, <1>7 DEF ApiInv, StagesFit, Linked, keyVars
<1> QED BY <1>6, <1>7 DEF Crash

LEMMA ApiNextKeeps == ApiInv /\ [ApiNext]_apiVars => ApiInv'
<1> SUFFICES ASSUME ApiInv, [ApiNext]_apiVars  PROVE ApiInv'
  OBVIOUS
<1>1. CASE UNCHANGED apiVars \/ Shutdown \/ Exit
  <2>1. UNCHANGED <<vars, keyVars>>
    BY <1>1 DEF apiVars, Shutdown, Exit
  <2> QED BY <2>1, StutterKeeps DEF ApiInv, StagesFit, Linked, keyVars, vars
<1>2. CASE \E h \in Handlers : Ask(h) \/ Direct(h)
  BY <1>2, AskKeeps, DirectKeeps
<1>3. CASE \E h \in Handlers : Serve(h)
  BY <1>3, MiddlewareKeeps, StartKeeps, RefuseKeeps, ReviewKeeps, DirectKeeps DEF Serve
<1>4. CASE \E h \in Handlers : ReviewAborts(h)
  BY <1>4, ReviewKeeps
<1> QED BY <1>1, <1>2, <1>3, <1>4, CrashKeeps DEF ApiNext

LEMMA ApiInitMaps == ApiInit => ApiInv /\ Keys!Init
<1> SUFFICES ASSUME ApiInit  PROVE ApiInv
  BY DEF ApiInit
<1>1. IInv
  BY InitIInv DEF ApiInit
<1> QED BY <1>1 DEF ApiInit, ApiInv, Keys!Init, StagesFit, Stages, Linked

-----------------------------------------------------------------------------
(* However many reviewers, keys, handlers, crashes and restarts there are: *)
(* reviews served with a key beside all other requests do to the tables    *)
(* and answer to their clients what Idempotency says.                      *)
THEOREM ReviewsImplementIdempotency == ApiSpec => ImplementsIdempotency
<1>1. ApiInv /\ [ApiNext]_apiVars => [Keys!Next]_(Keys!vars)
  BY ApiNextMaps DEF KeyStep
<1> QED
  BY <1>1, ApiInitMaps, ApiNextKeeps, PTL DEF ApiSpec, ImplementsIdempotency, Keys!Spec

(* The middleware, crashes and a drain that is cut short leave the         *)
(* ledger's transactions as they are: locks and conditions still fit, and  *)
(* no balance is ever negative.                                            *)
THEOREM ApiKeepsLedger == ApiSpec => []IInv
<1>1. ApiInv => IInv
  BY DEF ApiInv
<1> QED BY <1>1, ApiInitMaps, ApiNextKeeps, PTL DEF ApiSpec

-----------------------------------------------------------------------------
(* Each step of the API changes the tables as AtomicLedger does, or not at *)
(* all: a crash rolls back what no commit has published.                   *)
LEMMA ApiStepsAreAtomic == ApiInv /\ [ApiNext]_apiVars => [Atomic!Next]_(Atomic!books)
<1> SUFFICES ASSUME ApiInv, [ApiNext]_apiVars
             PROVE  [Atomic!Next]_(Atomic!books)
  OBVIOUS
<1>1. UNCHANGED tables => [Atomic!Next]_(Atomic!books)
  BY DEF tables, Atomic!books
<1>2. Next => [Atomic!Next]_(Atomic!books)
  BY StepsAreAtomic DEF ApiInv
<1>3. CASE UNCHANGED apiVars \/ Shutdown \/ Exit
  <2>1. UNCHANGED vars
    BY <1>3 DEF apiVars, Shutdown, Exit
  <2> QED BY <1>1, <2>1 DEF vars, tables
<1>4. ASSUME NEW h \in Handlers, Ask(h) \/ Middleware(h) \/ RefuseReview(h)
      PROVE  [Atomic!Next]_(Atomic!books)
  BY <1>1, <1>4 DEF Ask, Middleware, RefuseReview, vars, tables
<1>5. ASSUME NEW h \in Handlers, StartReview(h)
      PROVE  [Atomic!Next]_(Atomic!books)
  <2>1. UNCHANGED tables
    BY <1>5 DEF StartReview, ReviewTopup, ReviewClaim, ReviewPayout, Begin
  <2> QED BY <1>1, <2>1
<1>6. ASSUME NEW h \in Handlers, ReviewStep(h) \/ ReviewAborts(h) \/ Direct(h) \/ DirectStep(h)
      PROVE  [Atomic!Next]_(Atomic!books)
  <2>1. Next
    BY <1>6, Zenon DEF ReviewStep, ReviewAborts, Direct, DirectStep, CreatesTopup, Next
  <2> QED BY <1>2, <2>1
<1>7. CASE Crash
  BY <1>1, <1>7 DEF Crash
<1> QED BY <1>3, <1>4, <1>5, <1>6, <1>7 DEF ApiNext, Serve

(* A response lost, a review run twice and a process that dies between two *)
(* statements still leave every operation on money done or not done.       *)
THEOREM ApiIsAtomic == ApiSpec => ImplementsAtomic
<1>1. Init => Atomic!Init
  BY DEF Init, TablesInit, Atomic!Init
<1>2. ApiInit => Atomic!Init
  BY <1>1 DEF ApiInit
<1> QED
  BY <1>2, ApiStepsAreAtomic, ApiInitMaps, ApiNextKeeps, PTL
  DEF ApiSpec, ImplementsAtomic, Atomic!Spec

(* The accounts balance when the server crashes, is stopped and starts     *)
(* again, and when clients retry what was done already.                    *)
THEOREM ApiKeepsAccounts ==
    ApiSpec => [](BudgetAccounted /\ EnvelopesBacked /\ ReimbursementsBacked /\ LockedIsPending)
<1>1. ApiInv => IInv
  BY DEF ApiInv
<1>2. ApiInit => Accounts /\ LockedIsPending
  BY AccountsInit, LockedInit DEF ApiInit
<1>3. /\ ApiInv /\ ApiInv' /\ Accounts /\ LockedIsPending
      /\ [ApiNext]_apiVars
      => Accounts' /\ LockedIsPending'
  <2>1. ApiInv' => IInv'
    BY DEF ApiInv
  <2> QED BY <1>1, <2>1, ApiStepsAreAtomic, AccountsKept, LockedKept
<1>4. Accounts => BudgetAccounted /\ EnvelopesBacked /\ ReimbursementsBacked
  BY DEF Accounts
<1> QED
  BY <1>2, <1>3, <1>4, ApiInitMaps, ApiNextKeeps, PTL DEF ApiSpec

-----------------------------------------------------------------------------
(* What a key may replay. *)

(* A captured success is about to be saved under the key of a row that is  *)
(* decided, and saved successes are real.                                  *)
SuccessInv ==
    /\ DOMAIN idempotent_requests = Keys!Keys
    /\ \A h \in Handlers : stage[h] # "idle" => asked[h].key[2] = asked[h].row
    /\ \A h \in Handlers :
         status[h] = 200 => stage[h] = "Save" /\ asked[h].row \in Decided
    /\ Keys!SavedSuccessIsReal

LEMMA RespondKeepsSuccess ==
    ASSUME ApiInv, SuccessInv, NEW h \in Handlers, NEW code, Keys!Respond(h, code),
           Decided \subseteq Decided', stage[h] # "idle",
           code = 200 => asked[h].row \in Decided'
    PROVE  SuccessInv'
<1>1. /\ stage' = [stage EXCEPT ![h] = "Save"] /\ status' = [status EXCEPT ![h] = code]
      /\ UNCHANGED <<idempotent_requests, asked>>
  BY DEF Keys!Respond, Keys!Goto
<1> QED
  BY <1>1 DEF ApiInv, StagesFit, SuccessInv, Keys!SavedSuccessIsReal

LEMMA FinishKeepsSuccess ==
    ASSUME ApiInv, SuccessInv, NEW h \in Handlers, Keys!Finish(h), Decided' = Decided,
           DOMAIN idempotent_requests' = Keys!Keys, Keys!SavedSuccessIsReal'
    PROVE  SuccessInv'
<1>1. /\ stage' = [stage EXCEPT ![h] = "idle"] /\ asked' = [asked EXCEPT ![h] = NoRequest]
      /\ status' = [status EXCEPT ![h] = NoResponse] /\ NoResponse # 200
  BY NoResponseAssumption DEF Keys!Finish, Keys!Goto, Keys!Statuses
<1> QED
  BY <1>1 DEF ApiInv, StagesFit, SuccessInv

LEMMA KeyStepKeepsSuccess == ApiInv /\ SuccessInv /\ KeyStep => SuccessInv'
<1> SUFFICES ASSUME ApiInv, SuccessInv, KeyStep  PROVE SuccessInv'
  OBVIOUS
<1>1. ASSUME NEW h \in Handlers, NEW client \in Clients, NEW row \in Reviewed,
             Keys!Receive(h, client, row)
      PROVE  SuccessInv'
  <2> DEFINE new == [key |-> Keys!KeyOf(client, row), row |-> row]
  <2>1. /\ new.key[2] = new.row /\ stage' = [stage EXCEPT ![h] = "Lookup"]
        /\ asked' = [asked EXCEPT ![h] = new] /\ stage[h] = "idle"
        /\ UNCHANGED <<idempotent_requests, status>> /\ Decided' = Decided
    BY <1>1 DEF Keys!Receive, Keys!Goto, Keys!KeyOf
  <2> HIDE DEF new
  <2> QED
    BY <2>1 DEF ApiInv, StagesFit, SuccessInv, Keys!SavedSuccessIsReal
<1>2. ASSUME NEW h \in Handlers, Keys!Replay(h)  PROVE SuccessInv'
  <2>1. /\ Keys!Finish(h) /\ Decided' = Decided /\ Keys!SavedSuccessIsReal'
        /\ DOMAIN idempotent_requests' = Keys!Keys
    BY <1>2 DEF Keys!Replay, SuccessInv, Keys!SavedSuccessIsReal
  <2> QED BY <2>1, FinishKeepsSuccess
<1>3. ASSUME NEW h \in Handlers, NEW next \in {"Check", "Decide"},
             stage' = [stage EXCEPT ![h] = next], stage[h] \in {"Lookup", "Check"},
             UNCHANGED <<idempotent_requests, asked, status>>, Decided' = Decided
      PROVE  SuccessInv'
  BY <1>3 DEF ApiInv, StagesFit, SuccessInv, Keys!SavedSuccessIsReal
<1>4. ASSUME NEW h \in Handlers, Keys!Miss(h)  PROVE SuccessInv'
  BY <1>3, <1>4 DEF Keys!Miss, Keys!Goto
<1>5. ASSUME NEW h \in Handlers, Keys!Check(h)  PROVE SuccessInv'
  <2>1. CASE Keys!Respond(h, 409)
    BY <1>5, <2>1, RespondKeepsSuccess DEF Keys!Check
  <2> QED BY <1>3, <1>5, <2>1 DEF Keys!Check, Keys!Goto
<1>6. ASSUME NEW h \in Handlers, Keys!Decide(h)  PROVE SuccessInv'
  BY <1>6, RespondKeepsSuccess DEF Keys!Decide
<1>7. ASSUME NEW h \in Handlers, Keys!HandlerFails(h)  PROVE SuccessInv'
  <2>1. PICK code \in Failures : Keys!Respond(h, code)
    BY <1>7 DEF Keys!HandlerFails
  <2>2. code # 200 /\ Decided \subseteq Decided' /\ stage[h] # "idle"
    BY <1>7 DEF Keys!HandlerFails, Failures
  <2> QED BY <2>1, <2>2, RespondKeepsSuccess
<1>8. ASSUME NEW h \in Handlers, Keys!Save(h)  PROVE SuccessInv'
  <2>1. Keys!Finish(h) /\ Decided' = Decided /\ stage[h] = "Save"
    BY <1>8 DEF Keys!Save
  <2>2. /\ DOMAIN idempotent_requests' = Keys!Keys
        /\ \A k \in Keys!Keys :
             idempotent_requests'[k] = 200 /\ idempotent_requests[k] # 200
               => k = asked[h].key /\ status[h] = 200
    BY <1>8 DEF Keys!Save, Keys!Insert, SuccessInv
  <2>3. Keys!SavedSuccessIsReal'
    BY <2>1, <2>2 DEF SuccessInv, Keys!SavedSuccessIsReal
  <2> QED BY <2>1, <2>2, <2>3, FinishKeepsSuccess
<1>9. ASSUME NEW row \in Reviewed, Keys!Bypass(row)  PROVE SuccessInv'
  BY <1>9 DEF Keys!Bypass, SuccessInv, Keys!SavedSuccessIsReal
<1>10. CASE Keys!Crash
  BY <1>10, NoResponseAssumption
  DEF Keys!Crash, Keys!Statuses, SuccessInv, Keys!SavedSuccessIsReal
<1>11. CASE UNCHANGED Keys!vars
  BY <1>11 DEF Keys!vars, SuccessInv, Keys!SavedSuccessIsReal
<1> QED
  BY <1>1, <1>2, <1>4, <1>5, <1>6, <1>7, <1>8, <1>9, <1>10, <1>11 DEF KeyStep, Keys!Next

(* A key never replays 200 for a review that the tables do not show as     *)
(* decided: the response outlives crashes, restarts and lost commits only  *)
(* if the decision does.                                                   *)
THEOREM ReplayedSuccessIsDecided == ApiSpec => []Keys!SavedSuccessIsReal
<1>1. ApiInit => SuccessInv
  BY NoResponseAssumption
  DEF ApiInit, Keys!Init, Keys!Statuses, SuccessInv, Keys!SavedSuccessIsReal
<1>2. ApiInv /\ SuccessInv /\ [ApiNext]_apiVars => SuccessInv'
  BY ApiNextMaps, KeyStepKeepsSuccess
<1>3. SuccessInv => Keys!SavedSuccessIsReal
  BY DEF SuccessInv
<1> QED
  BY <1>1, <1>2, <1>3, ApiInitMaps, ApiNextKeeps, PTL DEF ApiSpec

-----------------------------------------------------------------------------
(* What an approval with a key has paid. *)

(* The keys of approvals that were answered 200: saved, or about to be.    *)
AnsweredKeys ==
    {k \in Keys!Keys :
       /\ k[1][2] /\ k[2] \in Claims
       /\ \/ idempotent_requests[k] = 200
          \/ \E h \in Handlers : stage[h] = "Save" /\ status[h] = 200 /\ asked[h].key = k}

PaidKeys(p) == {k \in AnsweredKeys : claims[k[2]].project = p}

(* SavedApprovalsArePaid for one project, about to be saved answers too.   *)
Paid(p) ==
    /\ PaidKeys(p) \subseteq PayingKeys(p)
    /\ Len(payments[p]) * projects[p].claim_amount = Spent(p)

PaymentsAdd(p) == IF projects[p] = NoRow THEN payments[p] = <<>> ELSE Paid(p)

(* The transaction does what the key was made for.                         *)
ApprovalLinked(h) ==
    stage[h] = "Decide" /\ pc[h] \in ReviewClaimSteps =>
      /\ asked[h].key[1][2] => req[h].status = "approved"
      /\ pc[h] = "ClaimReject" => req[h].status = "rejected"

PaymentsInv ==
    /\ payments \in [Projects -> Seq(Keys!Keys \cup {NoRequest})]
    /\ \A h \in Handlers : ApprovalLinked(h)
    /\ \A p \in Projects : PaymentsAdd(p)

OthersAsk(h) ==
    \A g \in Handlers \ {h} :
      stage'[g] = stage[g] /\ asked'[g] = asked[g] /\ status'[g] = status[g]

LEMMA LinkedApprovalsStay ==
    ASSUME PaymentsInv, NEW h \in Handlers, OthersKept(h), OthersAsk(h), ApprovalLinked(h)'
    PROVE  \A g \in Handlers : ApprovalLinked(g)'
<1> SUFFICES ASSUME NEW g \in Handlers \ {h}  PROVE ApprovalLinked(g)'
  OBVIOUS
<1> QED BY DEF PaymentsInv, ApprovalLinked, OthersKept, OthersAsk

LEMMA AnsweredClaimsExist ==
    ASSUME SuccessInv, NEW k \in AnsweredKeys
    PROVE  k[2] \in Claims /\ claims[k[2]] # NoRow
<1>1. k \in Keys!Keys /\ k[2] \in Claims
  BY DEF AnsweredKeys
<1>2. k[2] \in Decided
  BY DEF AnsweredKeys, SuccessInv, Keys!SavedSuccessIsReal
<1> QED
  BY <1>1, <1>2, DecidedByTable, RowsAreDisjoint DEF DecidedTopups, DecidedClaims,
     DecidedPayouts

-----------------------------------------------------------------------------
(* What a step does to the tables, and what to the keys. *)

ClaimsKept ==
    \A c \in Claims : claims[c] # NoRow => claims'[c].project = claims[c].project

MoneyKept ==
    \A p \in Projects : /\ projects'[p] # NoRow => KeepsMoney(p) \/ StartsUnspent(p)
                        /\ projects[p] # NoRow => projects'[p] # NoRow

(* No statement removes a project: a deleted one keeps its row.            *)
LEMMA ProjectsRemain ==
    ASSUME IInv, NEW h \in Handlers, Commits(h), NEW p \in Projects, projects[p] # NoRow
    PROVE  projects'[p] # NoRow
<1>0. /\ projects \in [Projects -> ProjectRow \cup {NoRow}]
      /\ projects[p] \in ProjectRow
  BY DEF IInv, TypeOK, TablesTypeOK
<1>1. CASE ProjectCommit(h)
  <2>1. projects[req[h].project] = NoRow /\ req[h].project \in Projects
    BY <1>1 DEF ProjectCommit, IInv, TypeOK, RequestFits, ProjectCreations, HandlerFits,
       ProjectCreationFits
  <2> QED BY <1>0, <1>1, <2>1 DEF ProjectCommit
<1>2. CASE ProjectDelete(h) \/ ProjectRestore(h)
  <2>1. PICK deleted \in BOOLEAN :
          \/ projects' = [projects EXCEPT ![req[h].project].deleted = deleted]
          \/ projects' = projects
    BY <1>2 DEF ProjectDelete, ProjectRestore, SetDeleted, Rollback, tables
  <2>2. projects'[p] = projects[p] \/ projects'[p] = [projects[p] EXCEPT !.deleted = deleted]
    BY <1>0, <2>1
  <2>3. projects'[p] \in ProjectRow
    BY <1>0, <2>2 DEF ProjectRow
  <2> QED BY <2>3, NoRowAssumption
<1>3. CASE ClaimCommit(h)
  BY <1>3, ApprovalPays DEF Pays
<1>4. CASE UNCHANGED projects
  BY <1>4
<1> QED
  BY <1>1, <1>2, <1>3, <1>4 DEF Commits, TopupCommit, ClaimCreate, ClaimReject,
     PayoutCreateCommit, PayoutCommit, Rollback, tables

LEMMA NothingPaid ==
    UNCHANGED <<projects, claims>> => ClaimsKept /\ MoneyKept
<1> SUFFICES ASSUME UNCHANGED <<projects, claims>>  PROVE ClaimsKept /\ MoneyKept
  OBVIOUS
<1>1. ClaimsKept
  BY DEF ClaimsKept
<1>2. \A p \in Projects : projects[p] # NoRow => KeepsMoney(p)
  BY DEF KeepsMoney, Spent, EnvelopeTotal, EnvelopeRemaining
<1>3. MoneyKept
  BY <1>2 DEF MoneyKept
<1> QED BY <1>1, <1>3

LEMMA StepPays ==
    ASSUME IInv, NEW h \in Handlers, Step(h), ~ClaimCommit(h)
    PROVE  ClaimsKept /\ MoneyKept
<1>1. CASE Commits(h)
  BY <1>1, ClaimsStay, MoneyStays, ProjectsRemain DEF ClaimsKept, MoneyKept
<1>2. CASE ~Commits(h)
  BY <1>2, StatementsRead, NothingPaid DEF tables
<1> QED BY <1>1, <1>2

(* No new answer, no new payment.                                          *)
LEMMA PaymentsStay ==
    ASSUME ApiInv, SuccessInv, PaymentsInv, ClaimsKept, MoneyKept, UNCHANGED payments,
           AnsweredKeys' \subseteq AnsweredKeys, NEW p \in Projects
    PROVE  PaymentsAdd(p)'
<1>1. PaidKeys(p)' \subseteq PaidKeys(p) /\ PayingKeys(p)' = PayingKeys(p)
  BY AnsweredClaimsExist DEF PaidKeys, ClaimsKept, PayingKeys
<1>2. CASE KeepsMoney(p)
  BY <1>1, <1>2 DEF KeepsMoney, MoneyKept, PaymentsInv, PaymentsAdd, Paid
<1>3. CASE StartsUnspent(p) /\ projects'[p] # NoRow
  <2>1. PaidKeys(p) = {} /\ payments'[p] = <<>>
    BY <1>3, AnsweredClaimsExist
    DEF StartsUnspent, ApiInv, IInv, ClaimsHaveProjects, PaidKeys, PaymentsInv, PaymentsAdd
  <2>2. Len(payments'[p]) * projects'[p].claim_amount = 0
    BY <1>3, <2>1 DEF StartsUnspent
  <2> QED BY <1>1, <1>3, <2>1, <2>2 DEF StartsUnspent, PaymentsAdd, Paid
<1>4. CASE projects'[p] = NoRow
  BY <1>4 DEF MoneyKept, PaymentsInv, PaymentsAdd
<1> QED BY <1>2, <1>3, <1>4 DEF MoneyKept

(* The answer of an approval comes with its payment.                       *)
LEMMA PaymentAdded ==
    ASSUME ApiInv, PaymentsInv, NEW c \in Claims, NEW q \in Projects, Pays(c, q),
           NEW key \in Keys!Keys \cup {NoRequest},
           payments' = [payments EXCEPT ![q] = Append(@, key)],
           \A k \in AnsweredKeys' : k \in AnsweredKeys \/ (k = key /\ k[2] = c)
    PROVE  /\ payments' \in [Projects -> Seq(Keys!Keys \cup {NoRequest})]
           /\ \A p \in Projects : PaymentsAdd(p)'
<1>0. claims \in [Claims -> ClaimRow \cup {NoRow}]
  BY DEF ApiInv, IInv, TypeOK, TablesTypeOK
<1>1. \A d \in Claims : claims'[d].project = claims[d].project
  BY <1>0 DEF Pays
<1>2. payments' \in [Projects -> Seq(Keys!Keys \cup {NoRequest})]
  BY DEF PaymentsInv
<1>3. \A k \in AnsweredKeys : k[2] \in Claims
  BY DEF AnsweredKeys
<1>4. ASSUME NEW p \in Projects, p # q  PROVE PaymentsAdd(p)'
  <2>1. PaidKeys(p)' \subseteq PaidKeys(p)
    BY <1>1, <1>3, <1>4 DEF PaidKeys, Pays
  <2>2. projects'[p] = projects[p] /\ payments'[p] = payments[p]
    BY <1>4 DEF Pays, PaymentsInv
  <2>3. PayingKeys(p)' = PayingKeys(p) /\ Spent(p)' = Spent(p)
    BY <2>2 DEF PayingKeys, Spent, EnvelopeTotal, EnvelopeRemaining
  <2> QED BY <2>1, <2>2, <2>3 DEF PaymentsInv, PaymentsAdd, Paid
<1>5. PaymentsAdd(q)'
  <2> DEFINE paid == payments[q]
             amount == projects[q].claim_amount
  <2>1. /\ projects[q] \in ProjectRow /\ projects[q] # NoRow /\ Paid(q)
        /\ paid \in Seq(Keys!Keys \cup {NoRequest})
        /\ payments'[q] = Append(paid, key)
    BY NoRowAssumption DEF Pays, PaymentsInv, PaymentsAdd
  <2>2. amount \in Nat /\ Spent(q) \in Int
    BY <2>1, AmountsFit
  <2>3. /\ Len(payments'[q]) = Len(paid) + 1 /\ Len(paid) \in Nat
        /\ payments'[q][Len(paid) + 1] = key
        /\ \A i \in 1..Len(paid) : payments'[q][i] = paid[i]
    BY <2>1
  <2>4. PayingKeys(q) \cup {key} \subseteq PayingKeys(q)'
    BY <2>3 DEF PayingKeys
  <2>5. PaidKeys(q)' \subseteq PaidKeys(q) \cup {key}
    BY <1>1, <1>3 DEF PaidKeys
  <2>6. (Len(paid) + 1) * amount = Len(paid) * amount + amount
    BY <2>2, <2>3
  <2>7. Len(paid) * amount = Spent(q)
    BY <2>1 DEF Paid
  <2> QED
    BY <2>1, <2>3, <2>4, <2>5, <2>6, <2>7 DEF Pays, PaymentsAdd, Paid
<1> QED BY <1>2, <1>4, <1>5

LEMMA RespondAnswers ==
    ASSUME StagesFit, NEW h \in Handlers, NEW code, Keys!Respond(h, code)
    PROVE  /\ OthersAsk(h) /\ stage'[h] = "Save"
           /\ \A k \in AnsweredKeys' :
                \/ k \in AnsweredKeys
                \/ code = 200 /\ k = asked[h].key /\ k[1][2] /\ k[2] \in Claims
<1>1. /\ stage' = [stage EXCEPT ![h] = "Save"] /\ status' = [status EXCEPT ![h] = code]
      /\ UNCHANGED <<idempotent_requests, asked>>
  BY DEF Keys!Respond, Keys!Goto
<1> QED BY <1>1 DEF StagesFit, OthersAsk, AnsweredKeys

(* A step of a handler that answers no approval.                           *)
Quiet(h) ==
    /\ OthersKept(h) /\ OthersAsk(h)
    /\ ApprovalLinked(h)'
    /\ AnsweredKeys' \subseteq AnsweredKeys

LEMMA MiddlewareIsQuiet ==
    ASSUME ApiInv, SuccessInv, NEW h \in Handlers, Ask(h) \/ Middleware(h)
    PROVE  Quiet(h)
<1>1. OthersKept(h)
  BY DEF Ask, Middleware, vars, OthersKept
<1>2. ASSUME NEW next \in {"Lookup", "Check"}, stage' = [stage EXCEPT ![h] = next],
             UNCHANGED <<idempotent_requests, status>>,
             \A g \in Handlers \ {h} : asked'[g] = asked[g]
      PROVE  Quiet(h)
  BY <1>1, <1>2 DEF ApiInv, StagesFit, Quiet, OthersAsk, ApprovalLinked, AnsweredKeys
<1>3. CASE Ask(h)
  <2>1. PICK client \in Clients, id \in Reviewed : Keys!Receive(h, client, id)
    BY <1>3 DEF Ask
  <2> QED BY <1>2, <2>1 DEF Keys!Receive, Keys!Goto, ApiInv, StagesFit
<1>4. CASE Keys!Miss(h)
  BY <1>2, <1>4 DEF Keys!Miss, Keys!Goto
<1>5. CASE Keys!Replay(h) \/ Keys!Save(h)
  <2>1. /\ stage' = [stage EXCEPT ![h] = "idle"] /\ asked' = [asked EXCEPT ![h] = NoRequest]
        /\ status' = [status EXCEPT ![h] = NoResponse]
    BY <1>5 DEF Keys!Replay, Keys!Save, Keys!Finish, Keys!Goto
  <2>2. OthersAsk(h) /\ ApprovalLinked(h)'
    BY <2>1 DEF ApiInv, StagesFit, OthersAsk, ApprovalLinked
  <2>3. \A k \in Keys!Keys : idempotent_requests'[k] = 200 =>
          \/ idempotent_requests[k] = 200
          \/ stage[h] = "Save" /\ status[h] = 200 /\ asked[h].key = k
    BY <1>5 DEF Keys!Replay, Keys!Save, Keys!Insert, SuccessInv
  <2>4. AnsweredKeys' \subseteq AnsweredKeys
    BY <2>1, <2>3 DEF ApiInv, StagesFit, AnsweredKeys
  <2> QED BY <1>1, <2>2, <2>4 DEF Quiet
<1> QED BY <1>3, <1>4, <1>5 DEF Middleware

LEMMA OthersAreQuiet ==
    ASSUME ApiInv, NEW h \in Handlers, stage[h] = "idle", OthersKept(h), UNCHANGED keyVars
    PROVE  Quiet(h)
BY DEF keyVars, Quiet, OthersAsk, ApprovalLinked, AnsweredKeys

LEMMA StartIsQuiet ==
    ASSUME ApiInv, NEW h \in Handlers, StartReview(h)
    PROVE  Quiet(h) /\ UNCHANGED tables
<1>0. /\ IInv /\ StagesFit /\ pc \in [Handlers -> Steps \cup {"idle"}]
      /\ req \in [Handlers -> Requests \cup {NoRequest}]
  BY DEF ApiInv, IInv, TypeOK
<1>1. UNCHANGED tables
  BY DEF StartReview, ReviewTopup, ReviewClaim, ReviewPayout, Begin
<1>2. OthersKept(h)
  BY <1>0 DEF StartReview, ReviewTopup, ReviewClaim, ReviewPayout, Begin, OthersKept
<1>3. /\ stage' = [stage EXCEPT ![h] = "Decide"]
      /\ UNCHANGED <<idempotent_requests, asked, status>> /\ stage[h] = "Check"
  BY DEF StartReview
<1>4. OthersAsk(h) /\ AnsweredKeys' \subseteq AnsweredKeys
  BY <1>0, <1>3 DEF StagesFit, OthersAsk, AnsweredKeys
<1>5. pc'[h] \in ReviewClaimSteps => pc'[h] = "ClaimFindProject"
  BY <1>0 DEF StartReview, ReviewTopup, ReviewClaim, ReviewPayout, Begin
<1>6. pc'[h] = "ClaimFindProject" /\ asked[h].key[1][2] => req'[h].status = "approved"
  BY <1>0 DEF StartReview, ReviewTopup, ReviewClaim, ReviewPayout, Begin
<1>7. ApprovalLinked(h)'
  BY <1>3, <1>5, <1>6 DEF ApprovalLinked
<1> QED BY <1>1, <1>2, <1>4, <1>7 DEF Quiet

(* Only the check of the request's status leads to a rejection.            *)
LEMMA RejectLeads ==
    ASSUME IInv, NEW h \in Handlers, Step(h), pc'[h] = "ClaimReject"
    PROVE  req[h].status = "rejected"
<1>0. pc \in [Handlers -> Steps \cup {"idle"}]
  BY DEF IInv, TypeOK
<1>1. ~Return(h)
  BY <1>0 DEF Return
<1>2. ~Rollback(h)
  BY <1>1 DEF Rollback
<1>3. ClaimFindProject(h)
  BY <1>0, <1>1, <1>2 DEF Step, TopupNext, ProjectNext, ClaimNext, PayoutNext,
     TopupUpdateStatus, TopupIncrementAvailable, TopupCommit, LockEnvelope, ProjectCommit,
     ProjectDelete, ProjectRestore, SetDeleted, ClaimExists, ClaimCreate, ClaimReject,
     DecrementEnvelope, DecrementLocked, CreditEmployee, ClaimUpdateStatus, ClaimCommit,
     LockForPayout, PayoutCreateCommit, PayoutSettle, PayoutUpdateReview, PayoutCommit,
     Update
<1> QED BY <1>0, <1>2, <1>3 DEF ClaimFindProject

(* Only the commit of an approval answers an approval's key with 200: the  *)
(* other commits work on other tables, or on a rejection.                  *)
LEMMA OnlyApprovalsAnswer ==
    ASSUME ApiInv, SuccessInv, PaymentsInv, NEW h \in Handlers, stage[h] = "Decide",
           asked[h].key[1][2], asked[h].key[2] \in Claims, pc[h] \in CommitStatements
    PROVE  pc[h] = "ClaimCommit"
<1>1. asked[h].row \in Claims /\ Linked(h) /\ RequestFits(h) /\ HandlerFits(h)
  BY DEF ApiInv, SuccessInv, IInv, TypeOK
<1>2. pc[h] # "TopupCommit" /\ pc[h] # "PayoutCommit"
  BY <1>1, RowsAreDisjoint DEF Linked, RequestFits, TopupReviews, PayoutReviews
<1>3. pc[h] # "ClaimReject"
  BY DEF PaymentsInv, ApprovalLinked
<1> QED BY <1>2, <1>3 DEF CommitStatements

LEMMA QuietPays ==
    ASSUME ApiInv, SuccessInv, PaymentsInv, NEW h \in Handlers, Quiet(h),
           ClaimsKept, MoneyKept, UNCHANGED payments
    PROVE  PaymentsInv'
<1>1. \A g \in Handlers : ApprovalLinked(g)'
  BY LinkedApprovalsStay DEF Quiet
<1>2. \A p \in Projects : PaymentsAdd(p)'
  BY PaymentsStay DEF Quiet
<1> QED BY <1>1, <1>2 DEF PaymentsInv

LEMMA CommitOfClaim ==
    ASSUME ApiInv, NEW h \in Handlers, Step(h)
    PROVE  ClaimCommit(h) <=> pc[h] = "ClaimCommit"
<1>1. ClaimCommit(h) => pc[h] = "ClaimCommit"
  BY DEF ClaimCommit
<1>2. TopupNext(h) \/ ProjectNext(h) => pc[h] # "ClaimCommit"
  BY DEF TopupNext, ProjectNext, TopupUpdateStatus, TopupIncrementAvailable, TopupCommit,
     LockEnvelope, ProjectCommit, ProjectDelete, ProjectRestore
<1>3. ClaimNext(h) => ClaimCommit(h) \/ pc[h] # "ClaimCommit"
  BY DEF ClaimNext, ClaimExists, ClaimCreate, ClaimFindProject, ClaimReject,
     DecrementEnvelope, DecrementLocked, CreditEmployee, ClaimUpdateStatus
<1>4. PayoutNext(h) => pc[h] # "ClaimCommit"
  BY DEF PayoutNext, LockForPayout, PayoutCreateCommit, PayoutSettle, PayoutUpdateReview,
     PayoutCommit
<1> QED BY <1>1, <1>2, <1>3, <1>4 DEF Step

(* How a statement of a review with a key ends, and what it answers.       *)
LEMMA ReviewEnds ==
    ASSUME ApiInv, SuccessInv, PaymentsInv, NEW h \in Handlers, ReviewStep(h), pc'[h] = "idle"
    PROVE  /\ \A g \in Handlers : ApprovalLinked(g)'
           /\ OthersAsk(h)
           /\ \A k \in AnsweredKeys' :
                k \in AnsweredKeys \/ (pc[h] = "ClaimCommit" /\ k = asked[h].key)
<1>1. /\ Step(h) /\ stage[h] = "Decide" /\ IInv /\ StagesFit /\ OthersKept(h)
  BY StepLeads DEF ReviewStep, ApiInv
<1>2. PICK code \in Outcomes(h) : Keys!Respond(h, code)
  BY DEF ReviewStep, Respond
<1>3. /\ OthersAsk(h) /\ stage'[h] = "Save"
      /\ \A k \in AnsweredKeys' :
           \/ k \in AnsweredKeys
           \/ code = 200 /\ k = asked[h].key /\ k[1][2] /\ k[2] \in Claims
  BY <1>1, <1>2, RespondAnswers
<1>4. code = 200 => pc[h] \in CommitStatements
  BY <1>2 DEF Outcomes, Refusal
<1>5. ApprovalLinked(h)'
  BY <1>3 DEF ApprovalLinked
<1> QED
  BY <1>1, <1>3, <1>4, <1>5, LinkedApprovalsStay, OnlyApprovalsAnswer

LEMMA ReviewPays ==
    ASSUME ApiInv, SuccessInv, PaymentsInv, NEW h \in Handlers, ReviewStep(h),
           pc[h] # "ClaimCommit", UNCHANGED payments
    PROVE  PaymentsInv'
<1>1. /\ Step(h) /\ stage[h] = "Decide" /\ IInv /\ StagesFit /\ Linked(h)
      /\ OthersKept(h) /\ (pc'[h] = "idle" \/ SameReview(h))
  BY StepLeads DEF ReviewStep, ApiInv
<1>2. ClaimsKept /\ MoneyKept
  BY <1>1, CommitOfClaim, StepPays
<1>3. CASE pc'[h] # "idle"
  <2>1. UNCHANGED keyVars /\ SameReview(h)
    BY <1>1, <1>3 DEF ReviewStep
  <2>2. OthersAsk(h) /\ AnsweredKeys' = AnsweredKeys
    BY <2>1 DEF keyVars, OthersAsk, AnsweredKeys
  <2>3. ApprovalLinked(h)'
    <3>1. pc'[h] \in ReviewClaimSteps => pc[h] \in ReviewClaimSteps
      BY <1>1, <2>1 DEF Linked, SameReview
    <3>2. pc'[h] = "ClaimReject" => req[h].status = "rejected"
      BY <1>1, RejectLeads
    <3> QED BY <1>1, <2>1, <3>1, <3>2 DEF PaymentsInv, ApprovalLinked, SameReview, keyVars
  <2>4. Quiet(h)
    BY <1>1, <2>2, <2>3 DEF Quiet
  <2> QED BY <1>2, <2>4, QuietPays
<1>4. CASE pc'[h] = "idle"
  <2>1. /\ \A g \in Handlers : ApprovalLinked(g)'
        /\ AnsweredKeys' \subseteq AnsweredKeys /\ OthersAsk(h)
    BY <1>4, ReviewEnds
  <2>2. Quiet(h)
    BY <1>1, <2>1 DEF Quiet
  <2> QED BY <1>2, <2>2, QuietPays
<1> QED BY <1>3, <1>4

(* Requests without a key answer none; only their approvals pay.           *)
LEMMA DirectPays ==
    ASSUME ApiInv, SuccessInv, PaymentsInv, NEW h \in Handlers, UNCHANGED payments,
           Direct(h) \/ (DirectStep(h) /\ pc[h] # "ClaimCommit")
    PROVE  PaymentsInv'
<1>1. IInv /\ stage[h] = "idle" /\ UNCHANGED keyVars
  BY DEF ApiInv, Direct, DirectStep
<1>2. CASE Direct(h)
  <2>1. OthersKept(h) /\ UNCHANGED <<projects, claims>>
    <3>1. CASE Request(h)
      BY <1>1, <3>1, RequestLeads, RequestsRead DEF tables
    <3>2. CASE CreatesTopup
      BY <3>2 DEF CreatesTopup, CreateTopup, OthersKept
    <3>3. CASE Abort(h)
      BY <1>1, <3>3, ReturnLeads DEF Abort, Rollback, tables
    <3> QED BY <1>2, <3>1, <3>2, <3>3 DEF Direct
  <2> QED BY <1>1, <2>1, OthersAreQuiet, NothingPaid, QuietPays
<1>3. CASE DirectStep(h) /\ pc[h] # "ClaimCommit"
  <2>1. Step(h) /\ OthersKept(h)
    BY <1>1, <1>3, StepLeads DEF DirectStep
  <2>2. Quiet(h)
    BY <1>1, <2>1, OthersAreQuiet
  <2> QED BY <1>1, <1>3, <2>1, <2>2, CommitOfClaim, StepPays, QuietPays
<1> QED BY <1>2, <1>3

(* The commit of an approval pays once, under the key it came with.        *)
LEMMA PayPays ==
    ASSUME ApiInv, SuccessInv, PaymentsInv, NEW h \in Handlers, Pay(h)
    PROVE  PaymentsInv'
<1>1. /\ Step(h) /\ IInv /\ StagesFit /\ OthersKept(h) /\ ClaimCommit(h)
      /\ pc[h] = "ClaimCommit"
  BY StepLeads, CommitOfClaim DEF Pay, ReviewStep, DirectStep, ApiInv
<1>2. pc'[h] = "idle"
  BY <1>1 DEF ClaimCommit, Return, IInv, TypeOK
<1>3. PICK c \in Claims, q \in Projects : c = req[h].claim /\ Pays(c, q)
  BY <1>1, ApprovalPays
<1>4. payments' = [payments EXCEPT ![q] = Append(@, PaidUnder(h))]
  BY <1>3 DEF Pay, Pays, ProjectOf
<1>5. CASE ReviewStep(h)
  <2>1. stage[h] = "Decide" /\ Linked(h) /\ asked[h] \in Fits
    BY <1>5 DEF ReviewStep, ApiInv, Linked
  <2>2. PICK key \in Keys!Keys : key = asked[h].key /\ key = PaidUnder(h) /\ key[2] = c
    BY <1>1, <1>3, <2>1 DEF PaidUnder, Fits, SuccessInv, Linked
  <2>3. /\ \A g \in Handlers : ApprovalLinked(g)'
        /\ \A k \in AnsweredKeys' : k \in AnsweredKeys \/ (k = key /\ k[2] = c)
    BY <1>2, <1>5, <2>2, ReviewEnds
  <2>4. payments' = [payments EXCEPT ![q] = Append(@, key)]
    BY <1>4, <2>2
  <2>5. /\ Pays(c, q) /\ key \in Keys!Keys \cup {NoRequest}
        /\ \A k \in AnsweredKeys' : k \in AnsweredKeys \/ (k = key /\ k[2] = c)
    BY <1>3, <2>3
  <2>6. /\ payments' \in [Projects -> Seq(Keys!Keys \cup {NoRequest})]
        /\ \A p \in Projects : PaymentsAdd(p)'
    BY <2>4, <2>5, PaymentAdded
  <2> QED BY <2>3, <2>6 DEF PaymentsInv
<1>6. CASE DirectStep(h)
  <2>1. stage[h] = "idle" /\ UNCHANGED keyVars
    BY <1>6 DEF DirectStep
  <2>2. Quiet(h) /\ PaidUnder(h) = NoRequest
    BY <1>1, <2>1, OthersAreQuiet DEF PaidUnder
  <2>3. \A g \in Handlers : ApprovalLinked(g)'
    BY <2>2, LinkedApprovalsStay DEF Quiet
  <2>4. \A k \in AnsweredKeys' : k \in AnsweredKeys
    BY <2>2 DEF Quiet
  <2>5. payments' = [payments EXCEPT ![q] = Append(@, NoRequest)]
    BY <1>4, <2>2
  <2>6. /\ payments' \in [Projects -> Seq(Keys!Keys \cup {NoRequest})]
        /\ \A p \in Projects : PaymentsAdd(p)'
    BY <1>3, <2>4, <2>5, PaymentAdded
  <2> QED BY <2>3, <2>6 DEF PaymentsInv
<1> QED BY <1>5, <1>6 DEF Pay

(* A refusal, a rollback and a crash answer no approval with 200.          *)
LEMMA RefusalPays ==
    ASSUME ApiInv, SuccessInv, PaymentsInv, NEW h \in Handlers,
           RefuseReview(h) \/ ReviewAborts(h), UNCHANGED payments
    PROVE  PaymentsInv'
<1>1. IInv /\ StagesFit
  BY DEF ApiInv
<1>2. OthersKept(h) /\ UNCHANGED <<projects, claims>>
  BY <1>1, ReturnLeads
  DEF RefuseReview, ReviewAborts, Abort, Rollback, vars, tables, OthersKept
<1>3. PICK code \in {404, 409, 500} : Keys!Respond(h, code)
  BY DEF RefuseReview, ReviewAborts, Respond
<1>4. OthersAsk(h) /\ stage'[h] = "Save" /\ AnsweredKeys' \subseteq AnsweredKeys
  BY <1>1, <1>3, RespondAnswers
<1>5. Quiet(h)
  BY <1>2, <1>4 DEF Quiet, ApprovalLinked
<1> QED BY <1>2, <1>5, NothingPaid, QuietPays

LEMMA CrashPays ==
    ASSUME ApiInv, SuccessInv, PaymentsInv, Crash, UNCHANGED payments
    PROVE  PaymentsInv'
<1>1. UNCHANGED <<projects, claims>> /\ pc' = [h \in Handlers |-> "idle"]
  BY DEF Crash, tables
<1>2. AnsweredKeys' \subseteq AnsweredKeys
  <2>1. CASE Keys!Crash
    <3>1. UNCHANGED idempotent_requests /\ stage' = [h \in Handlers |-> "idle"]
      BY <2>1 DEF Keys!Crash
    <3> QED BY <3>1 DEF AnsweredKeys
  <2>2. CASE UNCHANGED keyVars
    BY <2>2 DEF keyVars, AnsweredKeys
  <2> QED BY <2>1, <2>2 DEF Crash
<1>3. \A p \in Projects : PaymentsAdd(p)'
  BY <1>1, <1>2, NothingPaid, PaymentsStay
<1>4. \A h \in Handlers : ApprovalLinked(h)'
  BY <1>1 DEF ApprovalLinked
<1> QED BY <1>3, <1>4 DEF PaymentsInv

LEMMA PaymentNextIsApiNext == [PaymentNext]_paymentVars => [ApiNext]_apiVars
BY DEF PaymentNext, paymentVars, Pay, Unpaid, ServeUnpaid, ApiNext, Serve

LEMMA PaymentsNext ==
    ApiInv /\ SuccessInv /\ PaymentsInv /\ [PaymentNext]_paymentVars => PaymentsInv'
<1> SUFFICES ASSUME ApiInv, SuccessInv, PaymentsInv, [PaymentNext]_paymentVars
             PROVE  PaymentsInv'
  OBVIOUS
<1>1. CASE UNCHANGED payments /\ (UNCHANGED apiVars \/ Shutdown \/ Exit)
  <2>1. UNCHANGED <<vars, keyVars>>
    BY <1>1 DEF apiVars, Shutdown, Exit
  <2>2. AnsweredKeys' = AnsweredKeys /\ UNCHANGED <<projects, claims>>
    BY <2>1 DEF vars, keyVars, tables, AnsweredKeys
  <2>3. \A p \in Projects : PaymentsAdd(p)'
    BY <1>1, <2>2, NothingPaid, PaymentsStay
  <2>4. \A h \in Handlers : ApprovalLinked(h)'
    BY <2>1 DEF PaymentsInv, ApprovalLinked, vars, keyVars
  <2> QED BY <1>1, <2>3, <2>4 DEF PaymentsInv
<1>2. ASSUME NEW h \in Handlers, Ask(h) \/ Middleware(h), UNCHANGED payments
      PROVE  PaymentsInv'
  <2>1. UNCHANGED <<projects, claims>>
    BY <1>2 DEF Ask, Middleware, vars, tables
  <2> QED BY <1>2, <2>1, MiddlewareIsQuiet, NothingPaid, QuietPays
<1>3. ASSUME NEW h \in Handlers, StartReview(h), UNCHANGED payments  PROVE PaymentsInv'
  <2>1. Quiet(h) /\ UNCHANGED <<projects, claims>>
    BY <1>3, StartIsQuiet DEF tables
  <2> QED BY <1>3, <2>1, NothingPaid, QuietPays
<1>4. CASE \E h \in Handlers : Pay(h)
  BY <1>4, PayPays
<1>5. CASE Unpaid /\ UNCHANGED payments
  <2>1. ASSUME NEW h \in Handlers, ServeUnpaid(h)  PROVE PaymentsInv'
    BY <1>2, <1>3, <1>5, <2>1, RefusalPays, ReviewPays, DirectPays DEF ServeUnpaid
  <2>2. ASSUME NEW h \in Handlers, Ask(h) \/ Direct(h) \/ ReviewAborts(h)  PROVE PaymentsInv'
    BY <1>2, <1>5, <2>2, RefusalPays, DirectPays
  <2> QED BY <1>1, <1>5, <2>1, <2>2, CrashPays DEF Unpaid
<1> QED BY <1>1, <1>4, <1>5 DEF PaymentNext, paymentVars

(* A key that replays 200 for an approval has made a payment itself, and   *)
(* an envelope has given out what its payments add up to, although claims  *)
(* can be approved twice, reviews without a key approve beside them and    *)
(* the server may crash between the commit and the INSERT of the response. *)
THEOREM ReplayedApprovalsArePaid == PaymentSpec => []SavedApprovalsArePaid
<1>1. PaymentInit => ApiInit /\ SuccessInv /\ PaymentsInv
  <2>1. PaymentInit => ApiInit /\ SuccessInv
    BY NoResponseAssumption
    DEF PaymentInit, ApiInit, Keys!Init, Keys!Statuses, SuccessInv, Keys!SavedSuccessIsReal
  <2>2. ASSUME PaymentInit  PROVE PaymentsInv
    <3>1. /\ payments = [p \in Projects |-> <<>>] /\ projects = [p \in Projects |-> NoRow]
          /\ pc = [h \in Handlers |-> "idle"]
      BY <2>2 DEF PaymentInit, ApiInit, Init, TablesInit
    <3> QED BY <3>1 DEF PaymentsInv, ApprovalLinked, PaymentsAdd
  <2> QED BY <2>1, <2>2
<1>2. ApiInv /\ SuccessInv /\ [ApiNext]_apiVars => SuccessInv'
  BY ApiNextMaps, KeyStepKeepsSuccess
<1>3. ApiInv /\ PaymentsInv => SavedApprovalsArePaid
  <2> SUFFICES ASSUME PaymentsInv, NEW p \in Projects, projects[p] # NoRow
               PROVE  /\ ApprovedKeys(p) \subseteq PayingKeys(p)
                      /\ Len(payments[p]) * projects[p].claim_amount = Spent(p)
    BY DEF SavedApprovalsArePaid
  <2>1. ApprovedKeys(p) \subseteq PaidKeys(p)
    BY DEF ApprovedKeys, PaidKeys, AnsweredKeys
  <2> QED BY <2>1 DEF PaymentsInv, PaymentsAdd, Paid
<1> QED
  BY <1>1, <1>2, <1>3, PaymentsNext, PaymentNextIsApiNext, ApiInitMaps, ApiNextKeeps, PTL
  DEF PaymentSpec

=============================================================================
