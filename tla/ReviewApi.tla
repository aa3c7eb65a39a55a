------------------------------ MODULE ReviewApi ------------------------------
(***************************************************************************)
(* The API as the router serves it: the idempotency middleware in front of *)
(* the reviews of Ledger, requests without an Idempotency-Key and all the  *)
(* other operations beside them, in a server that crashes, or is told to   *)
(* stop and drains.  Reviews with a key go through the stages of           *)
(* Idempotency, whose Check and Decide are the ledger's statements here.   *)
(***************************************************************************)
EXTENDS Ledger

CONSTANTS
    Clients,    \* <<caller, approve>>: who reviews, and which way
    MaxFaults,  \* bound on failed statements of the middleware and crashes
    NoResponse

ASSUME ClientsAssumption == Clients \subseteq Callers \X BOOLEAN
ASSUME RowsAreDisjoint ==
    /\ Topups \cap Claims = {} /\ Topups \cap Payouts = {}
    /\ Claims \cap Payouts = {}

VARIABLES
    idempotent_requests, stage, asked, status, faults,  \* see Idempotency
    server      \* "up", or "draining" after a signal to stop

keyVars == <<idempotent_requests, stage, asked, status, faults>>
apiVars == <<vars, keyVars, server>>

Reviewed == Topups \cup Claims \cup Payouts

RowOf(id) ==
    IF id \in Topups THEN topups[id]
    ELSE IF id \in Claims THEN claims[id] ELSE payouts[id]

Exists(id)  == RowOf(id) # NoRow
Pending(id) == RowOf(id).status = "pending"
Decided     == {id \in Reviewed : Exists(id) /\ ~Pending(id)}

(* What a review that is neither 200 nor 409 answers: no such row, not the *)
(* manager's project, envelope exhausted, any other error.                 *)
Failures == {403, 404, 422, 500}

Keys == INSTANCE Idempotency WITH
            pc <- stage, req <- asked, decided <- Decided

ASSUME NoResponseAssumption == NoResponse \notin Keys!Statuses

ApiInit ==
    /\ Init
    /\ Keys!Init
    /\ server = "up"

(* Fault: a server that drains goes on accepting requests.                 *)
AlwaysAccepts == TRUE

Accepts == server = "up"

Idle(h) == pc[h] = "idle" /\ stage[h] = "idle"

-----------------------------------------------------------------------------
(* Reviews with a key. *)

(* The role check of the router comes before the middleware.               *)
MayAsk(client, id) == client[1] = Finance \/ id \in Claims

Ask(h) ==
    /\ Accepts /\ Idle(h)
    /\ UNCHANGED <<vars, server>>
    /\ \E client \in Clients, id \in Reviewed :
         MayAsk(client, id) /\ Keys!Receive(h, client, id)

Middleware(h) ==
    /\ UNCHANGED <<vars, server>>
    /\ Keys!Replay(h) \/ Keys!Miss(h) \/ Keys!Save(h)

Respond(h, code) == Keys!Respond(h, code) /\ UNCHANGED server

(* The handler found the row pending and begins its transaction.           *)
StartReview(h) ==
    /\ stage[h] = "Check"
    /\ LET id == asked[h].row
           caller  == asked[h].key[1][1]
           approve == asked[h].key[1][2]
       IN  \/ id \in Topups /\ ReviewTopup(h, id, IF approve THEN "approved" ELSE "rejected")
           \/ id \in Claims /\ ReviewClaim(h, caller, id, IF approve THEN "approved" ELSE "rejected")
           \/ id \in Payouts /\ ReviewPayout(h, id, IF approve THEN "completed" ELSE "failed")
    /\ stage' = [stage EXCEPT ![h] = "Decide"]
    /\ UNCHANGED <<idempotent_requests, asked, status, faults, server>>

(* The row is missing or decided, or the query for it fails.               *)
RefuseReview(h) ==
    /\ stage[h] = "Check"
    /\ UNCHANGED vars
    /\ \/ ~Exists(asked[h].row) /\ Respond(h, 404)
       \/ Exists(asked[h].row) /\ ~Pending(asked[h].row) /\ Respond(h, 409)
       \/ Respond(h, 500)

CommitStatements == {"TopupCommit", "ClaimReject", "ClaimCommit", "PayoutCommit"}

(* Fault: a WHERE clause that matched no row is not noticed.               *)
RefusalUnnoticed(statement) == 200

(* What the error of the statement that affected no row is answered with.  *)
Refusal(statement) ==
    CASE statement = "TopupUpdateStatus" -> 409
      [] statement = "DecrementEnvelope" -> 422
      [] OTHER -> 500

(* The responses of a review that ends with this statement.  A commit is   *)
(* answered 500 when its acknowledgement is lost.                          *)
Outcomes(h) ==
    CASE pc[h] \in CommitStatements -> {200, 500}
      [] pc[h] = "ClaimFindProject" ->
           {IF projects[ProjectOf(h)].deleted THEN 500 ELSE 403}
      [] OTHER -> {Refusal(pc[h])}

ReviewStep(h) ==
    /\ stage[h] = "Decide"
    /\ Step(h)
    /\ IF pc'[h] = "idle"
         THEN \E code \in Outcomes(h) : Respond(h, code)
         ELSE UNCHANGED <<keyVars, server>>

ReviewAborts(h) ==
    /\ stage[h] = "Decide"
    /\ Abort(h)
    /\ Respond(h, 500)

-----------------------------------------------------------------------------
(* Every other request. *)

(* One statement, after which the handler is idle again.                   *)
CreatesTopup ==
    \E m \in Managers, t \in Topups, amount \in Amounts : CreateTopup(m, t, amount)

Direct(h) ==
    /\ stage[h] = "idle"
    /\ \/ Accepts /\ Request(h)
       \/ Accepts /\ pc[h] = "idle" /\ CreatesTopup
       \/ Abort(h)
    /\ UNCHANGED <<keyVars, server>>

DirectStep(h) ==
    /\ stage[h] = "idle"
    /\ Step(h)
    /\ UNCHANGED <<keyVars, server>>

-----------------------------------------------------------------------------
(* The server. *)

(* SIGINT or SIGTERM: the listeners are closed.                            *)
Shutdown ==
    /\ server = "up"
    /\ server' = "draining"
    /\ UNCHANGED <<vars, keyVars>>

(* Every request has been answered: the process ends and is started again. *)
Exit ==
    /\ server = "draining"
    /\ \A h \in Handlers : Idle(h)
    /\ server' = "up"
    /\ UNCHANGED <<vars, keyVars>>

(* The process dies, or the five seconds of the drain are over: PostgreSQL *)
(* rolls the open transactions back and nothing is answered.               *)
Crash ==
    /\ \E h \in Handlers : ~Idle(h)
    /\ server' = "up"
    /\ held' = [h \in Handlers |-> {}]
    /\ pc'   = [h \in Handlers |-> "idle"]
    /\ req'  = [h \in Handlers |-> NoRequest]
    /\ UNCHANGED tables
    /\ IF \E h \in Handlers : stage[h] # "idle"
         THEN Keys!Crash
         ELSE UNCHANGED keyVars

(* The next statement of a request that is under way.                      *)
Serve(h) ==
    \/ Middleware(h)
    \/ StartReview(h)
    \/ RefuseReview(h)
    \/ ReviewStep(h)
    \/ DirectStep(h)

ApiNext ==
    \/ \E h \in Handlers : Ask(h) \/ Direct(h)
    \/ \E h \in Handlers : Serve(h)
    \/ \E h \in Handlers : ReviewAborts(h)
    \/ Shutdown \/ Exit \/ Crash

ApiSpec == ApiInit /\ [][ApiNext]_apiVars

(* A statement that can run again and again runs: the runtime schedules    *)
(* every goroutine and PostgreSQL queues the waiters of a row.  A process  *)
(* that has drained ends.                                                  *)
ApiFairness ==
    /\ \A h \in Handlers : SF_apiVars(Serve(h))
    /\ WF_apiVars(Exit)

FairApiSpec == ApiSpec /\ ApiFairness

-----------------------------------------------------------------------------
(* The reviews of the ledger are what Idempotency takes a review handler   *)
(* for, whatever else the server does at the same time: they answer 200    *)
(* only if they decided the row, 409 only if it was decided, and a fault   *)
(* or a crash leaves no response behind that is not theirs.                *)
ImplementsIdempotency == Keys!Spec

(* Every request the server has accepted is answered or dies with it, with *)
(* or without a key.                                                       *)
RequestsEnd == \A h \in Handlers : ~Idle(h) ~> Idle(h)

(* A server that has been told to stop does stop.                          *)
ShutdownEnds == server = "draining" ~> server = "up"

=============================================================================
