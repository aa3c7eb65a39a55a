----------------------------- MODULE Idempotency -----------------------------
(***************************************************************************)
(* The Idempotency-Key middleware in front of the review handlers.  It     *)
(* looks the key up, runs the handler on a miss and saves the response     *)
(* afterwards: three separate statements on the database, outside any      *)
(* transaction.  A client, such as a webhook, uses one key per review and  *)
(* may send the request again before it has an answer.                     *)
(*                                                                         *)
(* A response is abstracted to its status code: 200 decided, 409 invalid   *)
(* status transition, or one of Failures.  Its body is a function of the   *)
(* code and of the request.  The table's key is the header's value alone:  *)
(* that no two reviews share one is the clients' part.                     *)
(***************************************************************************)
EXTENDS Naturals, FiniteSets

CONSTANTS
    Clients,        \* users of the API that choose idempotency keys
    Reviewed,       \* top-ups, claims and payouts under review
    Topups,         \* those of Reviewed that are top-ups
    Handlers,       \* requests being served at the same time
    Failures,       \* status codes of reviews that fail for other reasons
    MaxFaults,      \* bound on failed statements of the middleware and crashes
    NoResponse, NoRequest

ASSUME TopupsAssumption == Topups \subseteq Reviewed

Keys == Clients \X Reviewed
KeyOf(client, row) == <<client, row>>
Statuses == {200, 409} \cup Failures
ASSUME FailuresAssumption == Failures \subseteq {400, 403, 404, 422, 500}
ASSUME NoResponseAssumption == NoResponse \notin Statuses
ASSUME NoRequestAssumption == NoRequest \notin [key : Keys, row : Reviewed]
ASSUME MaxFaultsAssumption == MaxFaults \in Nat

VARIABLES
    idempotent_requests,  \* idempotent_requests[k]: the response saved for k
    decided,    \* the reviewed rows that are no longer pending
    pc,         \* pc[h]: the statement handler h executes next
    req,        \* req[h]: the key and the row of the request it serves
    status,     \* status[h]: the response captured from the review handler
    faults      \* faults so far, at most MaxFaults

vars == <<idempotent_requests, decided, pc, req, status, faults>>

Init ==
    /\ idempotent_requests = [k \in Keys |-> NoResponse]
    /\ decided = {}
    /\ pc = [h \in Handlers |-> "idle"]
    /\ req = [h \in Handlers |-> NoRequest]
    /\ status = [h \in Handlers |-> NoResponse]
    /\ faults = 0

Goto(h, next) == pc' = [pc EXCEPT ![h] = next]

Fault == faults < MaxFaults /\ faults' = faults + 1

-----------------------------------------------------------------------------
Receive(h, client, row) ==
    /\ pc[h] = "idle"
    /\ Goto(h, "Lookup")
    /\ req' = [req EXCEPT ![h] = [key |-> KeyOf(client, row), row |-> row]]
    /\ UNCHANGED <<idempotent_requests, decided, status, faults>>

(* The client gets the response and the handler ends.                      *)
Finish(h) ==
    /\ Goto(h, "idle")
    /\ req' = [req EXCEPT ![h] = NoRequest]
    /\ status' = [status EXCEPT ![h] = NoResponse]

(* Fault: the lookup never finds anything.                                 *)
NeverCached(key) == FALSE

IsCached(key) == idempotent_requests[key] # NoResponse

Replay(h) ==
    /\ pc[h] = "Lookup"
    /\ IsCached(req[h].key)
    /\ Finish(h)
    /\ UNCHANGED <<idempotent_requests, decided, faults>>

(* Any error of the query counts as not found, a lost connection too.      *)
Miss(h) ==
    /\ pc[h] = "Lookup"
    /\ Goto(h, "Check")
    /\ UNCHANGED <<idempotent_requests, decided, req, status>>
    /\ \/ ~IsCached(req[h].key) /\ UNCHANGED faults
       \/ IsCached(req[h].key) /\ Fault

-----------------------------------------------------------------------------
(* The review handler behind the middleware: it reads the status, then     *)
(* decides in a transaction.                                               *)

(* Fault: the response writer does not capture what it passes on.          *)
RespondUncaptured(h, response) ==
    /\ Goto(h, "Save")
    /\ UNCHANGED <<idempotent_requests, req, status, faults>>

Respond(h, response) ==
    /\ status' = [status EXCEPT ![h] = response]
    /\ Goto(h, "Save")
    /\ UNCHANGED <<idempotent_requests, req, faults>>

Check(h) ==
    /\ pc[h] = "Check"
    /\ UNCHANGED decided
    /\ \/ /\ req[h].row \notin decided
          /\ Goto(h, "Decide")
          /\ UNCHANGED <<idempotent_requests, req, status, faults>>
       \/ /\ req[h].row \in decided
          /\ Respond(h, 409)

(* Only a top-up's UPDATE looks at the status again.                       *)
StillDecidable(row) == row \in Topups => row \notin decided

Decide(h) ==
    /\ pc[h] = "Decide"
    /\ \/ /\ StillDecidable(req[h].row)
          /\ decided' = decided \cup {req[h].row}
          /\ Respond(h, 200)
       \/ /\ ~StillDecidable(req[h].row)
          /\ Respond(h, 409)
          /\ UNCHANGED decided

(* Fault: the error of the transaction is dropped.                         *)
HandlerFailsSilently(h) ==
    /\ pc[h] \in {"Check", "Decide"}
    /\ Respond(h, 200)
    /\ UNCHANGED decided

(* A query or the transaction of the review handler fails or refuses; when *)
(* the acknowledgement of COMMIT is lost, the review is decided although   *)
(* it answers 500.                                                         *)
HandlerFails(h) ==
    /\ pc[h] \in {"Check", "Decide"}
    /\ \E code \in Failures : Respond(h, code)
    /\ \/ UNCHANGED decided
       \/ /\ pc[h] = "Decide" /\ StillDecidable(req[h].row)
          /\ status'[h] = 500
          /\ decided' = decided \cup {req[h].row}

(* A review without the header goes straight to its handler.               *)
Bypass(row) ==
    /\ StillDecidable(row)
    /\ decided' = decided \cup {row}
    /\ UNCHANGED <<idempotent_requests, pc, req, status, faults>>

(* Fault: a later response replaces the saved one.                         *)
Upsert(key, response) ==
    idempotent_requests' = [idempotent_requests EXCEPT ![key] = response]

(* INSERT; a row with this primary key wins and the error is ignored.      *)
Insert(key, response) ==
    IF IsCached(key)
      THEN UNCHANGED idempotent_requests
      ELSE idempotent_requests' = [idempotent_requests EXCEPT ![key] = response]

(* Save the response and answer; other errors of INSERT are ignored too.   *)
Save(h) ==
    /\ pc[h] = "Save"
    /\ Finish(h)
    /\ UNCHANGED decided
    /\ \/ Insert(req[h].key, status[h]) /\ UNCHANGED faults
       \/ Fault /\ UNCHANGED idempotent_requests

(* The server dies, or restarts after its drain window, without answering; *)
(* the transaction of Decide has committed or not.                         *)
Crash ==
    /\ \E h \in Handlers : pc[h] # "idle"
    /\ Fault
    /\ pc' = [h \in Handlers |-> "idle"]
    /\ req' = [h \in Handlers |-> NoRequest]
    /\ status' = [h \in Handlers |-> NoResponse]
    /\ UNCHANGED <<idempotent_requests, decided>>

Next ==
    \/ \E h \in Handlers, client \in Clients, row \in Reviewed : Receive(h, client, row)
    \/ \E h \in Handlers :
         \/ Replay(h)
         \/ Miss(h)
         \/ Check(h)
         \/ Decide(h)
         \/ HandlerFails(h)
         \/ Save(h)
    \/ \E row \in Reviewed : Bypass(row)
    \/ Crash

Spec == Init /\ [][Next]_vars

-----------------------------------------------------------------------------
(* Types; and a handler that is about to save has a captured response.     *)
TypeOK ==
    /\ idempotent_requests \in [Keys -> Statuses \cup {NoResponse}]
    /\ decided \subseteq Reviewed
    /\ pc \in [Handlers -> {"idle", "Lookup", "Check", "Decide", "Save"}]
    /\ req \in [Handlers -> [key : Keys, row : Reviewed] \cup {NoRequest}]
    /\ status \in [Handlers -> Statuses \cup {NoResponse}]
    /\ faults \in 0..MaxFaults
    /\ \A h \in Handlers :
         /\ pc[h] = "idle" <=> req[h] = NoRequest
         /\ pc[h] = "Save" <=> status[h] # NoResponse

(* A saved success is real: the review it stands for has been decided, and *)
(* a replay never claims an effect that a crash or an error undid.         *)
SavedSuccessIsReal ==
    \A k \in Keys : idempotent_requests[k] = 200 => k[2] \in decided

(* Once a response is saved for a key, requests that still run for the key *)
(* do not replace it: replays agree with one another for ever.             *)
SavedResponseIsFinal ==
    [][\A k \in Keys : IsCached(k) => idempotent_requests'[k] = idempotent_requests[k]]_vars

=============================================================================
