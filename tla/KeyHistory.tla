----------------------------- MODULE KeyHistory -----------------------------
(***************************************************************************)
(* Idempotency with what its clients can tell: how often the review of a   *)
(* key was run, and which responses came back for it.                      *)
(***************************************************************************)
EXTENDS Idempotency

ASSUME HandlersAssumption == IsFiniteSet(Handlers)

VARIABLES
    runs,       \* history: runs[k] counts the runs of the handler for key k
    answers     \* history: answers[k] are the responses clients got for k

history == <<runs, answers>>
historyVars == <<vars, history>>

HistoryInit ==
    /\ Init
    /\ runs = [k \in Keys |-> 0]
    /\ answers = [k \in Keys |-> {}]

Answered(key, response) ==
    /\ answers' = [answers EXCEPT ![key] = @ \cup {response}]
    /\ UNCHANGED runs

ReplayAnswers(h) == Replay(h) /\ Answered(req[h].key, idempotent_requests[req[h].key])

SaveAnswers(h) == Save(h) /\ Answered(req[h].key, status[h])

MissRuns(h) ==
    /\ Miss(h)
    /\ runs' = [runs EXCEPT ![req[h].key] = @ + 1]
    /\ UNCHANGED answers

Unanswered ==
    \/ \E h \in Handlers, client \in Clients, row \in Reviewed : Receive(h, client, row)
    \/ \E h \in Handlers : Check(h) \/ Decide(h) \/ HandlerFails(h)
    \/ \E row \in Reviewed : Bypass(row)
    \/ Crash

HistoryNext ==
    \/ \E h \in Handlers : ReplayAnswers(h) \/ MissRuns(h) \/ SaveAnswers(h)
    \/ Unanswered /\ UNCHANGED history

HistorySpec == HistoryInit /\ [][HistoryNext]_historyVars

-----------------------------------------------------------------------------
(* The handler runs again for a key only while an earlier request with it  *)
(* is still being served, or after a fault lost its response: however      *)
(* often a client sends a request again, a key costs at most one run per   *)
(* concurrent handler, and that many again per fault.                      *)
RunsBounded ==
    \A k \in Keys : runs[k] <= Cardinality(Handlers) * (1 + faults)

(* DESIGN.md, section 4: a sender that retries with the same key gets a    *)
(* response identical to the first one.                                    *)
RetrySeesFirstResponse == \A k \in Keys : Cardinality(answers[k]) <= 1

=============================================================================
