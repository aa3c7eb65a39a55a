-------------------------- MODULE IdempotencyProofs --------------------------
(***************************************************************************)
(* The idempotency middleware in front of any number of concurrent         *)
(* requests, clients and reviewed rows, with any number of faults: a saved *)
(* success is real, a saved response is final, and a key runs its handler  *)
(* no more often than KeyHistory says.                                     *)
(***************************************************************************)
EXTENDS KeyHistory, FiniteSetTheorems, TLAPS

(* The row of a request is the one its key was made for.                   *)
KeysFit == \A h \in Handlers : pc[h] # "idle" => req[h].key[2] = req[h].row

(* A success that is about to be saved has happened.                       *)
SuccessIsReal ==
    \A h \in Handlers : status[h] = 200 => req[h].row \in decided

KeysInv ==
    /\ TypeOK
    /\ KeysFit
    /\ SuccessIsReal
    /\ SavedSuccessIsReal

Fits == [key : Keys, row : Reviewed]

USE NoResponseAssumption, NoRequestAssumption, MaxFaultsAssumption, FailuresAssumption

(* At the start nothing is decided, saved or under way.                    *)
LEMMA InitKeysInv == Init => KeysInv
  BY DEF Init, KeysInv, TypeOK, KeysFit, SuccessIsReal, SavedSuccessIsReal, Keys, Statuses

(* What a handler that is answering leaves behind.                         *)
LEMMA RespondKeeps ==
  ASSUME KeysInv, NEW h \in Handlers, NEW code \in Statuses, Respond(h, code),
         pc[h] \in {"Check", "Decide"}, decided \subseteq decided',
         decided' \subseteq Reviewed, code = 200 => req[h].row \in decided'
  PROVE  KeysInv'
<1>1. /\ req[h] \in Fits /\ code # NoResponse /\ status' = [status EXCEPT ![h] = code]
      /\ pc' = [pc EXCEPT ![h] = "Save"] /\ UNCHANGED <<idempotent_requests, req, faults>>
  BY DEF KeysInv, TypeOK, Respond, Goto, Fits
<1>2. TypeOK'
  BY <1>1 DEF KeysInv, TypeOK
<1>3. KeysFit' /\ SuccessIsReal' /\ SavedSuccessIsReal'
  BY <1>1 DEF KeysInv, TypeOK, KeysFit, SuccessIsReal, SavedSuccessIsReal, Keys
<1> QED BY <1>2, <1>3 DEF KeysInv

(* The statements of the middleware and those of the reviews behind it.    *)
LEMMA NextKeysInv == KeysInv /\ [Next]_vars => KeysInv'
<1> SUFFICES ASSUME KeysInv, [Next]_vars PROVE KeysInv'
  OBVIOUS
<1> USE DEF KeysInv, TypeOK
<1>1. ASSUME NEW h \in Handlers, NEW client \in Clients, NEW row \in Reviewed,
             Receive(h, client, row)
      PROVE  KeysInv'
  <2> DEFINE new == [key |-> KeyOf(client, row), row |-> row]
  <2>1. new \in Fits /\ new.key[2] = new.row /\ new # NoRequest
    BY DEF Fits, Keys, KeyOf
  <2>2. /\ pc' = [pc EXCEPT ![h] = "Lookup"] /\ req' = [req EXCEPT ![h] = new]
        /\ UNCHANGED <<idempotent_requests, decided, status, faults>> /\ pc[h] = "idle"
    BY <1>1 DEF Receive, Goto
  <2> HIDE DEF new
  <2>3. TypeOK'
    BY <2>1, <2>2 DEF Fits
  <2>4. KeysFit' /\ SuccessIsReal' /\ SavedSuccessIsReal'
    BY <2>1, <2>2 DEF KeysFit, SuccessIsReal, SavedSuccessIsReal, Statuses
  <2> QED BY <2>3, <2>4
<1>2. ASSUME NEW h \in Handlers, Finish(h),
             UNCHANGED decided, faults' \in 0..MaxFaults,
             \/ UNCHANGED idempotent_requests
             \/ /\ pc[h] = "Save"
                /\ idempotent_requests' = [idempotent_requests EXCEPT ![req[h].key] = status[h]]
      PROVE  KeysInv'
  <2>1. /\ pc' = [pc EXCEPT ![h] = "idle"] /\ req' = [req EXCEPT ![h] = NoRequest]
        /\ status' = [status EXCEPT ![h] = NoResponse]
    BY <1>2 DEF Finish, Goto
  <2>2. pc[h] = "Save" => /\ status[h] \in Statuses /\ req[h].key \in Keys
                          /\ req[h].key[2] = req[h].row
    BY DEF KeysFit
  <2>3. TypeOK'
    BY <1>2, <2>1, <2>2
  <2>4. KeysFit' /\ SuccessIsReal'
    BY <1>2, <2>1 DEF KeysFit, SuccessIsReal, Statuses
  <2>5. SavedSuccessIsReal'
    BY <1>2, <2>1, <2>2 DEF SuccessIsReal, SavedSuccessIsReal
  <2> QED BY <2>3, <2>4, <2>5
<1>3. ASSUME NEW h \in Handlers, Replay(h) PROVE KeysInv'
  BY <1>2, <1>3 DEF Replay
<1>4. ASSUME NEW h \in Handlers, Save(h) PROVE KeysInv'
  BY <1>2, <1>4 DEF Save, Insert, Fault
<1>5. ASSUME NEW h \in Handlers, Miss(h) PROVE KeysInv'
  <2>1. /\ pc' = [pc EXCEPT ![h] = "Check"] /\ pc[h] = "Lookup"
        /\ UNCHANGED <<idempotent_requests, decided, req, status>> /\ faults' \in 0..MaxFaults
    BY <1>5 DEF Miss, Goto, Fault
  <2>2. TypeOK'
    BY <2>1
  <2>3. KeysFit' /\ SuccessIsReal' /\ SavedSuccessIsReal'
    BY <2>1 DEF KeysFit, SuccessIsReal, SavedSuccessIsReal
  <2> QED BY <2>2, <2>3
<1>6. ASSUME NEW h \in Handlers, Check(h) PROVE KeysInv'
  <2>1. CASE Respond(h, 409)
    BY <1>6, <2>1, RespondKeeps DEF Check, Statuses
  <2>2. CASE /\ Goto(h, "Decide") /\ pc[h] = "Check"
             /\ UNCHANGED <<idempotent_requests, decided, req, status, faults>>
    <3>1. TypeOK'
      BY <2>2 DEF Goto
    <3>2. KeysFit' /\ SuccessIsReal' /\ SavedSuccessIsReal'
      BY <2>2 DEF Goto, KeysFit, SuccessIsReal, SavedSuccessIsReal
    <3> QED BY <3>1, <3>2
  <2> QED BY <1>6, <2>1, <2>2 DEF Check
<1>7. ASSUME NEW h \in Handlers, Decide(h) PROVE KeysInv'
  <2>1. req[h].row \in Reviewed /\ pc[h] = "Decide"
    BY <1>7 DEF Decide
  <2> QED BY <1>7, <2>1, RespondKeeps DEF Decide, Statuses
<1>8. ASSUME NEW h \in Handlers, HandlerFails(h) PROVE KeysInv'
  <2>1. req[h].row \in Reviewed /\ pc[h] \in {"Check", "Decide"}
    BY <1>8 DEF HandlerFails
  <2>2. PICK code \in Failures : Respond(h, code)
    BY <1>8 DEF HandlerFails
  <2>3. code \in Statuses /\ code # 200
    BY DEF Statuses
  <2>4. decided \subseteq decided' /\ decided' \subseteq Reviewed
    BY <1>8, <2>1 DEF HandlerFails
  <2> QED BY <2>1, <2>2, <2>3, <2>4, RespondKeeps
<1>9. ASSUME NEW row \in Reviewed, Bypass(row) PROVE KeysInv'
  <2>1. TypeOK'
    BY <1>9 DEF Bypass
  <2>2. KeysFit' /\ SuccessIsReal' /\ SavedSuccessIsReal'
    BY <1>9 DEF Bypass, KeysFit, SuccessIsReal, SavedSuccessIsReal
  <2> QED BY <2>1, <2>2
<1>10. CASE Crash
  <2>1. TypeOK'
    BY <1>10 DEF Crash, Fault
  <2>2. KeysFit' /\ SuccessIsReal' /\ SavedSuccessIsReal'
    BY <1>10 DEF Crash, KeysFit, SuccessIsReal, SavedSuccessIsReal, Statuses
  <2> QED BY <2>1, <2>2
<1>11. CASE UNCHANGED vars
  <2>1. TypeOK'
    BY <1>11 DEF vars
  <2>2. KeysFit' /\ SuccessIsReal' /\ SavedSuccessIsReal'
    BY <1>11 DEF vars, KeysFit, SuccessIsReal, SavedSuccessIsReal
  <2> QED BY <2>1, <2>2
<1> QED
  BY <1>1, <1>3, <1>4, <1>5, <1>6, <1>7, <1>8, <1>9, <1>10, <1>11 DEF Next

(* Types, and what the responses under way stand for, hold throughout.     *)
THEOREM KeysInvariant == Spec => []KeysInv
  BY InitKeysInv, NextKeysInv, PTL DEF Spec

(* The variables keep their types, and a handler is about to save exactly  *)
(* when it has captured a response.                                        *)
THEOREM KeysTypeCorrect == Spec => []TypeOK
<1>1. KeysInv => TypeOK
  BY DEF KeysInv
<1> QED BY <1>1, KeysInvariant, PTL

(* Whatever fails, crashes or is repeated, a key that replays success has  *)
(* had its review decided.                                                 *)
THEOREM SuccessesAreReal == Spec => []SavedSuccessIsReal
<1>1. KeysInv => SavedSuccessIsReal
  BY DEF KeysInv
<1> QED BY <1>1, KeysInvariant, PTL

(* The INSERT of a later response never replaces an earlier one: each key  *)
(* replays one response for ever.                                          *)
THEOREM ResponsesAreFinal == Spec => SavedResponseIsFinal
<1>1. ASSUME KeysInv, [Next]_vars, NEW k \in Keys, IsCached(k)
      PROVE  idempotent_requests'[k] = idempotent_requests[k]
  <2>1. ASSUME NEW h \in Handlers, Save(h)
        PROVE  idempotent_requests'[k] = idempotent_requests[k]
    BY <1>1, <2>1 DEF Save, Insert, IsCached, KeysInv, TypeOK
  <2> QED
    BY <1>1, <2>1 DEF Next, vars, Receive, Replay, Miss, Check, Decide, HandlerFails,
                      Bypass, Crash, Respond
<1>2. KeysInv /\ [Next]_vars =>
        [\A k \in Keys : IsCached(k) => idempotent_requests'[k] = idempotent_requests[k]]_vars
  BY <1>1
<1> QED BY <1>2, KeysInvariant, PTL DEF Spec, SavedResponseIsFinal

-----------------------------------------------------------------------------
(* How often the handler of a key runs. *)

Running(k) ==
    {h \in Handlers : pc[h] \in {"Check", "Decide", "Save"} /\ req[h].key = k}

(* Until a response is saved for k, a run is under way or cost a fault.    *)
Cost(k) ==
    /\ runs[k] <= Cardinality(Handlers) * (1 + faults)
    /\ ~IsCached(k) => runs[k] <= Cardinality(Handlers) * faults + Cardinality(Running(k))

RunsInv == runs \in [Keys -> Nat] /\ \A k \in Keys : Cost(k)

(* What the cases of RunsNext do to the numbers in Cost.                   *)
LEMMA FaultPays ==
    ASSUME NEW n \in Nat, NEW f \in Nat
    PROVE  n * (1 + (f + 1)) = n * (1 + f) + n /\ n * (1 + f) = n * f + n
  OBVIOUS

LEMMA RunningIsFinite ==
    ASSUME NEW k
    PROVE  /\ IsFiniteSet(Running(k)) /\ Cardinality(Running(k)) \in Nat
           /\ Cardinality(Running(k)) <= Cardinality(Handlers)
           /\ Cardinality(Handlers) \in Nat
  BY HandlersAssumption, FS_Subset, FS_CardinalityType DEF Running

LEMMA RunningIsFiniteNext ==
    ASSUME NEW k
    PROVE  /\ Cardinality(Running(k)') \in Nat /\ IsFiniteSet(Running(k)')
           /\ Cardinality(Running(k)') <= Cardinality(Handlers)
<1> DEFINE after == Running(k)'
<1>1. after \subseteq Handlers
  BY DEF Running
<1> HIDE DEF after
<1>2. /\ Cardinality(after) \in Nat /\ IsFiniteSet(after)
      /\ Cardinality(after) <= Cardinality(Handlers)
  BY <1>1, HandlersAssumption, FS_Subset, FS_CardinalityType
<1> QED BY <1>2 DEF after

(* No run begins and no fault happens; the runs under way go on, unless a  *)
(* response has been saved.                                                *)
LEMMA QuietCosts ==
    ASSUME RunsInv, faults \in Nat, NEW k \in Keys, Cost(k), runs'[k] = runs[k],
           faults' = faults,
           IsCached(k)' \/ (~IsCached(k) /\ Running(k) \subseteq Running(k)')
    PROVE  Cost(k)'
<1> DEFINE before == Running(k)
           after == Running(k)'
           n == Cardinality(Handlers)
<1>1. /\ Cardinality(before) \in Nat /\ Cardinality(after) \in Nat /\ n \in Nat
      /\ IsFiniteSet(after)
  BY RunningIsFinite, RunningIsFiniteNext
<1>2. runs[k] <= n * (1 + faults) /\ (~IsCached(k) => runs[k] <= n * faults + Cardinality(before))
  BY DEF Cost
<1>3. IsCached(k)' \/ (~IsCached(k) /\ before \subseteq after)
  OBVIOUS
<1> HIDE DEF before, after, n
<1>4. before \subseteq after => Cardinality(before) <= Cardinality(after)
  BY <1>1, FS_Subset
<1>5. n * faults \in Nat /\ runs[k] \in Nat
  BY <1>1 DEF RunsInv
<1>6. ~IsCached(k)' => runs[k] <= n * faults + Cardinality(after)
  BY <1>1, <1>2, <1>3, <1>4, <1>5
<1> QED BY <1>2, <1>6 DEF Cost, after, n

(* A fault pays for whatever it makes run again.                           *)
LEMMA FaultCosts ==
    ASSUME RunsInv, faults \in Nat, NEW k \in Keys, Cost(k), faults' = faults + 1,
           NEW h \in Handlers,
           \/ runs'[k] = runs[k] /\ (IsCached(k) => IsCached(k)')
           \/ runs'[k] = runs[k] + 1 /\ IsCached(k)'
    PROVE  Cost(k)'
<1> DEFINE before == Running(k)
           after == Running(k)'
           n == Cardinality(Handlers)
           cost == n * faults
<1>1. /\ Cardinality(before) \in Nat /\ Cardinality(after) \in Nat /\ n \in Nat
      /\ Cardinality(before) <= n
  BY RunningIsFinite, RunningIsFiniteNext
<1>2. n >= 1
  BY <1>1, HandlersAssumption, FS_EmptySet
<1>3. runs[k] <= n * (1 + faults) /\ (~IsCached(k) => runs[k] <= cost + Cardinality(before))
  BY DEF Cost
<1>4. cost \in Nat /\ runs[k] \in Nat
  BY <1>1 DEF RunsInv
<1>5. n * (1 + faults) = cost + n /\ n * (1 + faults') = cost + n + n /\ n * faults' = cost + n
  BY <1>1, FaultPays
<1> HIDE DEF before, after, n, cost
<1>6. runs'[k] <= cost + n + n
  BY <1>1, <1>2, <1>3, <1>4, <1>5
<1>7. ~IsCached(k)' => runs'[k] <= cost + n + Cardinality(after)
  BY <1>1, <1>3, <1>4
<1> QED BY <1>5, <1>6, <1>7 DEF Cost, after, n

(* A run that begins is one more under way.                                *)
LEMMA MissCosts ==
    ASSUME RunsInv, faults \in Nat, NEW k \in Keys, Cost(k), faults' = faults,
           ~IsCached(k), runs'[k] = runs[k] + 1,
           NEW h \in Handlers, h \notin Running(k), Running(k)' = Running(k) \cup {h}
    PROVE  Cost(k)'
<1> DEFINE before == Running(k)
           after == Running(k)'
           n == Cardinality(Handlers)
           cost == n * faults
<1>0. IsFiniteSet(before) /\ Cardinality(before) \in Nat /\ n \in Nat
  BY RunningIsFinite
<1>1. Cardinality(after) \in Nat /\ Cardinality(after) <= n
  BY RunningIsFiniteNext
<1>2. runs[k] <= cost + Cardinality(before)
  BY DEF Cost
<1>3. h \notin before /\ after = before \cup {h}
  OBVIOUS
<1>4. cost \in Nat /\ runs[k] \in Nat /\ n * (1 + faults) = cost + n
  BY <1>0, <1>1, FaultPays DEF RunsInv
<1> HIDE DEF before, after, n, cost
<1>5. Cardinality(after) = Cardinality(before) + 1
  BY <1>0, <1>1, <1>3, FS_AddElement
<1>6. runs'[k] <= cost + Cardinality(after) /\ runs'[k] <= cost + n
  BY <1>0, <1>1, <1>2, <1>4, <1>5
<1> QED BY <1>4, <1>6 DEF Cost, after, n, cost

LEMMA HistoryStepIsStep == [HistoryNext]_historyVars => [Next]_vars
  BY DEF HistoryNext, historyVars, ReplayAnswers, MissRuns, SaveAnswers, Unanswered, Next

LEMMA RunsNext == KeysInv /\ RunsInv /\ [HistoryNext]_historyVars => RunsInv'
<1> SUFFICES ASSUME KeysInv, RunsInv, [HistoryNext]_historyVars  PROVE RunsInv'
  OBVIOUS
<1>0. /\ pc \in [Handlers -> {"idle", "Lookup", "Check", "Decide", "Save"}]
      /\ req \in [Handlers -> Fits \cup {NoRequest}] /\ DOMAIN idempotent_requests = Keys
      /\ \A h \in Handlers : pc[h] # "idle" => req[h].key \in Keys
      /\ \A h \in Handlers : pc[h] = "Save" => status[h] # NoResponse
      /\ faults \in Nat
  BY DEF KeysInv, TypeOK, Fits
<1>1. runs' \in [Keys -> Nat]
  BY <1>0 DEF RunsInv, HistoryNext, historyVars, history, ReplayAnswers, MissRuns,
     SaveAnswers, Answered
<1> SUFFICES ASSUME NEW k \in Keys  PROVE Cost(k)'
  BY <1>1 DEF RunsInv
<1>2. Cost(k)
  BY DEF RunsInv
<1>3. ASSUME runs'[k] = runs[k], faults' = faults, UNCHANGED idempotent_requests,
             Running(k) \subseteq Running(k)'
      PROVE  Cost(k)'
  <2>1. IsCached(k)' <=> IsCached(k)
    BY <1>3 DEF IsCached
  <2>2. CASE IsCached(k)
    BY <1>0, <1>2, <1>3, <2>1, <2>2, QuietCosts
  <2>3. CASE ~IsCached(k)
    BY <1>0, <1>2, <1>3, <2>3, QuietCosts
  <2> QED BY <2>2, <2>3
<1>4. ASSUME NEW h \in Handlers, ReplayAnswers(h)  PROVE Cost(k)'
  <2>1. /\ runs' = runs /\ faults' = faults /\ UNCHANGED idempotent_requests
        /\ pc[h] = "Lookup" /\ pc' = [pc EXCEPT ![h] = "idle"]
        /\ req' = [req EXCEPT ![h] = NoRequest]
    BY <1>4 DEF ReplayAnswers, Answered, Replay, Finish, Goto
  <2>2. Running(k) \subseteq Running(k)'
    BY <1>0, <2>1 DEF Running
  <2> QED BY <1>3, <2>1, <2>2
<1>5. ASSUME NEW h \in Handlers, MissRuns(h)  PROVE Cost(k)'
  <2>1. /\ pc[h] = "Lookup" /\ pc' = [pc EXCEPT ![h] = "Check"] /\ req' = req
        /\ UNCHANGED idempotent_requests
        /\ runs' = [runs EXCEPT ![req[h].key] = @ + 1] /\ req[h].key \in Keys
        /\ \/ ~IsCached(req[h].key) /\ faults' = faults
           \/ IsCached(req[h].key) /\ faults' = faults + 1
    BY <1>0, <1>5 DEF MissRuns, Miss, Goto, Fault
  <2>2. IsCached(k)' <=> IsCached(k)
    BY <2>1 DEF IsCached
  <2>3. CASE req[h].key # k /\ faults' = faults
    <3>1. Running(k) \subseteq Running(k)' /\ runs'[k] = runs[k]
      BY <1>0, <2>1, <2>3 DEF Running, RunsInv
    <3> QED BY <1>3, <2>1, <2>3, <3>1
  <2>4. CASE req[h].key = k /\ ~IsCached(k) /\ faults' = faults
    <3>1. h \notin Running(k) /\ Running(k)' = Running(k) \cup {h}
      BY <1>0, <2>1, <2>4 DEF Running
    <3>2. runs'[k] = runs[k] + 1
      BY <2>1, <2>4 DEF RunsInv
    <3> QED BY <1>0, <1>2, <2>4, <3>1, <3>2, MissCosts
  <2>5. CASE faults' = faults + 1
    <3>1. \/ runs'[k] = runs[k]
          \/ runs'[k] = runs[k] + 1 /\ IsCached(k)
      BY <1>0, <2>1, <2>5 DEF RunsInv
    <3> QED BY <1>0, <1>2, <2>2, <2>5, <3>1, FaultCosts
  <2> QED BY <2>1, <2>3, <2>4, <2>5
<1>6. ASSUME NEW h \in Handlers, SaveAnswers(h)  PROVE Cost(k)'
  <2>1. /\ runs' = runs /\ pc[h] = "Save" /\ pc' = [pc EXCEPT ![h] = "idle"]
        /\ req' = [req EXCEPT ![h] = NoRequest] /\ req[h].key \in Keys
        /\ status[h] # NoResponse
        /\ \/ Insert(req[h].key, status[h]) /\ faults' = faults
           \/ faults' = faults + 1 /\ UNCHANGED idempotent_requests
    BY <1>0, <1>6 DEF SaveAnswers, Answered, Save, Finish, Goto, Fault
  <2>2. CASE faults' = faults + 1 /\ UNCHANGED idempotent_requests
    <3>1. IsCached(k)' <=> IsCached(k)
      BY <2>2 DEF IsCached
    <3> QED BY <1>0, <1>2, <2>1, <2>2, <3>1, FaultCosts
  <2>3. CASE Insert(req[h].key, status[h]) /\ faults' = faults
    <3>1. CASE req[h].key = k
      <4>1. IsCached(k)'
        BY <1>0, <2>1, <2>3, <3>1 DEF Insert, IsCached
      <4> QED BY <1>0, <1>2, <2>1, <2>3, <4>1, QuietCosts
    <3>2. CASE req[h].key # k
      <4>1. Running(k) \subseteq Running(k)'
        BY <1>0, <2>1, <3>2 DEF Running
      <4>2. IsCached(k)' <=> IsCached(k)
        BY <1>0, <2>1, <2>3, <3>2 DEF Insert, IsCached
      <4> QED BY <1>0, <1>2, <2>1, <2>3, <4>1, <4>2, QuietCosts
    <3> QED BY <3>1, <3>2
  <2> QED BY <2>1, <2>2, <2>3
<1>7. CASE Unanswered /\ UNCHANGED history
  <2>1. UNCHANGED idempotent_requests /\ runs'[k] = runs[k]
    BY <1>7 DEF Unanswered, history, Receive, Check, Decide, HandlerFails, Respond, Bypass,
       Crash
  <2>2. CASE Crash
    <3>1. PICK h \in Handlers : pc[h] # "idle"
      BY <2>2 DEF Crash
    <3>2. faults' = faults + 1 /\ (IsCached(k) => IsCached(k)')
      BY <2>1, <2>2 DEF Crash, Fault, IsCached
    <3> QED BY <1>0, <1>2, <2>1, <3>1, <3>2, FaultCosts
  <2>3. ASSUME NEW h \in Handlers, NEW client \in Clients, NEW row \in Reviewed,
               Receive(h, client, row)
        PROVE  faults' = faults /\ Running(k) \subseteq Running(k)'
    BY <1>0, <2>3 DEF Receive, Goto, Running
  <2>4. ASSUME NEW h \in Handlers, Check(h) \/ Decide(h) \/ HandlerFails(h)
        PROVE  faults' = faults /\ Running(k) \subseteq Running(k)'
    <3>1. /\ faults' = faults /\ req' = req
          /\ \E next \in {"Decide", "Save"} : pc' = [pc EXCEPT ![h] = next]
      BY <2>4 DEF Check, Decide, HandlerFails, Respond, Goto
    <3> QED BY <1>0, <3>1 DEF Running
  <2>5. ASSUME NEW row \in Reviewed, Bypass(row)
        PROVE  faults' = faults /\ Running(k) \subseteq Running(k)'
    BY <2>5 DEF Bypass, Running
  <2> QED BY <1>3, <1>7, <2>1, <2>2, <2>3, <2>4, <2>5 DEF Unanswered
<1>8. CASE UNCHANGED historyVars
  BY <1>3, <1>8 DEF historyVars, vars, history, Running
<1> QED BY <1>4, <1>5, <1>6, <1>7, <1>8 DEF HistoryNext

(* However often clients repeat a request, and whatever the interleaving   *)
(* of lookup, run and save: a key costs at most one run per concurrent     *)
(* handler, and that many again for each lost statement or crash.          *)
THEOREM RunsAreBounded == HistorySpec => []RunsBounded
<1>1. HistorySpec => Spec
  BY HistoryStepIsStep, PTL DEF HistorySpec, HistoryInit, Spec
<1>2. HistoryInit => RunsInv
  <2> SUFFICES ASSUME HistoryInit, NEW k \in Keys  PROVE Cost(k) /\ runs \in [Keys -> Nat]
    BY DEF HistoryInit, RunsInv
  <2>1. runs[k] = 0 /\ faults = 0 /\ runs \in [Keys -> Nat]
    BY DEF HistoryInit, Init
  <2>2. Cardinality(Running(k)) \in Nat /\ Cardinality(Handlers) \in Nat
    BY RunningIsFinite
  <2> QED BY <2>1, <2>2 DEF Cost
<1>3. RunsInv => RunsBounded
  BY DEF RunsInv, Cost, RunsBounded
<1> QED
  BY <1>1, <1>2, <1>3, RunsNext, KeysInvariant, PTL DEF HistorySpec

=============================================================================
