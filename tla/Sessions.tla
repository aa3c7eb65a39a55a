------------------------------ MODULE Sessions ------------------------------
(***************************************************************************)
(* AuthUsecase: registration (Accounts), login and refresh token rotation, *)
(* and the balance an access token opens.  A login stores a session of a   *)
(* registered user; refreshing finds the session of a token, and in a      *)
(* transaction blocks it and stores its successor.  The token is made of   *)
(* the clock and the user and names its session only as long as the clock  *)
(* moves between two of the user's.                                        *)
(*                                                                         *)
(* Access tokens are not stored: each is returned together with a session  *)
(* and is a function of it.                                                *)
(***************************************************************************)
EXTENDS Accounts

CONSTANTS
    SessionIds,     \* the UUIDs a session may get; naturals, to order rows
    Lifetime,       \* 168 hours, in ticks of the model's clock
    AccessLifetime, \* JWT_EXPIRY_HOURS
    MaxTime,        \* bound on the clock
    NoSession

ASSUME SessionIdsAssumption == SessionIds \subseteq Nat
ASSUME LifetimeAssumption ==
    Lifetime \in Nat /\ AccessLifetime \in Nat /\ MaxTime \in Nat
ASSUME HandlersAssumption == IsFiniteSet(Handlers)

Tokens == UserIds \X (0..MaxTime)
Session == [user : UserIds, refresh_token : Tokens, is_blocked : BOOLEAN,
            expires_at : Nat]

ASSUME NoSessionAssumption == NoSession \notin Session

VARIABLES
    sessions,   \* the sessions table: a row or NoSession for every id
    holder,     \* the handlers whose transaction has locked each row
    now,        \* the clock
    successors  \* history: successors[s] are the sessions that replaced s

sessionVars == <<sessions, holder, now, successors>>
vars == <<accountVars, sessionVars, pc, req>>

Registered == {u \in UserIds : users[u] # NoUser}

Stored == {s \in SessionIds : sessions[s] # NoSession}

Init ==
    /\ AccountsInit
    /\ sessions = [s \in SessionIds |-> NoSession]
    /\ holder = [s \in SessionIds |-> {}]
    /\ now = 0
    /\ successors = [s \in SessionIds |-> {}]

NewSession(user, token) ==
    [user |-> user, refresh_token |-> token, is_blocked |-> FALSE,
     expires_at |-> now + Lifetime]

(* The user is found and the password matches: the session is stored in    *)
(* one statement.                                                          *)
Login(user, s) ==
    /\ user \in Registered
    /\ s \notin Stored
    /\ sessions' = [sessions EXCEPT ![s] = NewSession(user, <<user, now>>)]
    /\ UNCHANGED <<accountVars, holder, now, pc, req, successors>>

-----------------------------------------------------------------------------
(* First(&session): of several rows with the token the one with least id.  *)
GetSessionByRefreshToken(token) ==
    {s \in Stored :
       /\ sessions[s].refresh_token = token
       /\ \A r \in Stored : sessions[r].refresh_token = token => s <= r}

(* Fault: a blocked session will do.                                       *)
NotExpired(s) == now <= sessions[s].expires_at

(* The checks of RefreshToken before its transaction.                      *)
Refreshable(s) == ~sessions[s].is_blocked /\ now <= sessions[s].expires_at

RefreshToken(h, token) ==
    /\ pc[h] = "idle"
    /\ \E s \in GetSessionByRefreshToken(token) :
         /\ Refreshable(s)
         /\ req' = [req EXCEPT ![h] = [session |-> s, user |-> sessions[s].user,
                                       token |-> <<sessions[s].user, now>>]]
    /\ Goto(h, "BlockSession")
    /\ UNCHANGED <<accountVars, sessions, holder, now, successors>>

Release(h) == holder' = [s \in SessionIds |-> holder[s] \ {h}]

Return(h) == Answer(h) /\ Release(h)

(* Fault: the statement runs outside the transaction and keeps no lock.    *)
BlockOutsideTx(h) ==
    /\ pc[h] = "BlockSession"
    /\ holder[req[h].session] = {}
    /\ Goto(h, "RefreshCommit")
    /\ UNCHANGED <<accountVars, sessions, holder, now, req, successors>>

(* UPDATE sessions SET is_blocked = true WHERE id = ?, blocked or not: it  *)
(* waits for the row lock and never looks at what it overwrites.           *)
BlockSession(h) ==
    /\ pc[h] = "BlockSession"
    /\ holder[req[h].session] = {}
    /\ holder' = [holder EXCEPT ![req[h].session] = {h}]
    /\ Goto(h, "RefreshCommit")
    /\ UNCHANGED <<accountVars, sessions, now, req, successors>>

(* Fault: the old session is not blocked by the transaction.               *)
RefreshCommitUnblocked(h) ==
    /\ pc[h] = "RefreshCommit"
    /\ \E new \in SessionIds \ Stored :
         /\ sessions' = [sessions EXCEPT ![new] = NewSession(req[h].user, req[h].token)]
         /\ successors' = [successors EXCEPT ![req[h].session] = @ \cup {new}]
    /\ Return(h)
    /\ UNCHANGED <<accountVars, now>>

(* INSERT of the successor and COMMIT, which publishes both statements.    *)
RefreshCommit(h) ==
    /\ pc[h] = "RefreshCommit"
    /\ \E new \in SessionIds \ Stored :
         /\ sessions' = [sessions EXCEPT ![new] = NewSession(req[h].user, req[h].token),
                                         ![req[h].session].is_blocked = TRUE]
         /\ successors' = [successors EXCEPT ![req[h].session] = @ \cup {new}]
    /\ Return(h)
    /\ UNCHANGED <<accountVars, now>>

-----------------------------------------------------------------------------
(* Requests with an access token. *)

(* The access token that was returned with session s is authentic and not  *)
(* expired; whether the session is blocked is not asked.                   *)
Authentic(s) ==
    s \in Stored /\ now < sessions[s].refresh_token[2] + AccessLifetime

(* Authenticate takes user and role from the token, not from the table.    *)
Authenticate(h, s) ==
    /\ pc[h] = "idle"
    /\ Authentic(s)
    /\ req' = [req EXCEPT ![h] = [user |-> sessions[s].user,
                                 role |-> users[sessions[s].user].role]]
    /\ Goto(h, "GetBalance")
    /\ UNCHANGED <<accountVars, sessions, holder, now, successors>>

GetBalance(h) ==
    /\ pc[h] = "GetBalance"
    /\ Answer(h)
    /\ UNCHANGED <<accountVars, sessions, holder, now, successors>>

-----------------------------------------------------------------------------
(* The database fails, the client goes away, or the server dies.           *)
Abort(h) ==
    /\ pc[h] # "idle"
    /\ Fail(h) /\ Release(h)
    /\ UNCHANGED <<users, balances, sessions, now, successors>>

Tick ==
    /\ now < MaxTime
    /\ now' = now + 1
    /\ UNCHANGED <<accountVars, sessions, holder, pc, req, successors>>

Next ==
    \/ \E h \in Handlers : AccountStep(h) /\ UNCHANGED sessionVars
    \/ \E user \in UserIds, s \in SessionIds : Login(user, s)
    \/ \E h \in Handlers, token \in Tokens : RefreshToken(h, token)
    \/ \E h \in Handlers, s \in SessionIds : Authenticate(h, s)
    \/ \E h \in Handlers :
         BlockSession(h) \/ RefreshCommit(h) \/ GetBalance(h) \/ Abort(h)
    \/ Tick

Spec == Init /\ [][Next]_vars

-----------------------------------------------------------------------------
Refreshing(s) ==
    {h \in Handlers : /\ pc[h] \in {"BlockSession", "RefreshCommit"}
                      /\ req[h].session = s}

Authenticated == [user : UserIds, role : Roles]
Refresh == [session : SessionIds, user : UserIds, token : Tokens]

(* Types; and the lock of a session's row is held by the one handler that  *)
(* is about to commit its replacement, and by nobody otherwise.            *)
TypeOK ==
    /\ users \in [UserIds -> User \cup {NoUser}]
    /\ balances \in [BalanceRoles -> SUBSET UserIds]
    /\ seeded \in BOOLEAN
    /\ sessions \in [SessionIds -> Session \cup {NoSession}]
    /\ holder \in [SessionIds -> SUBSET Handlers]
    /\ now \in 0..MaxTime
    /\ successors \in [SessionIds -> SUBSET SessionIds]
    /\ pc \in [Handlers -> {"idle", "SeedCount", "UserCreate", "BalanceCreate",
                            "RegisterCommit", "BlockSession", "RefreshCommit",
                            "GetBalance"}]
    /\ \A h \in Handlers :
         req[h] \in CASE pc[h] = "idle" -> {NoRequest}
                      [] pc[h] \in {"BlockSession", "RefreshCommit"} -> Refresh
                      [] pc[h] = "GetBalance" -> Authenticated
                      [] OTHER -> Registration
    /\ \A h \in Handlers, s \in SessionIds :
         h \in holder[s] <=> pc[h] = "RefreshCommit" /\ req[h].session = s
    /\ \A s \in SessionIds : Cardinality(holder[s]) <= 1

(* A session is replaced only by requests that were under way when it was  *)
(* first replaced: once it has been, a client that goes on using the old   *)
(* token does not even begin another rotation.                             *)
RotationsBounded ==
    \A s \in SessionIds :
      Cardinality(successors[s]) + Cardinality(Refreshing(s)) <= Cardinality(Handlers)

(* A token and its replacement are never both good, whenever the server    *)
(* stops and whoever else refreshes: blocking the one and storing the      *)
(* other happen together or not at all.                                    *)
ReplacedAreBlocked ==
    \A s \in SessionIds : successors[s] # {} => sessions[s].is_blocked

(* A balance that an access token asks for is there: a token is returned   *)
(* only for a user whose transaction has committed, with the balance row   *)
(* of the role the token carries.                                          *)
BalancesFound ==
    \A h \in Handlers :
      (pc[h] = "GetBalance" /\ req[h].role \in BalanceRoles)
        => req[h].user \in balances[req[h].role]

(* README.md, line 129: rotation blocks the reuse of a token, so a session *)
(* is replaced once.                                                       *)
ReplacedOnce == \A s \in SessionIds : Cardinality(successors[s]) <= 1

=============================================================================
