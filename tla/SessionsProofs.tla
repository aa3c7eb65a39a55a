---------------------------- MODULE SessionsProofs ----------------------------
(***************************************************************************)
(* Accounts and sessions for any number of concurrent requests and runs of *)
(* the seeder: what a handler found before its transaction still holds at  *)
(* its commit (HandlerKnows), because users, balance rows and sessions are *)
(* only ever added and two transactions never insert the same email or     *)
(* hold the same session.                                                  *)
(***************************************************************************)
EXTENDS Sessions, FiniteSetTheorems, TLAPS

Creating   == InsertedUser \cup {"SeedCount", "UserCreate"}
Rotating   == {"BlockSession", "RefreshCommit"}
Statements == Creating \cup Rotating \cup {"idle", "GetBalance"}

USE DEF InsertedUser, Creating, Rotating, Statements

Shape ==
    /\ users \in [UserIds -> User \cup {NoUser}]
    /\ balances \in [BalanceRoles -> SUBSET UserIds]
    /\ seeded \in BOOLEAN
    /\ sessions \in [SessionIds -> Session \cup {NoSession}]
    /\ holder \in [SessionIds -> SUBSET Handlers]
    /\ now \in 0..MaxTime
    /\ successors \in [SessionIds -> SUBSET SessionIds]
    /\ pc \in [Handlers -> Statements]
    /\ DOMAIN req = Handlers

RequestFits(h) ==
    /\ pc[h] = "idle" => req[h] = NoRequest
    /\ pc[h] \in Creating => req[h] \in Registration
    /\ pc[h] \in Rotating => req[h] \in Refresh
    /\ pc[h] = "GetBalance" => req[h] \in Authenticated

(* The lock of a session is held from BlockSession to the commit.          *)
HoldsOwn(h) ==
    \A s \in SessionIds :
      h \in holder[s] <=> pc[h] = "RefreshCommit" /\ req[h].session = s

SeedsTaken(n) == \A i \in 1..Len(Seeds) : i < n => EmailTaken(Seeds[i].email)

(* What a handler has found out and relies on.                             *)
HandlerKnows(h) ==
    /\ pc[h] \in InsertedUser =>
         /\ req[h].id \in UserIds /\ users[req[h].id] = NoUser
         /\ ~EmailTaken(req[h].email)
    /\ pc[h] = "SeedCount" => req[h].seed > 0
    /\ pc[h] \in Creating /\ req[h].seed > 0 =>
         req[h].email = Seeds[req[h].seed].email /\ SeedsTaken(req[h].seed)
    /\ pc[h] \in Rotating => req[h].session \in Stored /\ req[h].user \in Registered
    /\ pc[h] = "GetBalance" /\ req[h].role \in BalanceRoles =>
         req[h].user \in balances[req[h].role]

HandlerFits(h) == RequestFits(h) /\ HoldsOwn(h) /\ HandlerKnows(h)

(* Two handlers that insert a user, or replace a session.                  *)
InsertsDiffer(g, h) ==
    pc[g] \in InsertedUser /\ pc[h] \in InsertedUser =>
      req[g].id # req[h].id /\ req[g].email # req[h].email

LocksDiffer(g, h) ==
    pc[g] = "RefreshCommit" /\ pc[h] = "RefreshCommit" =>
      req[g].session # req[h].session

SessionsHaveUsers == \A s \in Stored : sessions[s].user \in Registered

SuccessorsFit ==
    \A s \in SessionIds :
      successors[s] # {} => s \in Stored /\ sessions[s].is_blocked

SessionsInv ==
    /\ Shape
    /\ \A h \in Handlers : HandlerFits(h)
    /\ \A g, h \in Handlers : g # h => InsertsDiffer(g, h) /\ LocksDiffer(g, h)
    /\ SessionsHaveUsers
    /\ SuccessorsFit
    /\ OneUserPerEmail
    /\ SeededUsersExist
    /\ UsersHaveBalances

-----------------------------------------------------------------------------
(* Steps of one handler. *)

(* Users, sessions and balances stay once they are there.                  *)
TablesGrow ==
    /\ \A u \in UserIds : users[u] # NoUser => users'[u] = users[u]
    /\ \A s \in SessionIds : s \in Stored => sessions'[s] # NoSession
    /\ \A role \in BalanceRoles : balances[role] \subseteq balances'[role]

HandlerKept(g) ==
    /\ pc'[g] = pc[g] /\ req'[g] = req[g]
    /\ \A s \in SessionIds : g \in holder'[s] <=> g \in holder[s]

LEMMA TakenStays ==
    ASSUME SessionsInv, TablesGrow, NEW email, EmailTaken(email)
    PROVE  EmailTaken(email)'
  BY DEF EmailTaken, TablesGrow

LEMMA HandlerStays ==
    ASSUME SessionsInv, NEW g \in Handlers, HandlerKept(g), TablesGrow,
           pc[g] \in InsertedUser =>
             users'[req[g].id] = NoUser /\ ~EmailTaken(req[g].email)'
    PROVE  HandlerFits(g)'
<1>1. HandlerFits(g)
  BY DEF SessionsInv
<1>2. RequestFits(g)' /\ HoldsOwn(g)'
  BY <1>1 DEF HandlerFits, HandlerKept, RequestFits, HoldsOwn
<1>3. \A n : SeedsTaken(n) => SeedsTaken(n)'
  BY TakenStays DEF SeedsTaken
<1>4. Stored \subseteq Stored' /\ Registered \subseteq Registered'
  BY DEF TablesGrow, Stored, Registered
<1>5. HandlerKnows(g)'
  BY <1>1, <1>3, <1>4 DEF HandlerFits, HandlerKept, HandlerKnows, TablesGrow, RequestFits,
     Authenticated
<1> QED BY <1>2, <1>5 DEF HandlerFits

OthersKept(h) == \A g \in Handlers \ {h} : HandlerKept(g)

ShapeOfHandlers ==
    /\ pc \in [Handlers -> Statements] /\ DOMAIN req = Handlers
    /\ holder \in [SessionIds -> SUBSET Handlers]

LEMMA OthersDiffer ==
    ASSUME SessionsInv, NEW h \in Handlers, OthersKept(h),
           \A g \in Handlers \ {h} : InsertsDiffer(g, h)' /\ LocksDiffer(g, h)'
    PROVE  \A f, g \in Handlers : f # g => InsertsDiffer(f, g)' /\ LocksDiffer(f, g)'
  BY DEF SessionsInv, OthersKept, HandlerKept, InsertsDiffer, LocksDiffer

(* A step of h that leaves the tables alone.                               *)
LEMMA MoveKeeps ==
    ASSUME SessionsInv, NEW h \in Handlers, OthersKept(h), HandlerFits(h)',
           UNCHANGED <<users, balances, sessions, now, successors>>, seeded' \in BOOLEAN,
           ShapeOfHandlers', SeededUsersExist',
           \A g \in Handlers \ {h} : InsertsDiffer(g, h)' /\ LocksDiffer(g, h)'
    PROVE  SessionsInv'
<1>1. TablesGrow
  BY DEF TablesGrow, Stored
<1>2. \A g \in Handlers : HandlerFits(g)'
  <2> SUFFICES ASSUME NEW g \in Handlers \ {h}  PROVE HandlerFits(g)'
    OBVIOUS
  <2>1. pc[g] \in InsertedUser =>
          users'[req[g].id] = NoUser /\ ~EmailTaken(req[g].email)'
    BY DEF SessionsInv, HandlerFits, HandlerKnows, EmailTaken, OthersKept, HandlerKept
  <2> QED BY <1>1, <2>1, HandlerStays DEF OthersKept
<1>3. Shape'
  BY DEF SessionsInv, Shape, ShapeOfHandlers
<1>4. SessionsHaveUsers' /\ SuccessorsFit' /\ OneUserPerEmail' /\ UsersHaveBalances'
  <2>1. Stored' = Stored /\ Registered' = Registered
    BY DEF Stored, Registered
  <2>2. SessionsHaveUsers' /\ SuccessorsFit'
    BY <2>1 DEF SessionsInv, SessionsHaveUsers, SuccessorsFit
  <2>3. OneUserPerEmail' /\ UsersHaveBalances'
    BY DEF SessionsInv, OneUserPerEmail, UsersHaveBalances
  <2> QED BY <2>2, <2>3
<1> QED BY <1>2, <1>3, <1>4, OthersDiffer DEF SessionsInv

(* The handler answers and keeps no lock.                                  *)
LEMMA AnswerFits ==
    ASSUME SessionsInv, NEW h \in Handlers, Answer(h),
           Release(h) \/ (UNCHANGED holder /\ pc[h] # "RefreshCommit")
    PROVE  /\ OthersKept(h) /\ HandlerFits(h)' /\ ShapeOfHandlers' /\ pc'[h] = "idle"
           /\ \A s \in SessionIds : holder'[s] = holder[s] \ {h}
<1>1. Shape /\ HoldsOwn(h)
  BY DEF SessionsInv, HandlerFits
<1>2. /\ pc' = [pc EXCEPT ![h] = "idle"] /\ req' = [req EXCEPT ![h] = NoRequest]
      /\ pc'[h] = "idle" /\ req'[h] = NoRequest
      /\ \A g \in Handlers \ {h} : pc'[g] = pc[g] /\ req'[g] = req[g]
  BY <1>1 DEF Answer, Shape
<1>3. \A s \in SessionIds : holder'[s] = holder[s] \ {h}
  BY <1>1 DEF Shape, HoldsOwn, Release
<1>4. holder' \in [SessionIds -> SUBSET Handlers]
  BY <1>1 DEF Shape, Release
<1>5. HandlerFits(h)'
  BY <1>2, <1>3 DEF HandlerFits, RequestFits, HoldsOwn, HandlerKnows
<1> QED
  BY <1>1, <1>2, <1>3, <1>4, <1>5 DEF Shape, ShapeOfHandlers, OthersKept, HandlerKept

(* The handler turns to a new statement with what it knows.                *)
Turns(h, next, request) ==
    /\ Goto(h, next)
    /\ req' = [req EXCEPT ![h] = request] \/ (UNCHANGED req /\ req[h] = request)

LEMMA GotoFits ==
    ASSUME SessionsInv, NEW h \in Handlers, NEW next \in Statements, NEW request,
           Turns(h, next, request),
           pc[h] # "RefreshCommit", next # "RefreshCommit", UNCHANGED holder
    PROVE  /\ OthersKept(h) /\ ShapeOfHandlers' /\ HoldsOwn(h)'
           /\ pc'[h] = next /\ req'[h] = request
<1>1. Shape /\ HoldsOwn(h)
  BY DEF SessionsInv, HandlerFits
<1>2. /\ pc'[h] = next /\ req'[h] = request
      /\ \A g \in Handlers \ {h} : pc'[g] = pc[g] /\ req'[g] = req[g]
  BY <1>1 DEF Turns, Goto, Shape
<1>3. ShapeOfHandlers'
  BY <1>1 DEF Turns, Goto, Shape, ShapeOfHandlers
<1>4. HoldsOwn(h)'
  BY <1>1, <1>2 DEF HoldsOwn
<1> QED
  BY <1>2, <1>3, <1>4 DEF OthersKept, HandlerKept

(* The seeder has dealt with all users before its next one.                *)
LEMMA SeedNextFits ==
    ASSUME SessionsInv, NEW h \in Handlers, NEW i \in 1..Len(Seeds) + 1, SeedNext(h, i),
           SeedsTaken(i)', TablesGrow, UNCHANGED holder, pc[h] \notin Rotating
    PROVE  /\ OthersKept(h) /\ HandlerFits(h)' /\ ShapeOfHandlers'
           /\ pc'[h] \in {"idle", "SeedCount"}
           /\ seeded' \in BOOLEAN /\ SeededUsersExist'
<1>0. Len(Seeds) \in Nat
  BY SeedsAssumption
<1>1. CASE i > Len(Seeds)
  <2>1. Answer(h) /\ seeded' = TRUE
    BY <1>0, <1>1 DEF SeedNext
  <2>2. SeededUsersExist'
    BY <1>0, <1>1 DEF SeededUsersExist, SeedsTaken
  <2> QED BY <2>1, <2>2, AnswerFits
<1>2. CASE i <= Len(Seeds)
  <2> DEFINE request == [id |-> NoUser, email |-> Seeds[i].email,
                         role |-> Seeds[i].role, seed |-> i]
  <2>1. i \in 1..Len(Seeds) /\ Seeds[i] \in User
    BY <1>0, <1>2, SeedsAssumption
  <2>2. /\ request \in Registration /\ request.seed = i
        /\ request.email = Seeds[i].email
    BY <1>0, <2>1 DEF Registration, User
  <2>3. Turns(h, "SeedCount", request) /\ UNCHANGED seeded
    BY <1>0, <1>2 DEF SeedNext, Turns
  <2> HIDE DEF request
  <2>4. /\ OthersKept(h) /\ ShapeOfHandlers' /\ HoldsOwn(h)'
        /\ pc'[h] = "SeedCount" /\ req'[h] = request
    BY <2>3, GotoFits
  <2>5. HandlerFits(h)'
    BY <2>2, <2>4 DEF HandlerFits, RequestFits, HandlerKnows
  <2>6. SeededUsersExist'
    BY <2>3, TakenStays DEF SessionsInv, SeededUsersExist
  <2> QED BY <2>3, <2>4, <2>5, <2>6 DEF SessionsInv, Shape
<1> QED BY <1>0, <1>1, <1>2

-----------------------------------------------------------------------------
(* Registration and the seeder. *)

LEMMA RegisterKeeps ==
    ASSUME SessionsInv, NEW h \in Handlers, NEW email \in Emails,
           NEW role \in BalanceRoles, Register(h, email, role), UNCHANGED sessionVars
    PROVE  SessionsInv'
<1> DEFINE request == [id |-> NoUser, email |-> email, role |-> role, seed |-> 0]
<1>1. request \in Registration /\ request.seed = 0
  BY SeedsAssumption DEF Registration, Roles
<1>2. /\ Turns(h, "UserCreate", request) /\ pc[h] = "idle"
      /\ UNCHANGED <<users, balances, sessions, now, successors, seeded, holder>>
  BY DEF Register, accountVars, sessionVars, Turns
<1> HIDE DEF request
<1>3. /\ OthersKept(h) /\ ShapeOfHandlers' /\ HoldsOwn(h)'
      /\ pc'[h] = "UserCreate" /\ req'[h] = request
  BY <1>2, GotoFits
<1>4. HandlerFits(h)'
  BY <1>1, <1>3 DEF HandlerFits, RequestFits, HandlerKnows
<1>5. seeded' \in BOOLEAN /\ SeededUsersExist'
  BY <1>2 DEF SessionsInv, Shape, SeededUsersExist, EmailTaken
<1> QED
  BY <1>2, <1>3, <1>4, <1>5, MoveKeeps DEF InsertsDiffer, LocksDiffer

LEMMA SeederKeeps ==
    ASSUME SessionsInv, NEW h \in Handlers, NEW i \in 1..Len(Seeds) + 1, SeedNext(h, i),
           SeedsTaken(i), pc[h] \notin Rotating,
           UNCHANGED <<users, balances, sessions, now, successors, holder>>
    PROVE  SessionsInv'
<1>1. TablesGrow /\ SeedsTaken(i)'
  BY DEF TablesGrow, Stored, SeedsTaken, EmailTaken
<1> QED
  BY <1>1, SeedNextFits, MoveKeeps DEF InsertsDiffer, LocksDiffer

LEMMA SeedKeeps ==
    ASSUME SessionsInv, NEW h \in Handlers, Seed(h) \/ SeedCount(h), UNCHANGED sessionVars
    PROVE  SessionsInv'
<1>0. Len(Seeds) \in Nat
  BY SeedsAssumption
<1>1. CASE Seed(h)
  <2>1. SeedsTaken(1)
    BY <1>0 DEF SeedsTaken
  <2> QED BY <1>0, <1>1, <2>1, SeederKeeps DEF Seed, sessionVars
<1>2. CASE SeedCount(h)
  <2> DEFINE n == req[h].seed
  <2>1. /\ pc[h] = "SeedCount" /\ req[h] \in Registration /\ n \in 1..Len(Seeds)
        /\ req[h].email = Seeds[n].email /\ SeedsTaken(n)
        /\ UNCHANGED <<users, balances, sessions, now, successors, holder>>
    BY <1>0, <1>2 DEF SeedCount, SessionsInv, HandlerFits, RequestFits, HandlerKnows,
       Registration, sessionVars
  <2>2. CASE EmailTaken(req[h].email) /\ SeedNext(h, n + 1)
    <3>1. SeedsTaken(n + 1)
      BY <1>0, <2>1, <2>2 DEF SeedsTaken
    <3> HIDE DEF n
    <3> QED BY <1>0, <2>1, <2>2, <3>1, SeederKeeps
  <2>3. CASE Goto(h, "UserCreate") /\ UNCHANGED <<req, seeded>>
    <3>1. Turns(h, "UserCreate", req[h])
      BY <2>3 DEF Turns
    <3>2. /\ OthersKept(h) /\ ShapeOfHandlers' /\ HoldsOwn(h)'
          /\ pc'[h] = "UserCreate" /\ req'[h] = req[h]
      BY <2>1, <3>1, GotoFits
    <3>3. HandlerFits(h)'
      BY <2>1, <3>2 DEF HandlerFits, RequestFits, HandlerKnows, SeedsTaken, EmailTaken
    <3>4. seeded' \in BOOLEAN /\ SeededUsersExist'
      BY <2>1, <2>3 DEF SessionsInv, Shape, SeededUsersExist, EmailTaken
    <3> QED
      BY <2>1, <3>2, <3>3, <3>4, MoveKeeps DEF InsertsDiffer, LocksDiffer
  <2> QED BY <1>2, <2>2, <2>3 DEF SeedCount
<1> QED BY <1>1, <1>2

LEMMA UserCreateKeeps ==
    ASSUME SessionsInv, NEW h \in Handlers, UserCreate(h), UNCHANGED sessionVars
    PROVE  SessionsInv'
<1>1. /\ pc[h] = "UserCreate" /\ req[h] \in Registration
      /\ req[h].seed > 0 =>
           req[h].email = Seeds[req[h].seed].email /\ SeedsTaken(req[h].seed)
      /\ UNCHANGED <<users, balances, sessions, now, successors, holder>>
  BY DEF UserCreate, SessionsInv, HandlerFits, RequestFits, HandlerKnows, sessionVars
<1>2. seeded' = seeded
  BY DEF UserCreate, Fail
<1>3. seeded' \in BOOLEAN /\ SeededUsersExist'
  BY <1>1, <1>2 DEF SessionsInv, Shape, SeededUsersExist, EmailTaken
<1>4. CASE Fail(h)
  <2>1. Answer(h)
    BY <1>4 DEF Fail
  <2> QED
    BY <1>1, <1>3, <2>1, AnswerFits, MoveKeeps DEF InsertsDiffer, LocksDiffer
<1>5. CASE ~Fail(h)
  <2>1. PICK u \in UserIds : FreshUser(u) /\ req' = [req EXCEPT ![h].id = u]
    BY <1>5 DEF UserCreate
  <2>2. PICK request \in Registration :
          /\ request.id = u /\ request.email = req[h].email
          /\ request.seed = req[h].seed /\ req' = [req EXCEPT ![h] = request]
    <3> DEFINE r == [req[h] EXCEPT !.id = u]
    <3>1. /\ r \in Registration /\ r.id = u /\ r.email = req[h].email
          /\ r.seed = req[h].seed /\ req' = [req EXCEPT ![h] = r]
      BY <1>1, <2>1 DEF Registration
    <3> HIDE DEF r
    <3> QED BY <3>1
  <2>3. PICK next \in InsertedUser : Goto(h, next)
    BY <1>5 DEF UserCreate
  <2>4. ~EmailTaken(req[h].email) /\ ~EmailPending(h) /\ users[u] = NoUser
    BY <1>5, <2>1 DEF UserCreate, UniqueViolation, FreshUser
  <2>5. Turns(h, next, request)
    BY <2>2, <2>3 DEF Turns
  <2>6. CASE next = "BalanceCreate" \/ next = "RegisterCommit"
    <3>1. /\ OthersKept(h) /\ ShapeOfHandlers' /\ HoldsOwn(h)'
          /\ pc'[h] = next /\ req'[h] = request
      BY <1>1, <2>5, <2>6, GotoFits
    <3>2. ~EmailTaken(request.email)' /\ users'[u] = NoUser
      BY <1>1, <2>2, <2>4 DEF EmailTaken
    <3>3. request.seed > 0 =>
            request.email = Seeds[request.seed].email /\ SeedsTaken(request.seed)'
      BY <1>1, <2>2 DEF SeedsTaken, EmailTaken
    <3>4. HandlerFits(h)'
      BY <2>2, <2>6, <3>1, <3>2, <3>3 DEF HandlerFits, RequestFits, HandlerKnows
    <3>5. \A g \in Handlers \ {h} : InsertsDiffer(g, h)' /\ LocksDiffer(g, h)'
      BY <2>1, <2>2, <2>4, <2>6, <3>1 DEF FreshUser, EmailPending, InsertsDiffer,
         LocksDiffer, OthersKept, HandlerKept
    <3> QED BY <1>1, <1>3, <3>1, <3>4, <3>5, MoveKeeps
  <2> QED BY <2>6
<1> QED BY <1>4, <1>5

LEMMA BalanceCreateKeeps ==
    ASSUME SessionsInv, NEW h \in Handlers, BalanceCreate(h), UNCHANGED sessionVars
    PROVE  SessionsInv'
<1>1. /\ pc[h] = "BalanceCreate" /\ HandlerFits(h) /\ Turns(h, "RegisterCommit", req[h])
      /\ UNCHANGED <<users, balances, sessions, now, successors, holder, seeded, req>>
  BY DEF BalanceCreate, SessionsInv, accountVars, sessionVars, Turns
<1>2. /\ OthersKept(h) /\ ShapeOfHandlers' /\ HoldsOwn(h)'
      /\ pc'[h] = "RegisterCommit" /\ req'[h] = req[h]
  BY <1>1, GotoFits
<1>3. HandlerFits(h)'
  BY <1>1, <1>2 DEF HandlerFits, RequestFits, HandlerKnows, SeedsTaken, EmailTaken
<1>4. \A g \in Handlers \ {h} : InsertsDiffer(g, h)' /\ LocksDiffer(g, h)'
  BY <1>1, <1>2 DEF SessionsInv, InsertsDiffer, LocksDiffer, OthersKept, HandlerKept
<1>5. seeded' \in BOOLEAN /\ SeededUsersExist'
  BY <1>1 DEF SessionsInv, Shape, SeededUsersExist, EmailTaken
<1> QED BY <1>1, <1>2, <1>3, <1>4, <1>5, MoveKeeps

(* The commit publishes the user and, with a balance role, its balance row. *)
LEMMA RegisterCommitKeeps ==
    ASSUME SessionsInv, NEW h \in Handlers, RegisterCommit(h), UNCHANGED sessionVars
    PROVE  SessionsInv'
<1> DEFINE id == req[h].id
           email == req[h].email
           row == CreatedUser(h)
<1>0. Len(Seeds) \in Nat
  BY SeedsAssumption
<1>a. PICK n \in 0..Len(Seeds) : n = req[h].seed
  BY DEF RegisterCommit, SessionsInv, HandlerFits, RequestFits, Registration
<1>1. /\ pc[h] = "RegisterCommit" /\ req[h] \in Registration
      /\ UNCHANGED <<sessions, now, successors, holder>>
      /\ users' = [users EXCEPT ![id] = row]
      /\ id \in UserIds /\ users[id] = NoUser /\ ~EmailTaken(email)
      /\ n > 0 => email = Seeds[n].email /\ SeedsTaken(n)
  BY <1>a DEF RegisterCommit, sessionVars, SessionsInv, HandlerFits, RequestFits, HandlerKnows,
     Registration
<1>2. row \in User /\ row # NoUser /\ row.email = email /\ row.role = req[h].role
  BY <1>1, NoUserAssumption DEF CreatedUser, User, Registration
<1> HIDE DEF row
<1>3. /\ users' \in [UserIds -> User \cup {NoUser}] /\ users'[id] = row
      /\ \A u \in UserIds \ {id} : users'[u] = users[u]
  BY <1>1, <1>2 DEF SessionsInv, Shape
<1>4. /\ balances' \in [BalanceRoles -> SUBSET UserIds]
      /\ \A role \in BalanceRoles :
           balances'[role] = IF role = req[h].role THEN balances[role] \cup {id}
                             ELSE balances[role]
  BY <1>1 DEF RegisterCommit, SessionsInv, Shape
<1>5. TablesGrow
  BY <1>1, <1>3, <1>4 DEF TablesGrow, Stored
<1>6. OneUserPerEmail' /\ UsersHaveBalances'
  <2>1. OneUserPerEmail'
    BY <1>1, <1>2, <1>3 DEF SessionsInv, OneUserPerEmail, EmailTaken
  <2>2. UsersHaveBalances'
    BY <1>1, <1>2, <1>3, <1>4 DEF SessionsInv, UsersHaveBalances
  <2> QED BY <2>1, <2>2
<1>7. SessionsHaveUsers' /\ SuccessorsFit'
  BY <1>1, <1>5 DEF SessionsInv, SessionsHaveUsers, SuccessorsFit, TablesGrow, Stored,
     Registered
<1>8. /\ OthersKept(h) /\ HandlerFits(h)' /\ ShapeOfHandlers'
      /\ pc'[h] \in {"idle", "SeedCount"} /\ seeded' \in BOOLEAN /\ SeededUsersExist'
  <2>1. CASE n > 0
    <3>1. \A i \in 1..Len(Seeds) : EmailTaken(Seeds[i].email) => EmailTaken(Seeds[i].email)'
      BY <1>5, TakenStays
    <3>2. EmailTaken(Seeds[n].email)'
      BY <1>1, <1>2, <1>3, <2>1 DEF EmailTaken
    <3>3. SeedsTaken(n + 1)'
      BY <1>0, <1>1, <2>1, <3>1, <3>2 DEF SeedsTaken
    <3>4. SeedNext(h, n + 1)
      BY <1>a, <2>1 DEF RegisterCommit, Created
    <3>5. n + 1 \in 1..Len(Seeds) + 1
      BY <1>0, <1>1, <2>1
    <3> QED BY <1>1, <1>5, <3>3, <3>4, <3>5, SeedNextFits
  <2>2. CASE n = 0
    <3>1. Answer(h) /\ UNCHANGED seeded
      BY <1>a, <2>2 DEF RegisterCommit, Created
    <3>2. SeededUsersExist' /\ seeded' \in BOOLEAN
      BY <1>5, <3>1, TakenStays DEF SessionsInv, Shape, SeededUsersExist
    <3>3. HandlerFits(h)' /\ OthersKept(h) /\ ShapeOfHandlers' /\ pc'[h] = "idle"
      BY <1>1, <3>1, AnswerFits
    <3> QED BY <3>2, <3>3
  <2> QED BY <1>0, <1>1, <2>1, <2>2
<1>9. \A g \in Handlers : HandlerFits(g)'
  <2> SUFFICES ASSUME NEW g \in Handlers \ {h}  PROVE HandlerFits(g)'
    BY <1>8
  <2>1. pc[g] \in InsertedUser =>
          users'[req[g].id] = NoUser /\ ~EmailTaken(req[g].email)'
    <3> SUFFICES ASSUME pc[g] \in InsertedUser
                 PROVE  users'[req[g].id] = NoUser /\ ~EmailTaken(req[g].email)'
      OBVIOUS
    <3>1. /\ req[g].id \in UserIds \ {id} /\ req[g].email # email
          /\ users[req[g].id] = NoUser /\ ~EmailTaken(req[g].email)
      BY <1>1 DEF SessionsInv, HandlerFits, HandlerKnows, InsertsDiffer
    <3>2. req'[g].email = req[g].email
      BY <1>8 DEF OthersKept, HandlerKept
    <3> QED BY <1>2, <1>3, <3>1, <3>2 DEF EmailTaken
  <2> QED BY <1>5, <1>8, <2>1, HandlerStays DEF OthersKept
<1>10. \A f, g \in Handlers : f # g => InsertsDiffer(f, g)' /\ LocksDiffer(f, g)'
  BY <1>8, OthersDiffer DEF InsertsDiffer, LocksDiffer
<1>11. Shape'
  BY <1>1, <1>3, <1>4, <1>8 DEF SessionsInv, Shape, ShapeOfHandlers
<1> QED BY <1>6, <1>7, <1>8, <1>9, <1>10, <1>11 DEF SessionsInv

-----------------------------------------------------------------------------
(* Login, rotation, and requests with an access token. *)

LEMMA NewSessionFits ==
    ASSUME SessionsInv, NEW user \in UserIds, NEW token \in Tokens
    PROVE  /\ NewSession(user, token) \in Session
           /\ NewSession(user, token) # NoSession
           /\ NewSession(user, token).user = user
<1>1. now + Lifetime \in Nat
  BY LifetimeAssumption DEF SessionsInv, Shape
<1>2. NewSession(user, token) \in Session
  BY <1>1 DEF NewSession, Session
<1>3. NewSession(user, token).user = user
  BY DEF NewSession
<1> QED BY <1>2, <1>3, NoSessionAssumption

(* A step that changes sessions only and keeps every handler but h.        *)
LEMMA StoreKeeps ==
    ASSUME SessionsInv, TablesGrow, Shape', SessionsHaveUsers', SuccessorsFit',
           \A g \in Handlers : HandlerFits(g)' \/ HandlerKept(g),
           \A f, g \in Handlers : f # g => InsertsDiffer(f, g)' /\ LocksDiffer(f, g)',
           UNCHANGED accountVars
    PROVE  SessionsInv'
<1>1. \A g \in Handlers : HandlerFits(g)'
  <2> SUFFICES ASSUME NEW g \in Handlers, HandlerKept(g)  PROVE HandlerFits(g)'
    OBVIOUS
  <2>1. pc[g] \in InsertedUser =>
          users'[req[g].id] = NoUser /\ ~EmailTaken(req[g].email)'
    BY DEF SessionsInv, HandlerFits, HandlerKnows, EmailTaken, HandlerKept, accountVars
  <2> QED BY <2>1, HandlerStays
<1>2. OneUserPerEmail' /\ UsersHaveBalances' /\ SeededUsersExist'
  BY DEF SessionsInv, OneUserPerEmail, UsersHaveBalances, SeededUsersExist, EmailTaken,
     accountVars
<1> QED BY <1>1, <1>2 DEF SessionsInv

LEMMA LoginKeeps ==
    ASSUME SessionsInv, NEW user \in UserIds, NEW s \in SessionIds, Login(user, s)
    PROVE  SessionsInv'
<1>1. /\ UNCHANGED <<accountVars, holder, now, pc, req, successors>>
      /\ user \in Registered /\ s \notin Stored
  BY DEF Login
<1>2. PICK row \in Session :
        /\ row # NoSession /\ row.user = user
        /\ sessions' = [sessions EXCEPT ![s] = row]
  <2>1. <<user, now>> \in Tokens
    BY DEF SessionsInv, Shape, Tokens
  <2> QED BY <2>1, NewSessionFits DEF Login
<1>3. /\ sessions' \in [SessionIds -> Session \cup {NoSession}] /\ sessions'[s] = row
      /\ \A r \in SessionIds \ {s} : sessions'[r] = sessions[r]
  BY <1>2 DEF SessionsInv, Shape
<1>4. TablesGrow
  BY <1>1, <1>3 DEF TablesGrow, Stored, accountVars
<1>5. Shape'
  BY <1>1, <1>3 DEF SessionsInv, Shape, accountVars
<1>6. Stored' = Stored \cup {s} /\ Registered' = Registered
  BY <1>1, <1>2, <1>3 DEF Stored, Registered, accountVars
<1>7. SessionsHaveUsers' /\ SuccessorsFit'
  <2>1. SessionsHaveUsers'
    BY <1>1, <1>2, <1>3, <1>6 DEF SessionsInv, SessionsHaveUsers, Stored
  <2>2. SuccessorsFit'
    BY <1>1, <1>3, <1>6 DEF SessionsInv, SuccessorsFit
  <2> QED BY <2>1, <2>2
<1>8. \A g \in Handlers : HandlerKept(g)
  BY <1>1 DEF HandlerKept
<1>9. \A f, g \in Handlers : f # g => InsertsDiffer(f, g)' /\ LocksDiffer(f, g)'
  BY <1>1 DEF SessionsInv, InsertsDiffer, LocksDiffer
<1> QED BY <1>1, <1>4, <1>5, <1>7, <1>8, <1>9, StoreKeeps

LEMMA RefreshTokenKeeps ==
    ASSUME SessionsInv, NEW h \in Handlers, NEW token \in Tokens, RefreshToken(h, token)
    PROVE  SessionsInv'
<1>1. /\ pc[h] = "idle"
      /\ UNCHANGED <<users, balances, sessions, now, successors, seeded, holder>>
      /\ Stored' = Stored /\ Registered' = Registered
  BY DEF RefreshToken, accountVars, Stored, Registered
<1>2. PICK request \in Refresh :
        /\ Turns(h, "BlockSession", request)
        /\ request.session \in Stored /\ request.user \in Registered
  <2>1. PICK s \in Stored :
          req' = [req EXCEPT ![h] = [session |-> s, user |-> sessions[s].user,
                                     token |-> <<sessions[s].user, now>>]]
    BY DEF RefreshToken, GetSessionByRefreshToken
  <2>2. sessions[s].user \in Registered
    BY DEF SessionsInv, SessionsHaveUsers
  <2> DEFINE r == [session |-> s, user |-> sessions[s].user,
                   token |-> <<sessions[s].user, now>>]
  <2>3. /\ r \in Refresh /\ r.session \in Stored /\ r.user \in Registered
        /\ req' = [req EXCEPT ![h] = r]
    BY <2>1, <2>2 DEF SessionsInv, Shape, Refresh, Tokens, Stored, Registered
  <2> HIDE DEF r
  <2> QED BY <2>3 DEF RefreshToken, Turns
<1>3. /\ OthersKept(h) /\ ShapeOfHandlers' /\ HoldsOwn(h)'
      /\ pc'[h] = "BlockSession" /\ req'[h] = request
  BY <1>1, <1>2, GotoFits
<1>4. HandlerFits(h)'
  BY <1>1, <1>2, <1>3 DEF HandlerFits, RequestFits, HandlerKnows
<1>5. seeded' \in BOOLEAN /\ SeededUsersExist'
  BY <1>1 DEF SessionsInv, Shape, SeededUsersExist, EmailTaken
<1> QED
  BY <1>1, <1>3, <1>4, <1>5, MoveKeeps DEF InsertsDiffer, LocksDiffer

(* The row lock is granted only while no other handler has it.             *)
LEMMA BlockSessionKeeps ==
    ASSUME SessionsInv, NEW h \in Handlers, BlockSession(h)
    PROVE  SessionsInv'
<1>1. /\ pc[h] = "BlockSession" /\ HandlerFits(h) /\ Shape
      /\ UNCHANGED <<users, balances, sessions, now, successors, seeded, req>>
      /\ Stored' = Stored /\ Registered' = Registered
  BY DEF BlockSession, SessionsInv, accountVars, Stored, Registered
<1>2. PICK s \in SessionIds :
        /\ s = req[h].session /\ holder[s] = {} /\ holder' = [holder EXCEPT ![s] = {h}]
  BY <1>1 DEF BlockSession, HandlerFits, RequestFits, Refresh
<1>3. /\ pc'[h] = "RefreshCommit" /\ req'[h] = req[h]
      /\ \A g \in Handlers \ {h} : pc'[g] = pc[g] /\ req'[g] = req[g]
      /\ pc' \in [Handlers -> Statements]
  BY <1>1 DEF BlockSession, Goto, Shape
<1>4. /\ holder' \in [SessionIds -> SUBSET Handlers] /\ holder'[s] = {h}
      /\ \A t \in SessionIds \ {s} : holder'[t] = holder[t]
  BY <1>1, <1>2 DEF Shape
<1>5. OthersKept(h) /\ ShapeOfHandlers'
  BY <1>1, <1>2, <1>3, <1>4 DEF OthersKept, HandlerKept, ShapeOfHandlers, Shape
<1>6. HandlerFits(h)'
  <2>1. RequestFits(h)' /\ HandlerKnows(h)'
    BY <1>1, <1>3 DEF HandlerFits, RequestFits, HandlerKnows
  <2>2. HoldsOwn(h)'
    BY <1>1, <1>2, <1>3, <1>4 DEF HandlerFits, HoldsOwn
  <2> QED BY <2>1, <2>2 DEF HandlerFits
<1>7. \A g \in Handlers \ {h} : InsertsDiffer(g, h)' /\ LocksDiffer(g, h)'
  BY <1>2, <1>3 DEF SessionsInv, HandlerFits, HoldsOwn, InsertsDiffer, LocksDiffer
<1>8. seeded' \in BOOLEAN /\ SeededUsersExist'
  BY <1>1 DEF Shape, SessionsInv, SeededUsersExist, EmailTaken
<1> QED BY <1>1, <1>5, <1>6, <1>7, <1>8, MoveKeeps

(* The old session is blocked and its successor stored in one step.        *)
LEMMA RefreshCommitKeeps ==
    ASSUME SessionsInv, NEW h \in Handlers, RefreshCommit(h)
    PROVE  SessionsInv'
<1>1. /\ pc[h] = "RefreshCommit" /\ HandlerFits(h) /\ Shape
      /\ UNCHANGED accountVars /\ UNCHANGED now /\ Answer(h) /\ Release(h)
      /\ req[h] \in Refresh
  BY DEF RefreshCommit, SessionsInv, Return, HandlerFits, RequestFits
<1>2. PICK s \in Stored, new \in SessionIds \ Stored :
        /\ s = req[h].session
        /\ sessions' = [sessions EXCEPT ![new] = NewSession(req[h].user, req[h].token),
                                        ![s].is_blocked = TRUE]
        /\ successors' = [successors EXCEPT ![s] = @ \cup {new}]
  BY <1>1 DEF RefreshCommit, HandlerFits, HandlerKnows
<1>3. PICK row \in Session :
        /\ row # NoSession /\ row.user \in Registered
        /\ row = NewSession(req[h].user, req[h].token)
  BY <1>1, NewSessionFits DEF HandlerFits, HandlerKnows, Refresh
<1>4. PICK blocked \in Session :
        /\ blocked # NoSession /\ blocked = [sessions[s] EXCEPT !.is_blocked = TRUE]
        /\ blocked.is_blocked = TRUE /\ blocked.user \in Registered
  <2> DEFINE b == [sessions[s] EXCEPT !.is_blocked = TRUE]
  <2>1. sessions[s] \in Session /\ sessions[s].user \in Registered
    BY <1>1 DEF Shape, Stored, SessionsInv, SessionsHaveUsers
  <2>2. b \in Session /\ b.is_blocked = TRUE /\ b.user \in Registered
    BY <2>1 DEF Session
  <2> HIDE DEF b
  <2>3. b = [sessions[s] EXCEPT !.is_blocked = TRUE]
    BY DEF b
  <2> QED BY <2>2, <2>3, NoSessionAssumption
<1>5. /\ sessions' \in [SessionIds -> Session \cup {NoSession}]
      /\ sessions'[new] = row /\ sessions'[s] = blocked /\ s # new
      /\ \A t \in SessionIds \ {s, new} : sessions'[t] = sessions[t]
  <2>1. s \in SessionIds /\ s # new
    BY DEF Stored
  <2>2. sessions' = [sessions EXCEPT ![new] = row, ![s] = blocked]
    BY <1>1, <1>2, <1>3, <1>4, <2>1 DEF Shape
  <2> QED BY <1>1, <2>1, <2>2 DEF Shape
<1>6. /\ successors' \in [SessionIds -> SUBSET SessionIds]
      /\ \A t \in SessionIds \ {s} : successors'[t] = successors[t]
  BY <1>1, <1>2 DEF Shape
<1>7. /\ Stored' = Stored \cup {new} /\ Registered' = Registered
      /\ \A t \in Stored \ {s} : sessions'[t] = sessions[t]
  BY <1>1, <1>3, <1>4, <1>5 DEF Stored, Registered, accountVars
<1>8. TablesGrow
  BY <1>1, <1>7 DEF TablesGrow, Stored, accountVars
<1>9. /\ OthersKept(h) /\ HandlerFits(h)' /\ ShapeOfHandlers' /\ pc'[h] = "idle"
  BY <1>1, AnswerFits
<1>10. Shape'
  BY <1>1, <1>5, <1>6, <1>9 DEF Shape, ShapeOfHandlers, accountVars
<1>11. SessionsHaveUsers'
  <2> SUFFICES ASSUME NEW t \in Stored'  PROVE sessions'[t].user \in Registered
    BY <1>7 DEF SessionsHaveUsers
  <2> QED BY <1>3, <1>4, <1>5, <1>7 DEF SessionsInv, SessionsHaveUsers
<1>12. SuccessorsFit'
  <2> SUFFICES ASSUME NEW t \in SessionIds, successors'[t] # {}
               PROVE  t \in Stored' /\ sessions'[t].is_blocked
    BY DEF SuccessorsFit
  <2>1. CASE t = s
    BY <1>4, <1>5, <1>7, <2>1
  <2>2. CASE t # s
    BY <1>6, <1>7, <2>2 DEF SessionsInv, SuccessorsFit
  <2> QED BY <2>1, <2>2
<1>13. \A f, g \in Handlers : f # g => InsertsDiffer(f, g)' /\ LocksDiffer(f, g)'
  BY <1>9, OthersDiffer DEF InsertsDiffer, LocksDiffer
<1> QED
  BY <1>1, <1>8, <1>9, <1>10, <1>11, <1>12, <1>13, StoreKeeps DEF OthersKept

(* The role in the token is that of a user whose balance row is there.     *)
LEMMA AuthenticateKeeps ==
    ASSUME SessionsInv, NEW h \in Handlers, NEW s \in SessionIds, Authenticate(h, s)
    PROVE  SessionsInv'
<1>1. /\ pc[h] = "idle" /\ s \in Stored
      /\ UNCHANGED <<users, balances, sessions, now, successors, seeded, holder>>
  BY DEF Authenticate, Authentic, accountVars
<1>2. PICK request \in Authenticated :
        /\ Turns(h, "GetBalance", request)
        /\ request.role \in BalanceRoles => request.user \in balances[request.role]
  <2>1. PICK u \in Registered : u = sessions[s].user
    BY <1>1 DEF SessionsInv, SessionsHaveUsers
  <2>2. u \in UserIds /\ users[u] # NoUser /\ users[u] \in User
    BY <2>1 DEF SessionsInv, Shape, Registered
  <2> DEFINE r == [user |-> u, role |-> users[u].role]
  <2>3. r \in Authenticated /\ r.user = u /\ r.role = users[u].role
    BY <2>2 DEF User, Authenticated
  <2>4. Turns(h, "GetBalance", r)
    BY <2>1 DEF Authenticate, Turns
  <2> HIDE DEF r
  <2>5. r.role \in BalanceRoles => r.user \in balances[r.role]
    BY <2>2, <2>3 DEF SessionsInv, UsersHaveBalances
  <2> QED BY <2>3, <2>4, <2>5
<1>3. /\ OthersKept(h) /\ ShapeOfHandlers' /\ HoldsOwn(h)'
      /\ pc'[h] = "GetBalance" /\ req'[h] = request
  BY <1>1, <1>2, GotoFits
<1>4. HandlerFits(h)'
  BY <1>1, <1>2, <1>3 DEF HandlerFits, RequestFits, HandlerKnows
<1>5. seeded' \in BOOLEAN /\ SeededUsersExist'
  BY <1>1 DEF SessionsInv, Shape, SeededUsersExist, EmailTaken
<1> QED
  BY <1>1, <1>3, <1>4, <1>5, MoveKeeps DEF InsertsDiffer, LocksDiffer

LEMMA AbortKeeps ==
    ASSUME SessionsInv, NEW h \in Handlers, Abort(h) \/ GetBalance(h)
    PROVE  SessionsInv'
<1>1. /\ UNCHANGED <<users, balances, sessions, now, successors, seeded>> /\ Answer(h)
      /\ Release(h) \/ (UNCHANGED holder /\ pc[h] # "RefreshCommit")
  BY DEF Abort, GetBalance, Fail, accountVars
<1>2. /\ OthersKept(h) /\ HandlerFits(h)' /\ ShapeOfHandlers' /\ pc'[h] = "idle"
  BY <1>1, AnswerFits
<1>3. seeded' \in BOOLEAN /\ SeededUsersExist'
  BY <1>1 DEF SessionsInv, Shape, SeededUsersExist, EmailTaken
<1> QED
  BY <1>1, <1>2, <1>3, MoveKeeps DEF InsertsDiffer, LocksDiffer

LEMMA TickKeeps ==
    ASSUME SessionsInv, Tick  PROVE SessionsInv'
<1>1. UNCHANGED <<accountVars, sessions, holder, pc, req, successors>>
  BY DEF Tick
<1>2. TablesGrow /\ Stored' = Stored /\ Registered' = Registered
  BY <1>1 DEF TablesGrow, Stored, Registered, accountVars
<1>3. Shape'
  BY <1>1, LifetimeAssumption DEF Tick, SessionsInv, Shape, accountVars
<1>4. SessionsHaveUsers' /\ SuccessorsFit'
  BY <1>1, <1>2 DEF SessionsInv, SessionsHaveUsers, SuccessorsFit
<1>5. \A g \in Handlers : HandlerKept(g)
  BY <1>1 DEF HandlerKept
<1>6. \A f, g \in Handlers : f # g => InsertsDiffer(f, g)' /\ LocksDiffer(f, g)'
  BY <1>1 DEF SessionsInv, InsertsDiffer, LocksDiffer
<1> QED BY <1>1, <1>2, <1>3, <1>4, <1>5, <1>6, StoreKeeps

LEMMA SessionsInit == Init => SessionsInv
<1> SUFFICES ASSUME Init  PROVE SessionsInv
  OBVIOUS
<1>1. Stored = {}
  BY DEF Init, Stored
<1>2. Shape
  <2>1. /\ users \in [UserIds -> User \cup {NoUser}] /\ seeded \in BOOLEAN
        /\ balances \in [BalanceRoles -> SUBSET UserIds]
        /\ pc \in [Handlers -> Statements] /\ DOMAIN req = Handlers
    BY DEF Init, AccountsInit
  <2>2. /\ sessions \in [SessionIds -> Session \cup {NoSession}] /\ now \in 0..MaxTime
        /\ holder \in [SessionIds -> SUBSET Handlers]
        /\ successors \in [SessionIds -> SUBSET SessionIds]
    BY LifetimeAssumption DEF Init
  <2> QED BY <2>1, <2>2 DEF Shape
<1>3. \A h \in Handlers : HandlerFits(h)
  BY DEF Init, AccountsInit, HandlerFits, RequestFits, HoldsOwn, HandlerKnows
<1>4. \A g, h \in Handlers : g # h => InsertsDiffer(g, h) /\ LocksDiffer(g, h)
  BY DEF Init, AccountsInit, InsertsDiffer, LocksDiffer
<1>5. SessionsHaveUsers /\ SuccessorsFit
  BY <1>1 DEF Init, SessionsHaveUsers, SuccessorsFit
<1>6. OneUserPerEmail /\ SeededUsersExist /\ UsersHaveBalances
  BY DEF Init, AccountsInit, OneUserPerEmail, SeededUsersExist, UsersHaveBalances
<1> QED BY <1>2, <1>3, <1>4, <1>5, <1>6 DEF SessionsInv

LEMMA SessionsNext == SessionsInv /\ [Next]_vars => SessionsInv'
<1> SUFFICES ASSUME SessionsInv, [Next]_vars  PROVE SessionsInv'
  OBVIOUS
<1>1. CASE UNCHANGED vars
  <2>1. TablesGrow /\ Stored' = Stored /\ Registered' = Registered
    BY <1>1 DEF vars, accountVars, sessionVars, TablesGrow, Stored, Registered
  <2>2. Shape' /\ SessionsHaveUsers' /\ SuccessorsFit' /\ UNCHANGED accountVars
    BY <1>1, <2>1 DEF vars, accountVars, sessionVars, SessionsInv, Shape,
       SessionsHaveUsers, SuccessorsFit
  <2>3. \A g \in Handlers : HandlerKept(g)
    BY <1>1 DEF vars, sessionVars, HandlerKept
  <2>4. \A f, g \in Handlers : f # g => InsertsDiffer(f, g)' /\ LocksDiffer(f, g)'
    BY <1>1 DEF vars, SessionsInv, InsertsDiffer, LocksDiffer
  <2> QED BY <2>1, <2>2, <2>3, <2>4, StoreKeeps
<1>2. ASSUME NEW h \in Handlers, AccountStep(h), UNCHANGED sessionVars
      PROVE  SessionsInv'
  BY <1>2, RegisterKeeps, SeedKeeps, UserCreateKeeps, BalanceCreateKeeps,
     RegisterCommitKeeps DEF AccountStep
<1>3. ASSUME NEW user \in UserIds, NEW s \in SessionIds, Login(user, s)
      PROVE  SessionsInv'
  BY <1>3, LoginKeeps
<1>4. ASSUME NEW h \in Handlers, NEW token \in Tokens, RefreshToken(h, token)
      PROVE  SessionsInv'
  BY <1>4, RefreshTokenKeeps
<1>5. ASSUME NEW h \in Handlers, NEW s \in SessionIds, Authenticate(h, s)
      PROVE  SessionsInv'
  BY <1>5, AuthenticateKeeps
<1>6. ASSUME NEW h \in Handlers,
             BlockSession(h) \/ RefreshCommit(h) \/ GetBalance(h) \/ Abort(h)
      PROVE  SessionsInv'
  BY <1>6, BlockSessionKeeps, RefreshCommitKeeps, AbortKeeps
<1>7. CASE Tick
  BY <1>7, TickKeeps
<1> QED BY <1>1, <1>2, <1>3, <1>4, <1>5, <1>6, <1>7 DEF Next

LEMMA SessionsInvHolds == Spec => []SessionsInv
  BY SessionsInit, SessionsNext, PTL DEF Spec

-----------------------------------------------------------------------------
(* How often a session is replaced. *)

RotationsInv ==
    /\ \A s \in SessionIds : IsFiniteSet(successors[s])
    /\ RotationsBounded

LEMMA RefreshingIsFinite ==
    ASSUME NEW s
    PROVE  /\ IsFiniteSet(Refreshing(s)) /\ Cardinality(Refreshing(s)) \in Nat
           /\ Cardinality(Refreshing(s)) <= Cardinality(Handlers)
           /\ Cardinality(Handlers) \in Nat
  BY HandlersAssumption, FS_Subset, FS_CardinalityType DEF Refreshing

(* Nobody begins to replace the session and nobody has replaced it.        *)
LEMMA NoRotation ==
    ASSUME RotationsInv, NEW s \in SessionIds, successors'[s] = successors[s],
           Refreshing(s)' \subseteq Refreshing(s)
    PROVE  /\ IsFiniteSet(successors'[s])
           /\ Cardinality(successors'[s]) + Cardinality(Refreshing(s)')
                <= Cardinality(Handlers)
<1> DEFINE before == Refreshing(s)
           after == Refreshing(s)'
<1>1. IsFiniteSet(before) /\ after \subseteq before
  BY RefreshingIsFinite
<1>2. Cardinality(Handlers) \in Nat
  BY RefreshingIsFinite
<1>3. IsFiniteSet(successors[s])
  BY DEF RotationsInv
<1>4. Cardinality(successors[s]) + Cardinality(before) <= Cardinality(Handlers)
  BY DEF RotationsInv, RotationsBounded
<1> HIDE DEF before, after
<1>5. /\ Cardinality(before) \in Nat /\ Cardinality(after) \in Nat
      /\ Cardinality(after) <= Cardinality(before)
  BY <1>1, FS_Subset, FS_CardinalityType
<1>6. Cardinality(successors[s]) \in Nat
  BY <1>3, FS_CardinalityType
<1>7. Cardinality(successors[s]) + Cardinality(after) <= Cardinality(Handlers)
  BY <1>2, <1>4, <1>5, <1>6
<1> QED BY <1>3, <1>7 DEF after

LEMMA RotationsNext == SessionsInv /\ RotationsInv /\ [Next]_vars => RotationsInv'
<1> SUFFICES ASSUME SessionsInv, RotationsInv, [Next]_vars, NEW s \in SessionIds
             PROVE  /\ IsFiniteSet(successors'[s])
                    /\ Cardinality(successors'[s]) + Cardinality(Refreshing(s)')
                         <= Cardinality(Handlers)
  BY DEF RotationsInv, RotationsBounded
<1>0. /\ pc \in [Handlers -> Statements] /\ DOMAIN req = Handlers
      /\ successors \in [SessionIds -> SUBSET SessionIds]
  BY DEF SessionsInv, Shape
<1>1. ASSUME NEW h \in Handlers, NEW token \in Tokens, RefreshToken(h, token)
      PROVE  /\ IsFiniteSet(successors'[s])
             /\ Cardinality(successors'[s]) + Cardinality(Refreshing(s)')
                  <= Cardinality(Handlers)
  <2>1. PICK r \in SessionIds :
          ~sessions[r].is_blocked /\ pc'[h] = "BlockSession" /\ req'[h].session = r
    BY <1>0, <1>1 DEF RefreshToken, GetSessionByRefreshToken, Refreshable, Goto, Stored
  <2>2. /\ successors' = successors
        /\ \A g \in Handlers \ {h} : pc'[g] = pc[g] /\ req'[g] = req[g]
    BY <1>0, <1>1 DEF RefreshToken, Goto
  <2>3. CASE r = s
    <3>1. successors[s] = {}
      BY <2>1, <2>3 DEF SessionsInv, SuccessorsFit
    <3>2. Cardinality(successors'[s]) = 0 /\ IsFiniteSet(successors'[s])
      BY <2>2, <3>1, FS_EmptySet
    <3> DEFINE after == Refreshing(s)'
    <3>3. after \subseteq Handlers
      BY DEF Refreshing
    <3> HIDE DEF after
    <3>4. Cardinality(after) \in Nat /\ Cardinality(after) <= Cardinality(Handlers)
      BY <3>3, HandlersAssumption, FS_Subset, FS_CardinalityType
    <3>5. 0 + Cardinality(after) <= Cardinality(Handlers)
      BY <3>4
    <3> QED BY <3>2, <3>5 DEF after
  <2>4. CASE r # s
    <3>1. Refreshing(s)' \subseteq Refreshing(s)
      BY <2>1, <2>2, <2>4 DEF Refreshing
    <3> QED BY <2>2, <3>1, NoRotation
  <2> QED BY <2>3, <2>4
<1>2. ASSUME NEW h \in Handlers, RefreshCommit(h)
      PROVE  /\ IsFiniteSet(successors'[s])
             /\ Cardinality(successors'[s]) + Cardinality(Refreshing(s)')
                  <= Cardinality(Handlers)
  <2>1. /\ pc[h] = "RefreshCommit" /\ pc'[h] = "idle"
        /\ \A g \in Handlers \ {h} : pc'[g] = pc[g] /\ req'[g] = req[g]
    BY <1>0, <1>2 DEF RefreshCommit, Return, Answer
  <2>2. PICK new : successors' = [successors EXCEPT ![req[h].session] = @ \cup {new}]
    BY <1>2 DEF RefreshCommit
  <2>3. CASE req[h].session # s
    <3>1. successors'[s] = successors[s] /\ Refreshing(s)' \subseteq Refreshing(s)
      BY <1>0, <2>1, <2>2, <2>3 DEF Refreshing
    <3> QED BY <3>1, NoRotation
  <2>4. CASE req[h].session = s
    <3> DEFINE before == Refreshing(s)
               after == Refreshing(s)'
    <3>1. successors'[s] = successors[s] \cup {new}
      BY <1>0, <2>2, <2>4
    <3>2. h \in before /\ after = before \ {h}
      BY <1>0, <2>1, <2>4 DEF Refreshing
    <3>3. IsFiniteSet(before) /\ Cardinality(before) \in Nat /\ Cardinality(Handlers) \in Nat
      BY RefreshingIsFinite
    <3>4. /\ IsFiniteSet(successors[s])
          /\ Cardinality(successors[s]) + Cardinality(before) <= Cardinality(Handlers)
      BY DEF RotationsInv, RotationsBounded
    <3> HIDE DEF before, after
    <3>5. Cardinality(after) = Cardinality(before) - 1
      BY <3>2, <3>3, FS_RemoveElement
    <3>6. /\ IsFiniteSet(successors'[s]) /\ Cardinality(successors[s]) \in Nat
          /\ \/ Cardinality(successors'[s]) = Cardinality(successors[s]) + 1
             \/ Cardinality(successors'[s]) = Cardinality(successors[s])
      BY <3>1, <3>4, FS_AddElement, FS_CardinalityType
    <3>7. Cardinality(successors'[s]) + Cardinality(after) <= Cardinality(Handlers)
      BY <3>3, <3>4, <3>5, <3>6
    <3> QED BY <3>6, <3>7 DEF after
  <2> QED BY <2>3, <2>4
<1>3. ASSUME NEW h \in Handlers,
             AccountStep(h) \/ BlockSession(h) \/ GetBalance(h) \/ Abort(h)
                \/ \E r \in SessionIds : Authenticate(h, r),
             successors' = successors
      PROVE  successors' = successors /\ Refreshing(s)' \subseteq Refreshing(s)
  <2>1. \A g \in Handlers \ {h} : pc'[g] = pc[g] /\ req'[g] = req[g]
    <3>1. CASE AccountStep(h)
      BY <1>0, <3>1 DEF AccountStep, Register, Seed, SeedCount, SeedNext, UserCreate, Fail,
         BalanceCreate, RegisterCommit, Created, Goto, Answer
    <3>2. CASE BlockSession(h) \/ GetBalance(h) \/ Abort(h)
                  \/ \E r \in SessionIds : Authenticate(h, r)
      BY <1>0, <3>2 DEF BlockSession, GetBalance, Abort, Authenticate, Fail, Goto, Answer
    <3> QED BY <1>3, <3>1, <3>2
  <2>2. \/ pc'[h] \notin Rotating
        \/ pc[h] \in Rotating /\ req'[h] = req[h]
    <3>1. CASE AccountStep(h)
      BY <1>0, <3>1 DEF AccountStep, Register, Seed, SeedCount, SeedNext, UserCreate, Fail,
         BalanceCreate, RegisterCommit, Created, Goto, Answer
    <3>2. CASE BlockSession(h) \/ GetBalance(h) \/ Abort(h)
                  \/ \E r \in SessionIds : Authenticate(h, r)
      BY <1>0, <3>2 DEF BlockSession, GetBalance, Abort, Authenticate, Fail, Goto, Answer
    <3> QED BY <1>3, <3>1, <3>2
  <2> QED BY <1>3, <2>1, <2>2 DEF Refreshing
<1>4. ASSUME UNCHANGED <<pc, req, successors>>
      PROVE  successors' = successors /\ Refreshing(s)' \subseteq Refreshing(s)
  BY <1>4 DEF Refreshing
<1>5. \/ \E h \in Handlers, token \in Tokens : RefreshToken(h, token)
      \/ \E h \in Handlers : RefreshCommit(h)
      \/ successors' = successors /\ Refreshing(s)' \subseteq Refreshing(s)
  <2>1. CASE UNCHANGED vars
    BY <1>4, <2>1 DEF vars, sessionVars
  <2>2. CASE Next
    <3>1. ASSUME NEW h \in Handlers, AccountStep(h), UNCHANGED sessionVars
          PROVE  successors' = successors /\ Refreshing(s)' \subseteq Refreshing(s)
      BY <1>3, <3>1 DEF sessionVars
    <3>2. ASSUME NEW h \in Handlers,
                 BlockSession(h) \/ GetBalance(h) \/ Abort(h)
                    \/ \E r \in SessionIds : Authenticate(h, r)
          PROVE  successors' = successors /\ Refreshing(s)' \subseteq Refreshing(s)
      BY <1>3, <3>2 DEF BlockSession, GetBalance, Abort, Authenticate
    <3>3. ASSUME Tick \/ \E user \in UserIds, r \in SessionIds : Login(user, r)
          PROVE  successors' = successors /\ Refreshing(s)' \subseteq Refreshing(s)
      BY <1>4, <3>3 DEF Tick, Login
    <3> QED BY <2>2, <3>1, <3>2, <3>3 DEF Next
  <2> QED BY <2>1, <2>2
<1> QED BY <1>1, <1>2, <1>5, NoRotation

LEMMA RotationsInvHolds == Spec => []RotationsInv
<1>1. Init => RotationsInv
  <2> SUFFICES ASSUME Init, NEW s \in SessionIds
               PROVE  /\ IsFiniteSet(successors[s])
                      /\ Cardinality(successors[s]) + Cardinality(Refreshing(s))
                           <= Cardinality(Handlers)
    BY DEF RotationsInv, RotationsBounded
  <2>1. successors[s] = {}
    BY DEF Init
  <2>2. IsFiniteSet(successors[s]) /\ Cardinality(successors[s]) = 0
    BY <2>1, FS_EmptySet
  <2> QED BY <2>2, RefreshingIsFinite
<1> QED BY <1>1, RotationsNext, SessionsInvHolds, PTL DEF Spec

-----------------------------------------------------------------------------
(* The properties that the runs check.                                     *)

LEMMA TypesFollow == SessionsInv => TypeOK
<1> SUFFICES ASSUME SessionsInv  PROVE TypeOK
  OBVIOUS
<1>1. \A h \in Handlers :
        req[h] \in CASE pc[h] = "idle" -> {NoRequest}
                     [] pc[h] \in {"BlockSession", "RefreshCommit"} -> Refresh
                     [] pc[h] = "GetBalance" -> Authenticated
                     [] OTHER -> Registration
  BY DEF SessionsInv, Shape, HandlerFits, RequestFits
<1>2. \A h \in Handlers, s \in SessionIds :
        h \in holder[s] <=> pc[h] = "RefreshCommit" /\ req[h].session = s
  BY DEF SessionsInv, HandlerFits, HoldsOwn
<1>3. ASSUME NEW s \in SessionIds  PROVE Cardinality(holder[s]) <= 1
  <2>1. CASE holder[s] = {}
    BY <2>1, FS_EmptySet
  <2>2. ASSUME NEW h \in holder[s]  PROVE Cardinality(holder[s]) <= 1
    <3>1. holder[s] = {h}
      BY <1>2 DEF SessionsInv, Shape, LocksDiffer
    <3> QED BY <3>1, FS_Singleton
  <2> QED BY <2>1, <2>2
<1>4. \A s \in SessionIds : Cardinality(holder[s]) <= 1
  BY <1>3
<1> QED BY <1>1, <1>2, <1>4 DEF SessionsInv, Shape, TypeOK

(* Every value has its type, a request fits the statement its handler is   *)
(* at, and a session's row lock is held by the one handler that is about   *)
(* to commit its replacement: RefreshToken's transaction (auth_usecase.go).*)
THEOREM SessionsTypeCorrect == Spec => []TypeOK
  BY SessionsInvHolds, TypesFollow, PTL

(* Registrations and runs of the seeder that all found an email free never *)
(* give it to two users (users.email is UNIQUE).                           *)
THEOREM EmailsAreUnique == Spec => []OneUserPerEmail
<1>1. SessionsInv => OneUserPerEmail
  BY DEF SessionsInv
<1> QED BY <1>1, SessionsInvHolds, PTL

(* A user is never without the balance row of the user's role, and no      *)
(* balance row without its user: Register and the seeder insert both in    *)
(* one transaction.                                                        *)
THEOREM BalancesGoWithUsers == Spec => []UsersHaveBalances
<1>1. SessionsInv => UsersHaveBalances
  BY DEF SessionsInv
<1> QED BY <1>1, SessionsInvHolds, PTL

(* When a run of the seeder reports completion all of its emails have a    *)
(* user, however many runs and registrations there are beside it.          *)
THEOREM SeedingIsComplete == Spec => []SeededUsersExist
<1>1. SessionsInv => SeededUsersExist
  BY DEF SessionsInv
<1> QED BY <1>1, SessionsInvHolds, PTL

(* The balance an authentic access token asks for is there.                *)
THEOREM TokensFindBalances == Spec => []BalancesFound
<1>1. SessionsInv => BalancesFound
  BY DEF SessionsInv, HandlerFits, HandlerKnows, BalancesFound
<1> QED BY <1>1, SessionsInvHolds, PTL

(* A session that has been replaced is blocked, whenever the server stops  *)
(* and whoever else refreshes the same token.                              *)
THEOREM ReplacedStayBlocked == Spec => []ReplacedAreBlocked
<1>1. SessionsInv => ReplacedAreBlocked
  BY DEF SessionsInv, SuccessorsFit, ReplacedAreBlocked
<1> QED BY <1>1, SessionsInvHolds, PTL

(* A session is replaced at most once by each of the requests that are     *)
(* under way at a time, for any number of them: after the first            *)
(* replacement no request begins another (RefreshToken, auth_usecase.go).  *)
THEOREM RotationsAreBounded == Spec => []RotationsBounded
<1>1. RotationsInv => RotationsBounded
  BY DEF RotationsInv
<1> QED BY <1>1, RotationsInvHolds, PTL

=============================================================================
