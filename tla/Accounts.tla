------------------------------ MODULE Accounts ------------------------------
(***************************************************************************)
(* Registration: a check that the email is free, then one transaction that *)
(* inserts the user and the balance row of the user's role.  The seeder, a *)
(* program of its own, does the same for a list of users, one after the    *)
(* other, and stops at the first error.  PostgreSQL lets an INSERT wait    *)
(* for a transaction that has inserted the same email and refuses it when  *)
(* that one commits.  Sessions adds what the users do next.                *)
(***************************************************************************)
EXTENDS FiniteSets, Sequences, Naturals

CONSTANTS
    Emails,
    UserIds,    \* the ids the users table may hand out
    Handlers,   \* requests, and runs of the seeder, at the same time
    Seeds,      \* the users the seeder inserts
    NoUser, NoRequest

BalanceRoles == {"manager", "employee"}
Roles == BalanceRoles \cup {"finance"}
User == [email : Emails, role : Roles]

ASSUME NoUserAssumption == NoUser \notin User
ASSUME SeedsAssumption == Seeds \in Seq(User)

VARIABLES
    users,      \* committed rows of users; NoUser if there is none
    balances,   \* balances[role]: ids with a committed balance row
    seeded,     \* history: a run of the seeder has reported completion
    pc, req     \* per handler: the next statement, what it inserts

accountVars == <<users, balances, seeded>>

AccountsInit ==
    /\ users = [u \in UserIds |-> NoUser]
    /\ balances = [role \in BalanceRoles |-> {}]
    /\ seeded = FALSE
    /\ pc = [h \in Handlers |-> "idle"]
    /\ req = [h \in Handlers |-> NoRequest]

EmailTaken(email) == \E u \in UserIds : users[u] # NoUser /\ users[u].email = email

(* The request is answered; its transaction, if any, has ended.            *)
Answer(h) ==
    /\ pc' = [pc EXCEPT ![h] = "idle"]
    /\ req' = [req EXCEPT ![h] = NoRequest]

(* seed is the user's place among Seeds, 0 for one who registers.          *)
Registration == [id : UserIds \cup {NoUser}, email : Emails, role : Roles,
                 seed : 0..Len(Seeds)]

Goto(h, next) == pc' = [pc EXCEPT ![h] = next]

(* The email is free as far as FindByEmail can see.                        *)
Register(h, email, role) ==
    /\ pc[h] = "idle"
    /\ ~EmailTaken(email)
    /\ req' = [req EXCEPT ![h] = [id |-> NoUser, email |-> email, role |-> role,
                                 seed |-> 0]]
    /\ Goto(h, "UserCreate")
    /\ UNCHANGED accountVars

(* The seeder turns to the next of its users, or is done.                  *)
SeedNext(h, i) ==
    IF i > Len(Seeds)
      THEN Answer(h) /\ seeded' = TRUE
      ELSE /\ req' = [req EXCEPT ![h] = [id |-> NoUser, email |-> Seeds[i].email,
                                        role |-> Seeds[i].role, seed |-> i]]
           /\ Goto(h, "SeedCount")
           /\ UNCHANGED seeded

Seed(h) == pc[h] = "idle" /\ SeedNext(h, 1) /\ UNCHANGED <<users, balances>>

(* An email that is taken is skipped, whatever its user's role; an error   *)
(* of the query counts as one that is not.                                 *)
SeedCount(h) ==
    /\ pc[h] = "SeedCount"
    /\ UNCHANGED <<users, balances>>
    /\ \/ EmailTaken(req[h].email) /\ SeedNext(h, req[h].seed + 1)
       \/ Goto(h, "UserCreate") /\ UNCHANGED <<req, seeded>>

(* Fault: an error does not stop the seeder.                               *)
FailAndGoOn(h) ==
    IF req[h] \in Registration /\ req[h].seed > 0
      THEN SeedNext(h, req[h].seed + 1)
      ELSE Answer(h) /\ UNCHANGED seeded

(* An error: the request is answered with it, the seeder exits.            *)
Fail(h) == Answer(h) /\ UNCHANGED seeded

(* The statements after the INSERT INTO users of the same transaction.     *)
InsertedUser == {"BalanceCreate", "RegisterCommit"}

(* Another transaction has inserted the email and not ended.               *)
EmailPending(h) ==
    \E g \in Handlers \ {h} :
      /\ pc[g] \in InsertedUser
      /\ req[g].email = req[h].email

(* Fault: users.email is not unique.                                       *)
NotUnique(email) == FALSE

(* The UNIQUE constraint refuses the email.                                *)
UniqueViolation(email) == EmailTaken(email)

(* An id of the sequence that no other transaction has drawn.              *)
FreshUser(u) ==
    users[u] = NoUser /\ \A g \in Handlers : pc[g] \in InsertedUser => req[g].id # u

UserCreate(h) ==
    /\ pc[h] = "UserCreate"
    /\ ~EmailPending(h)
    /\ UNCHANGED <<users, balances>>
    /\ \/ /\ ~UniqueViolation(req[h].email)
          /\ \E u \in UserIds :
               FreshUser(u) /\ req' = [req EXCEPT ![h].id = u]
          /\ Goto(h, IF req[h].role \in BalanceRoles THEN "BalanceCreate"
                     ELSE "RegisterCommit")
          /\ UNCHANGED seeded
       \/ UniqueViolation(req[h].email) /\ Fail(h)

(* Fault: the balance row is inserted by a connection of its own.          *)
BalanceCreateOutsideTx(h) ==
    /\ pc[h] = "BalanceCreate"
    /\ balances' = [balances EXCEPT ![req[h].role] = @ \cup {req[h].id}]
    /\ Goto(h, "RegisterCommit")
    /\ UNCHANGED <<users, req, seeded>>

BalanceCreate(h) ==
    /\ pc[h] = "BalanceCreate"
    /\ Goto(h, "RegisterCommit")
    /\ UNCHANGED <<accountVars, req>>

(* The seeder turns to its next user, a registration is answered.          *)
Created(h) ==
    IF req[h].seed > 0
      THEN SeedNext(h, req[h].seed + 1)
      ELSE Answer(h) /\ UNCHANGED seeded

CreatedUser(h) == [email |-> req[h].email, role |-> req[h].role]

(* Fault: the seeder inserts no balance row.                               *)
RegisterCommitUnlessSeeding(h) ==
    /\ pc[h] = "RegisterCommit"
    /\ users' = [users EXCEPT ![req[h].id] = CreatedUser(h)]
    /\ balances' = [role \in BalanceRoles |->
                      IF role = req[h].role /\ req[h].seed = 0
                        THEN balances[role] \cup {req[h].id} ELSE balances[role]]
    /\ Created(h)

RegisterCommit(h) ==
    /\ pc[h] = "RegisterCommit"
    /\ users' = [users EXCEPT ![req[h].id] = CreatedUser(h)]
    /\ balances' = [role \in BalanceRoles |->
                      IF role = req[h].role
                        THEN balances[role] \cup {req[h].id} ELSE balances[role]]
    /\ Created(h)

AccountStep(h) ==
    \/ \E email \in Emails, role \in BalanceRoles : Register(h, email, role)
    \/ Seed(h)
    \/ SeedCount(h)
    \/ UserCreate(h)
    \/ BalanceCreate(h)
    \/ RegisterCommit(h)

-----------------------------------------------------------------------------
(* Registered names an email once although two requests may both find it   *)
(* free before either of them commits.                                     *)
OneUserPerEmail ==
    \A u, v \in UserIds :
      (u # v /\ users[u] # NoUser /\ users[v] # NoUser)
        => users[u].email # users[v].email

(* Once the seeder has reported completion every one of its emails has a   *)
(* user, although queries fail, registrations run beside it and an earlier *)
(* run may have stopped anywhere.                                          *)
SeededUsersExist == seeded => \A i \in 1..Len(Seeds) : EmailTaken(Seeds[i].email)

(* Every user has the balance row of the user's role and no other, and no  *)
(* balance row is without its user, whichever statement fails: the rows    *)
(* the operations on money rely on are there exactly when the user is.     *)
UsersHaveBalances ==
    \A u \in UserIds, role \in BalanceRoles :
      u \in balances[role] <=> users[u] # NoUser /\ users[u].role = role

=============================================================================
