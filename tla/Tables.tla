------------------------------- MODULE Tables -------------------------------
(***************************************************************************)
(* The committed PostgreSQL tables the money of BudgetFlow lives in, the   *)
(* request handlers (one goroutine per HTTP request) that work on them,    *)
(* and what a SQL statement inside a GORM transaction does.                *)
(*                                                                         *)
(* PostgreSQL runs every transaction at READ COMMITTED.  An UPDATE whose   *)
(* WHERE clause is false on the committed row affects no row and waits for *)
(* nobody; otherwise it takes the row lock, waiting while another          *)
(* transaction holds it, and evaluates WHERE again on the row it finds.    *)
(* Row locks are kept until COMMIT or ROLLBACK.  Each transaction of this  *)
(* program writes a row at most once, so what it wrote is published here   *)
(* by one commit step, and nothing it wrote is visible before.             *)
(***************************************************************************)
EXTENDS Integers, FiniteSets

CONSTANTS
    Managers, Employees,    \* user ids with the manager / the employee role
    Finance,                \* any user with the finance role
    Topups, Projects, Claims, Payouts,  \* the row ids each table may use
    Amounts,                \* the rupiah amounts a request may carry
    OpeningBudget,          \* budget_available of every manager at the start
    OpeningReimburse,       \* reimburse_available of every employee then
    Handlers,               \* requests being served at the same time
    NoRow, NoRequest

ASSUME FinanceAssumption == Finance \notin Managers
ASSUME AmountsAssumption == Amounts \subseteq Nat \ {0}  \* validate:"gt=0"
(* Users are stored and ids are BIGINT: there are finitely many.           *)
ASSUME RowsAssumption ==
    /\ IsFiniteSet(Employees) /\ IsFiniteSet(Topups)
    /\ IsFiniteSet(Projects) /\ IsFiniteSet(Payouts)
ASSUME OpeningAssumption == OpeningBudget \in Nat /\ OpeningReimburse \in Nat

Callers == Managers \cup {Finance}

-----------------------------------------------------------------------------
(* The rows, without the columns no balance depends on: titles, urls, time *)
(* stamps, and the fee and net amount, which are functions of the amount.  *)
(* Every balance column has CHECK (... >= 0), hence Nat.                   *)

ManagerRow  == [budget_available : Nat, budget_locked : Nat]
EmployeeRow == [reimburse_available : Nat, reimburse_locked : Nat]
TopupRow    == [manager : Managers, amount : Amounts,
                status : {"pending", "approved", "rejected"}]
ProjectRow  == [manager : Managers, claim_amount : Amounts,
                envelope_total : Amounts, envelope_remaining : Nat,
                status : {"open", "closed"}, deleted : BOOLEAN]
ClaimRow    == [project : Projects, employee : Employees,
                status : {"pending", "approved", "rejected"}]
PayoutRow   == [employee : Employees, amount : Amounts,
                status : {"pending", "completed", "failed"}]

ASSUME NoRowAssumption ==
    NoRow \notin TopupRow \cup ProjectRow \cup ClaimRow \cup PayoutRow

VARIABLES
    managers, employees, topups, projects, claims, payouts,  \* committed
    held,   \* held[h]: the row locks of the transaction handler h has open
    pc,     \* pc[h]: the statement handler h executes next
    req     \* req[h]: the request handler h serves

tables == <<managers, employees, topups, projects, claims, payouts>>
vars   == <<tables, held, pc, req>>

(* A row is locked as <<table, id>>. *)
Rows ==
    ({"budget_topups"} \X Topups) \cup ({"projects"} \X Projects)
    \cup ({"managers"} \X Managers) \cup ({"employees"} \X Employees)
    \cup ({"expense_claims"} \X Claims) \cup ({"payouts"} \X Payouts)

TablesInit ==
    /\ managers = [m \in Managers |->
                     [budget_available |-> OpeningBudget, budget_locked |-> 0]]
    /\ employees = [e \in Employees |->
                     [reimburse_available |-> OpeningReimburse,
                      reimburse_locked |-> 0]]
    /\ topups   = [t \in Topups |-> NoRow]
    /\ projects = [p \in Projects |-> NoRow]
    /\ claims   = [c \in Claims |-> NoRow]
    /\ payouts  = [y \in Payouts |-> NoRow]
    /\ held = [h \in Handlers |-> {}]
    /\ pc   = [h \in Handlers |-> "idle"]
    /\ req  = [h \in Handlers |-> NoRequest]

-----------------------------------------------------------------------------
(* What every handler is made of. *)

(* The checks before the transaction passed: next is the first statement. *)
Begin(h, request, next) ==
    /\ pc[h] = "idle"
    /\ pc'  = [pc EXCEPT ![h] = next]
    /\ req' = [req EXCEPT ![h] = request]
    /\ UNCHANGED <<tables, held>>

(* The handler answers; its transaction, if any, has ended. *)
Return(h) ==
    /\ held' = [held EXCEPT ![h] = {}]
    /\ pc'   = [pc EXCEPT ![h] = "idle"]
    /\ req'  = [req EXCEPT ![h] = NoRequest]

Rollback(h) == Return(h) /\ UNCHANGED tables

Locked(h, row) == \E g \in Handlers \ {h} : row \in held[g]

(* Fault: a statement runs on a connection of its own, so the transaction  *)
(* keeps the lock of its latest statement only.                            *)
UpdateOutsideTx(h, row, where, next) ==
    \/ /\ where
       /\ ~Locked(h, row)
       /\ held' = [held EXCEPT ![h] = {row}]
       /\ pc'   = [pc EXCEPT ![h] = next]
       /\ UNCHANGED <<tables, req>>
    \/ /\ ~where
       /\ Rollback(h)

(* An UPDATE of one row inside a transaction; where is the WHERE clause.   *)
(* No row affected makes the callback return an error: ROLLBACK.           *)
Update(h, row, where, next) ==
    \/ /\ where
       /\ ~Locked(h, row)
       /\ held' = [held EXCEPT ![h] = @ \cup {row}]
       /\ pc'   = [pc EXCEPT ![h] = next]
       /\ UNCHANGED <<tables, req>>
    \/ /\ ~where
       /\ Rollback(h)

(* The database reports an error, the client goes away and its context is  *)
(* cancelled, or the server dies: the open transaction is rolled back.     *)
Abort(h) == pc[h] # "idle" /\ Rollback(h)

=============================================================================
