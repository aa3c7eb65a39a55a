# A verification of BudgetFlow

BudgetFlow (`src/`) is a Go API (Gin, GORM, PostgreSQL) for corporate
reimbursements. Finance grants managers a budget, managers set some of it aside
in the envelopes of projects, employees claim a fixed amount per project, and
approved claims become money the employee can have paid out. This directory
holds TLA+ models of that program, the TLC runs that check them on small
instances, and TLAPS proofs of what holds for every instance.

Contents: [inventory](#1-inventory), [models](#2-how-the-models-correspond-to-the-code),
[runs](#3-the-runs), [proofs](#4-the-proofs), [divergences](#5-where-code-and-documentation-disagree),
[what is left out](#6-what-is-not-modelled), [plan](#7-plan).

## 1. Inventory

| component | state | operations | correct when |
|---|---|---|---|
| Top-ups (`usecase/topup_usecase.go`) | `budget_topups` | `CreateTopup`, `ReviewTopup` | a top-up is decided once and credited if and only if it is approved |
| Projects (`usecase/project_usecase.go`) | `projects` | `CreateProject`, `DeleteProject`, `RestoreProject`, `GetProject`, `ListProjects` | envelopes are taken from `budget_available` and no balance goes negative; nothing is spent while a project is deleted |
| Claims (`usecase/claim_usecase.go`) | `expense_claims` | `CreateClaim`, `ReviewClaim` | one claim per employee and project; approving changes four tables or none; every approval is paid from the envelope |
| Payouts (`usecase/payout_usecase.go`) | `payouts` | `CreatePayout`, `ReviewPayout` | no overdraft; no order of reviews makes money; the fee is 2.5 % rounded down |
| Balances (`repository/manager_repository.go`, `employee_repository.go`) | `managers`, `employees` | the conditional `UPDATE`s | the sums of the tables agree |
| Accounts (`usecase/auth_usecase.go`, `seeds/finance_seed.go`) | `users` | `Register`, the seeder | an email is registered once, with its balance row; a seeding that completes leaves no email out |
| Sessions (`usecase/auth_usecase.go`, `repository/session_repository.go`, `shared/token/jwt.go`) | `sessions` | `Login`, `RefreshToken`, `GetBalance` | a replaced refresh token is blocked, and blocked tokens get nowhere; an access token finds its user's balance |
| Idempotency (`middleware/idempotency.go`) | `idempotent_requests` | look up, run, save | a saved response stays and tells the truth about the tables; runs per key are bounded |
| Rate limiter (`middleware/ratelimit.go`) | a `sync.Map` of token buckets | `getLimiter`, `Allow` | an address makes a bounded number of requests per minute |
| Listing (`shared/querybuilder`, `project_handler.go`) | none | `ListProjects` | a walk over the pages misses no more than changed under it |
| Authentication and authorization (`middleware/authenticate.go`, `authorize.go`) | none | token and role checks | the right role per operation |
| Router and server (`router.go`, `cmd/api/main.go`) | up or draining | routes, graceful shutdown, restart | every accepted request ends; a server told to stop stops |
| Logging, configuration | none | | not modelled |

**How they interact.** Every HTTP request is a goroutine. A request passes the
rate limiter, the authentication and the role check, for the three reviews also the
idempotency middleware, then a handler that calls one usecase. Usecases share
nothing in memory; they meet in the PostgreSQL tables. Each reads what it needs,
checks it, and then opens one transaction of conditional `UPDATE`s (or issues one
statement). The money moves along one path:

    top-up  ->  budget_available  ->  budget_locked = sum of envelope_remaining
            ->  reimburse_available  ->  reimburse_locked  ->  completed payout

**What is hard.** The code has no lock of its own. It relies on `WHERE` clauses,
on PostgreSQL's row locks and on `UNIQUE` constraints, and most of what is read
before a transaction is stale inside it. Two reviewers of one row, competing
approvals at the end of an envelope, a project that is deleted under a review, a
failure between two of an approval's four updates, the order in which rows are
locked, a retry that overtakes its answer, a commit nobody hears of, a drain that
ends too early, a load and a store of the same map entry, a seeding that stops
half-way: `PROJECT.json` lists each hazard at its line with the properties that
would notice it going wrong.

## 2. How the models correspond to the code

| module | models | extends |
|---|---|---|
| `Tables` | the money tables, row locks, `UPDATE`, `COMMIT`, `ROLLBACK`, failure | |
| `TopupUsecase`, `ProjectUsecase`, `ClaimUsecase`, `PayoutUsecase` | the usecase of that name, one action per statement | `Tables` |
| `Ledger` | all four on the same tables, with the safety and liveness properties | the four |
| `AtomicLedger` | abstract: each operation happens at one instant | |
| `LedgerInvariant` | the inductive invariant | `Ledger` |
| `LedgerProofs` | its proof; what steps may not do, no deadlock, the refinement of `AtomicLedger`, the accounts | `LedgerInvariant`, `SumTheorems` |
| `SumTheorems` | what the sums of the module `Functions` compute | |
| `PayoutFee`, `PayoutFeeProofs` | int64 arithmetic of the payout fee, and its proof | |
| `Idempotency` | the middleware in front of a review handler | |
| `IdempotencyProofs` | its inductive invariant and what follows from it | `KeyHistory` |
| `KeyHistory` | what clients of `Idempotency` can tell | `Idempotency` |
| `ReviewApi` | the middleware in front of the ledger's reviews, all other requests, the server | `Ledger` |
| `PaymentHistory` | which key made which payment | `ReviewApi` |
| `ApiProofs` | the composition implements `Idempotency`, and replayed approvals were paid | `PaymentHistory`, `LedgerProofs` |
| `Accounts` | `Register` and the seeder | |
| `Sessions` | `AuthUsecase`: `Accounts` with `Login`, `RefreshToken` and `GetBalance` | `Accounts` |
| `SessionsProofs` | the inductive invariant of both and what follows from it | `Sessions` |
| `RateLimiter` | one address's entry of the limiter map | |
| `RateLimiterProofs` | who can make a limiter, and what the limiters admit | `RateLimiter`, `SumTheorems` |
| `Listing` | a client that walks over the project pages | |
| `ListingProofs` | what its walks can miss | `Listing` |

The `MC` modules add what TLC needs to run them: symmetry sets, and values of
constants that a `.cfg` cannot write. Names are those of the Go functions: `DecrementEnvelope(h)` is the
statement of `projectRepository.DecrementEnvelope` executed by request handler `h`.
Definitions marked `Fault:` are plausible bugs (a dropped guard, a statement on
the wrong connection). No specification uses them. Each run's properties have one
put in place of the definition that follows it, to see the property fail.

### The ledger

*State.* `managers`, `employees`, `topups`, `projects`, `claims` and `payouts` are
the committed tables. For every handler, `pc[h]` names the next SQL statement,
`req[h]` is the request with what was read before the transaction, and `held[h]`
is the set of rows its open transaction has locked.

*Requests.* `ReviewTopup(h, ...)`, `CreateProject(h, ...)` and so on are the
checks up to the first statement of the transaction. `ReviewClaim` reads the claim
and then, in a step of its own, the project (`ClaimFindProject`), as the code
does: the project may be deleted in between. `CreateTopup` is one `INSERT` and
has no further steps.

*Statements.* PostgreSQL runs at its default, READ COMMITTED. `Update(h, row,
where, next)` is an `UPDATE` inside a transaction. If `where` is false on the
committed row, no row is affected, nobody is waited for, and the callback returns
an error, so the transaction rolls back. Otherwise the statement takes the row
lock, or is not enabled while another transaction holds it and evaluates `where`
anew when it gets its turn. Locks stay until the transaction ends. Each
transaction of this program writes a row at most once and never reads a row it
wrote, so all it wrote is published by its last step (`ProjectCommit`,
`ClaimCommit`, ...), from the committed values under the locks. That these values
are still what the `WHERE` clauses saw is not assumed: `IInv` states it, and
`ImplementsAtomic` checks its consequence.

*Failure.* `Abort(h)` rolls back at any statement: a database error, a cancelled
request context, a lost connection or the death of the process, which aborts every
handler one after the other. A handler has no in-memory state that outlives it, so
a restart needs no action of its own.

*Reviews without a guard.* `TopupUpdateStatus` has `WHERE status = 'pending'`;
the statements for claims and payouts have `WHERE id = ?` alone. The model has it
so, and so does `AtomicLedger`: `ApproveClaim` does not ask for a pending claim.

*Not in the tables.* Titles, urls, reviewers, time stamps, fee and net amount do
not influence a balance. `projects.status` is there because `CreateClaim` tests
it, but no code ever closes a project. Deleting a project leaves its envelope in
`budget_locked`, for ever if it is not restored; `EnvelopesBacked` counts deleted
projects for that reason. `BIGINT` columns hold unbounded naturals here. A balance
that leaves `BIGINT` makes PostgreSQL refuse the statement, which is an `Abort`.

### The middleware and the server

*Idempotency.* The middleware's `SELECT`, the handler and the `INSERT` are separate
steps of concurrent requests. The handler behind it is reduced to a review's two
steps, reading the status (`Check`) and its transaction (`Decide`), of which only a
top-up's looks at the status again. A response is its status code. The budget
`MaxFaults` covers an unanswered `SELECT` (which the code treats as a miss), a failed
`INSERT` (ignored) and `Crash` of all handlers. `HandlerFails`, a review that ends in
another code, is not counted; with 500 it may have decided the row all the same, when
the acknowledgement of `COMMIT` was lost. `Bypass` is a review without the header.
The table's key is the header's value alone: rows never expire, and the middleware
does not compare the request with the one the key was first used for. The model's
clients use one key per review (`DESIGN.md:164` has them send a UUID).

*KeyHistory* adds two history variables, how often a key's handler ran and which
responses came back.

*ReviewApi* puts the same stages in front of the real transactions: `Keys` is an
`INSTANCE` of `Idempotency` in which `decided` is the set of rows that the ledger's
tables show as reviewed. `Receive`, `Replay`, `Miss`, `Save`, `Respond` and `Crash` are
`Idempotency`'s own. In place of `Check` stand the ledger's `ReviewTopup`,
`ReviewClaim` and `ReviewPayout`, or a refusal (`RefuseReview`), and in place of
`Decide` every statement of the transaction up to its commit, answered by what the
handler makes of its error (`Outcomes`, `Refusal`). `Direct` and `DirectStep` are all
requests without a key, on the same rows and at the same time. That the composition
is what `Idempotency` assumes of a handler is the refinement
`ImplementsIdempotency`: whatever 200, 409 or 500 a client sees has to be matched by
a change of `decided`, or by none, at the instant of the commit.

*PaymentHistory* records, at the commit of an approved claim, the key of the request
that made it (`payments`), or that it came without one. Two keys that approve one claim,
and a review without a key beside them, can so be told apart: the tables alone only show
how much was paid.

*The server* accepts requests while it is `"up"`. `Shutdown` is the signal: listeners
close. `Exit` is the end of a drain that met no open request. `Crash` is the end of
the five seconds with requests still open, or the death of the process at any time:
transactions roll back, nothing is answered, and the restarted server finds the tables
and the keys as they were committed.

### The other modules

`Accounts` has registration and the seeder as transactions of concurrent handlers. A
registration waits for a concurrent transaction that inserted the same email
(`EmailPending`) and is refused when that one commits. The seeder goes through `Seeds`
in order: it counts the email (dropping the error of the query), skips it or inserts
user and balance row in a transaction, and exits at the first error; it may be run
again, or twice at once. The role of an email that is taken is not looked at.

`Sessions` has the same handlers with a clock. A refresh token is the nanosecond
clock and the user's public id (`shared/token/jwt.go`, which announces a UUID), and
the column is not unique: `Tokens == UserIds \X (0..MaxTime)`, and two logins in
one tick share a token, of which `First` finds the session with the least id. Access
tokens are not stored, so each is a function of the session it was returned with:
`Authentic` is its signature and expiry, `Authenticate` the middleware, which takes
user and role from the token, and `GetBalance` the query that relies on them.

`RateLimiter` counts time in ticks of one token. `Load`, `Store` and `Allow` are
separate steps, so requests of a new address race to make its bucket.

`PayoutFee` parameterises the integer width: `Wrap` is two's complement overflow
and `Quotient` Go's truncating division. An amount is anything from 1 to `MaxInt`, as
`gt=0` is all that the code asks of it.

`Listing` has `COUNT` and `SELECT ... OFFSET ... LIMIT` as two steps of the walk,
between which and between whose pages projects are created, deleted, restored and
spent from. `ORDER BY` has one column: rows that tie in it come in any order, anew in
each query (`Share` says how many of the tied rows a page has, `Pages` which). Creation
times may tie like envelopes. A filter is the set of projects it matches, none of which
changes. Titles order the list like creation times: they may tie and never change. A limit
above `MaxLimit` is served as `MaxLimit` and counted as it was asked for.

No walk by offset can promise every row, so the property counts what it may lose. The
history variable `there` has the projects that were listed, and in no tie, since the walk
began. `torn` counts the changes that can push one row past the offset: a listed project
deleted, or moved by an approval, or created between a `COUNT` and its `SELECT`. `CutOff` is
the rows past the last page of a walk with too high a limit. `WalkMissesFew` says that
`there` lacks no more than these; it does not become void when the list changes.

## 3. The runs

Twelve runs; the first eight must pass, the last four must find the violation that
section 5 describes.

| run | distinct states | what it shows |
|---|---|---|
| `whole` | 640 thousand | the whole ledger, all ten operations in two handlers. `TypeOK`: no balance becomes negative, whatever payouts, top-ups and approvals race. `IInv`: the invariant of the proofs. `NoDeadlock`: lock waits never form a cycle. `BudgetAccounted`: what was granted is available or in an envelope. `EnvelopesBacked`: `budget_locked` is the sum of the envelopes. `ReimbursementsBacked`: employees never have more than envelopes released, whatever is reviewed twice. `ApprovedClaimsFunded`: every approved claim was paid from the envelope. `OneClaimPerPair`. `LockedIsPending`: an employee's locked money is covered by pending payouts. `ReviewedTopupIsFinal`. `DeletedProjectsSpendNothing`. `ImplementsAtomic`: the statements implement `AtomicLedger` |
| `api` | 93 thousand | the middleware in front of the reviews of a top-up and a payout, with keys and without, from the key's lookup to the commit, with crashes and shutdowns. `ImplementsIdempotency`: the composition implements `Idempotency`. `RequestsEnd`: every accepted request is answered, whatever the order of row locks. `ShutdownEnds` |
| `paid` | 993 thousand | manager and finance approve one claim under a key each, and everybody without one, from an envelope that can pay twice, with a fault. `SavedApprovalsArePaid`: each key that replays 200 made a payment itself, which no other key's and no review without a key stands in for, and an envelope has lost exactly its recorded payments. `ImplementsIdempotency` |
| `auth` | 589 thousand | `TypeOK`. `OneUserPerEmail`, `UsersHaveBalances`: user and balance row appear together. `SeededUsersExist`: a seeding that reported completion left no email out. `BalancesFound`: an access token finds its balance. `RotationsBounded`: an old token does not begin another rotation. `ReplacedAreBlocked`: a token and its replacement are never both good |
| `keys` | 180 thousand | `TypeOK`. `RunsBounded`: a key runs its handler at most once per concurrent request and fault. `SavedSuccessIsReal`, `SavedResponseIsFinal` |
| `rate` | 55 thousand | `AdmissionBounded`: less than two bursts per minute and racing first request |
| `fee` | 83 thousand | every amount of a 16-bit register. `FeeAddsUp`: fee and net amount add up to the amount, wrapped product or not. `FeeIsFloor`, `CompletionAllowed`, where the product with 25 fits |
| `pages` | 3.5 million | `WalkMissesFew`: in any order and under any filter, with ties and with limits above the maximum, a walk misses at most one listed project per deletion, move, or creation after a `COUNT`, and what the limit cuts off |
| `claim_twice` | violation | `ClaimPaidOnce` |
| `payout_twice` | violation | `LockedBacksPendingPayouts` |
| `keys_retry` | violation | `RetrySeesFirstResponse` |
| `rotation_once` | violation | `ReplacedOnce` |

**Bounds.** Conflicts in this program are between two requests that read the same
row before either takes effect; two handlers have every such pair, each at every
statement of the other, and `rate` has three because its race is between first
requests. A handler is reused, so a run has arbitrarily many requests as long as
rows are free. Two amounts make an envelope or a balance suffice for one request
and not for the other. `whole` opens with empty
balances and a top-up of up to 2, so two projects compete for money that may or may not have
arrived, and a project of either manager for an envelope of one or two payments. Two claims
and two payouts let a double review take what belongs to the other row. `auth` has three
sessions, enough for one to be replaced by both handlers, and a clock that goes one
tick past the lifetime of a refresh token and as far as an access token's expiry. Two
emails are the seeder's, so it can stop between them, and registrations compete for
both. `keys` has two faults, one to lose a response and one while it is repeated.
`rate` has one limiter more than handlers. `fee` has 16 bits, where every amount can be
tried, all but one in 25 of which wrap; its proof covers int64. `pages` has three projects
on pages of one or two, which makes three pages, limits up to one above `MaxLimit`,
envelopes of up to two, so that they tie, part and meet again, and two changes that tear
the walk (`MaxTears`), so that one can hit each of two page boundaries.

`api` and `paid` add the middleware to `whole`, and one row of a kind has the conflicts
between a keyed review, its retry and a review without a key. `api` has a top-up and a
payout, each of whose reviews locks two rows; the employee opens with what the payout asks
for. It counts no middleware faults, which would make its liveness
take minutes: those are in `paid` and `keys`, and requests without a key crash here too.
`paid` has a claim with the creation, deletion and restoration of its project, two keys and
a review without one, and an envelope of two payments, so two keys may each be answered 200
and each be owed a payment. It checks safety only, and so may use symmetry; a second claim
makes it too large. A claim and a payout with liveness were checked in a one-off run (293
thousand states), and `api` with one fault (225 thousand): both passed, and are left out
because they take four minutes.

**Deadlock.** TLC's own check is off (`CHECK_DEADLOCK FALSE`) except in `rate`:
a state in which all rows are used and no request is under way is a good end.
That requests do not wait for each other is `NoDeadlock` and `RequestsEnd`.

**Symmetry.** Handlers, users, emails and row ids are interchangeable: no
definition orders them. Session ids, creation times and the two seeds are ordered and not in a
symmetry set. In `pages` projects are interchangeable: what orders them is a variable.
`api` uses none, because symmetry is unsound for liveness.

**Fairness.** Only `api` assumes any (`ApiFairness`): `SF_apiVars(Serve(h))` for every
handler `h`, and `WF_apiVars(Exit)`. The Go runtime runs every goroutine that can run,
and PostgreSQL queues the waiters of a row lock, so a statement whose lock is free
again and again gets it; weak fairness would let others always be served first. A
process whose `Shutdown` found no open request ends by itself. Requests need not
arrive, `Abort`, faults, signals and crashes need not happen, and nothing says that a
crash comes after five seconds: the drain has to end without it.

## 4. The proofs

`LedgerProofs` proves, for any sets of users, rows, amounts and handlers:

* `InductiveInvariant`: `Spec => []IInv`;
* `TypeCorrect`: `Spec => []TypeOK`, and with it that no balance is ever negative:
  the database's `CHECK (... >= 0)` constraints on balances never fire.

They rest on the assumptions of `Tables`: amounts are positive naturals, opening
balances are naturals, the finance user is not a manager, and `NoRow` is not a row. The
accounts below also need the ids that sums range over to be finite sets
(`RowsAssumption`), which the rows of a database are.

`TypeOK` is not inductive: that `budget_available - envelope_total` is natural at
`ProjectCommit` depends on what `LockEnvelope` saw two steps ago. `IInv` adds why it
still holds, which is two-phase locking:

1. `HandlerFits(h)`: at each statement `h` holds exactly the locks of the statements
   before it, and the conditions of those statements are true now;
2. `LockExclusion`: no row is held twice;
3. `FreshIdsDiffer`: ids drawn by two inserting transactions differ;
4. `ClaimsHaveProjects`: a claim's project exists.

`NextKeeps` is the step of that induction. A handler's own statement moves it from one line of `HandlerFits` to the next. A
commit of another handler changes only rows that handler holds, which by
`LockExclusion` are none of `h`'s, so `h`'s conditions survive; rows it does not hold
(`SetDeleted`, `ClaimReject`) are changed only while nobody has them locked. The
proof has one lemma per kind of step: one that changes no table but takes a lock,
one that returns, and one per commit, and each is applied to the statements of its
kind.

The rest of the module builds on `Spec => []IInv`. Its common lemma is
`WritesAtCommit`: a step changes a table only if it creates a top-up or is a
handler's last.

* `TopupsDecidedOnce` (`ReviewedTopupIsFinal`): at `TopupCommit`, `HandlerFits` says
  that the top-up is pending still;
* `DeletedProjectsKeepEnvelopes` (`DeletedProjectsSpendNothing`): at `ClaimCommit` the
  project is not deleted still;
* `ClaimsAreUnique` (`OneClaimPerPair`): the one that inserts is `ClaimCreate`, whose
  `UNIQUE` constraint looks at the table it inserts into;
* `WaitsHaveNoCycle` (`NoDeadlock`): every handler waits for a row of a later table than
  all it holds (`LocksInOrder`: top-ups and projects, managers, employees, claims and
  payouts). A chain of waits climbs these four levels, so it ends; the number of handlers
  does not matter and may be infinite;
* `ApprovalsAreFunded` (`ApprovedClaimsFunded`), inductive on top of `IInv`: no commit but
  an approval's changes what was spent from a project (`MoneyStays`) or approves a claim
  (`ClaimsStay`), and an approval adds at most one claim and exactly one `claim_amount`
  (`ApprovalPays`), for which `DecrementEnvelope`'s condition holds still. `Affordable`
  counts; it needs cardinalities, not sums;
* `TransactionsAreAtomic` (`ImplementsAtomic`): every commit is the operation of
  `AtomicLedger` it is named for, its conditions being in `HandlerFits`; every other
  step is a stutter.

The accounts come last, and come from the refinement: no statement, lock or handler
appears in their proofs. Each operation of `AtomicLedger` writes one row in each of
the tables it changes, so each sum of a column changes by one term (`EnvelopesChange`,
`GivenOutChanges`, `GrantsChange`, `HoldingsChange` and so on), and what the terms gain
and lose is compared once per operation (`AccountsKept`). As every step of `Spec` is
such an operation or none (`StepsAreAtomic`), the transactions keep what it keeps:

* `BudgetIsAccounted` (`BudgetAccounted`), `EnvelopesAreBacked` (`EnvelopesBacked`),
  `ReimbursementsAreBacked` (`ReimbursementsBacked`): inductive together. The third is an
  inequality because of payouts settled twice: a second completion consumes money that it
  does not pay out, and a completed payout that is made to fail is not counted any more;
* `NoMoneyStaysLocked` (`LockedIsPending`): the half of the promise about locked money
  that double settlements leave. `payout_twice` refutes the equation; what is never true
  is that money is locked and no pending payout can release it.

`SumTheorems` has what these proofs need of `SumFunction` and `SumFunctionOnSet`: that
their recursion ends (`SumsExist`, `SumIsLast`), that the order of terms does not matter
(`SumWithout`), what changing one term changes (`SumChangesAt`), and bounds. The
library's induction theorems take an operator, which the provers here cannot
instantiate. The lemmas name the set of counterexamples instead and pick a minimal one:
strict inclusion of the subsets of a finite set is well founded (`MinimalSubset`), and
so are the naturals (`Counting`).

`PayoutFeeProofs` proves, for any width `MaxInt` and every amount up to it:

* `FeeIsAlwaysFloor` (`FeeIsFloor`): if the product with 25 fits the width, a completed
  payout's fee is the floor of 2.5 %;
* `FeeAlwaysAddsUp` (`FeeAddsUp`): fee and net amount add up to the amount even when the
  product has wrapped around. A wrapped product is at most `MaxInt`, so its thousandth is
  less than the amount, which is more than a 25th of `MaxInt` (`FeeBelowAmount`);
* `CompletionNeverRefused` (`CompletionAllowed`): where the product fits, the `CHECK`s on
  `fee` and `net_amount` never fail.

`IdempotencyProofs` proves, for any clients, rows, handlers and bound on faults, from
`KeysInv`: the types, that the row of a request is its key's (`KeysFit`), and that a
200 which is captured but not yet saved has happened (`SuccessIsReal`), without which
`SavedSuccessIsReal` would not survive `Save`:

* `KeysTypeCorrect` (`TypeOK`);
* `SuccessesAreReal` (`SavedSuccessIsReal`): rows are never undecided again, so what was
  true at the commit is true at the `INSERT` and at every replay;
* `ResponsesAreFinal` (`SavedResponseIsFinal`): only `Save` writes, and only where no
  row has the key;
* `RunsAreBounded` (`RunsBounded`), for any finite set of handlers (`HandlersAssumption`):
  until a response is saved every run of a key is under way or has cost a fault (`Cost`),
  and afterwards a run needs another fault. It is about `HistorySpec`, which counts runs
  beside the steps of `Spec`.

`ApiProofs` joins the two for any instance of `ReviewApi`, with requests without a key,
crashes and shutdowns:

* `ReviewsImplementIdempotency` (`ImplementsIdempotency`). `Decided` is computed from
  three tables. By `WritesAtCommit` it grows at four commits only (`TopupCommit`,
  `ClaimCommit`, `ClaimReject`, `PayoutCommit`), and each adds the row in its handler's
  request. `Linked` says that for a review with a key this is the row the key was made
  for, so the commit is `Decide` of that handler; without a key it is a `Bypass`, and
  every other statement is a stutter;
* `ApiKeepsLedger` (`[]IInv`): what `LedgerProofs` found holds behind the middleware,
  and when the server crashes;
* `ApiIsAtomic`, `ApiKeepsAccounts`: a crash changes no table and every other step that
  does is one of the ledger's, so the whole server implements `AtomicLedger`, and the
  accounts (`BudgetAccounted`, `EnvelopesBacked`, `ReimbursementsBacked`,
  `LockedIsPending`) hold as they do for the ledger alone;
* `ReplayedSuccessIsDecided`: `SavedSuccessIsReal` of the ledger's own tables, from
  `SuccessInv` (a 200 that waits to be saved stands for a decided row);
* `ReplayedApprovalsArePaid` (`SavedApprovalsArePaid`), on top of both, of `PaymentSpec`.
  `AnsweredKeys` are the approvals answered 200, saved or about to be; a key joins them at
  the `ClaimCommit` of its own handler only (`OnlyApprovalsAnswer`, for which
  `ApprovalLinked` says that a transaction approves only if the key does), and that
  step appends the key to `payments` and takes one `claim_amount` (`PaymentAdded`).

The step from `ApiSpec` needs that `Topups`, `Claims` and `Payouts` are disjoint and that
`NoResponse` is no status, which `ReviewApi` assumes, and that of `PaymentSpec` that
`NoRequest` is no key.

`SessionsProofs` proves the seven invariants of `auth` for any emails, seeds, users,
sessions, lifetimes and, `RotationsAreBounded` excepted (which counts handlers, a finite
set by `HandlersAssumption`), whatever the number of requests. What a handler found
before its transaction is not locked in any way; `SessionsInv` says why it still holds at
the commit:

1. `HandlerKnows(h)`: the email of a user that is being inserted is free, the seeds
   before the present one have users (`SeedsTaken`), the session being replaced exists and
   its user is registered, and the balance of the role in an access token is there;
2. `InsertsDiffer`: two transactions never insert the same email or id, which is what
   waiting for the unique index comes to (`EmailPending`, `FreshUser`); without it the
   commit of one would falsify what the other knows;
3. `HoldsOwn`, `LocksDiffer`: a session's row lock has one holder;
4. `SessionsHaveUsers`, `SuccessorsFit`: every session has a registered user, and a
   replaced one is stored and blocked.

`HandlerStays` is the common step: rows are only ever added (`TablesGrow`), so a handler
keeps what it knows when another one moves. From `Spec => []SessionsInv` follow
`SessionsTypeCorrect` (`TypeOK`), `EmailsAreUnique` (`OneUserPerEmail`),
`BalancesGoWithUsers` (`UsersHaveBalances`), `SeedingIsComplete` (`SeededUsersExist`),
`TokensFindBalances` (`BalancesFound`) and `ReplacedStayBlocked` (`ReplacedAreBlocked`).
`RotationsAreBounded` (`RotationsBounded`) is inductive on top of it (`RotationsInv`): a
commit moves a handler from `Refreshing(s)` to a member of `successors[s]`, and once that
is not empty `s` is blocked, so that `Refreshing(s)` only shrinks.

`RateLimiterProofs` proves for any burst and any finite set of concurrent requests:

* `BucketsTypeCorrect` (`TypeOK`);
* `LimitersAreBounded` (`LimitersBounded`, the first half of `AdmissionBounded`): until
  the first `Store` every limiter is in the hands of a request that is about to store it
  (`OnlyRacersCreate`), and afterwards none is made;
* `AdmissionIsBounded` (`AdmissionBounded`). The bound on a whole minute is not inductive:
  when the minute moves on by a tick, it forgets the tick that was admitted the longest
  ago. `AdmissionPaid` bounds the last `k` ticks for each `k` up to `Burst`: what they
  admitted and what is left in the buckets are together at most one burst and `k - 1`
  refills per limiter. A tick makes the last `k` the last `k + 1` and refills each bucket
  by at most one token; a request takes from a bucket what it adds to the count.

`ListingProofs` proves `WalksMissFew` (`WalkMissesFew`) for any finite set of projects, any
creation times, limits and filters, both orders and any number of changes. The invariant,
`WalkInv`, speaks of ranks: a project that ties with no other is at the rank of the keys
before it, and no two of them share one (`RanksDiffer`). `Missed` are the projects of
`there` whose rank is below the offset of the next page although no page has shown them;
there are at most `torn`, and while a `SELECT` is due there is room for those the list has
grown by since its `COUNT` (`Grown`). A page holds the ranks from its offset to the next
(`PagesHoldRanks`), so reading one adds nothing to `Missed`. A creation only raises ranks
(`GrowingMissesNone`). A deletion, or a project that moves up, lowers the others by at most
one, so of those that drop below the offset each was exactly at it, and that is one; a
project that moves down drops alone (`SlippingMissesOne`). At the end, `total_pages` rounds
up (`LastPageIsEnough`), so what lies past the last page is what `Grown` and `CutOff` count
(`TailFits`).

*Only model-checked:* `RequestsEnd` and `ShutdownEnds`, which are liveness under
fairness, out of this prover's reach like `ENABLED`. Every other property of the passing
runs is a theorem. No module here has a `RECURSIVE` operator.

## 5. Where code and documentation disagree

Found by the violation runs:

* **A claim can be decided twice** (`claim_twice`). `DESIGN.md:48` says that all
  reviews use `UPDATE ... WHERE status = 'pending'`. `claim_repository.go:56` has
  `WHERE id = ?`. Two reviewers who read the claim as pending can both approve it,
  and the envelope pays twice, or reject what the other paid.
  `ReimbursementsBacked` still holds: the money is the project's.
* **A payout can be settled twice** (`payout_twice`). The same for
  `payout_repository.go:55`; the second settlement uses what another pending payout
  of the employee had locked. Nothing stays locked by it (`LockedIsPending`); it is the
  other payout that can then no longer be settled.
* **A retry can get another response** (`keys_retry`). `DESIGN.md:180` promises the
  first response. A retry that arrives before the first answer runs the review
  again and gets 409 where the first got 200.
* **A refresh token can be used twice** (`rotation_once`). `README.md:129` says that
  rotation blocks reuse. `is_blocked` is read before the transaction and not looked
  at in it, so requests under way at the same time all succeed.

Seen while modelling; no run is spent on them:

* `idempotency.go:55` saves every status from 200 on, 500 included, while line 54
  speaks of 2xx and 4xx: a transient failure becomes the key's permanent answer.
* `DESIGN.md:178` gives keys 24 hours; nothing deletes them.
* The key of a response is the header's value alone (`idempotency.go:38`): two reviews
  that share one by mistake get one response, and the second does not run.
* `finance_seed.go:49` skips an email that is registered, in whatever role. If that of
  the finance user is taken, the seeder reports completion without a finance user.
* `ratelimit.go:41` says 100 requests per minute; a full bucket and its refill let
  up to 199 through in one (`AdmissionBounded` has the exact bound).
* `project_handler.go:68` computes `total_pages` from the query's limit while the
  repository serves at most 100 rows: with a limit above 100 a walk ends early, by
  `CutOff` rows. Nothing applies the `validate:"gte=1,lte=100"` of `input.go:42`.
* `payout_usecase.go:67` multiplies by 25 in int64 before it divides, and no amount is too
  large for it: above (2^63 - 1) / 25, some 3.7 * 10^17 rupiah, the product wraps. If the
  fee becomes negative the `CHECK` refuses the completion, otherwise too small a fee is
  stored, where `DESIGN.md:88` puts the shortfall below one rupiah. No rupiah goes missing:
  `FeeAddsUp` holds for these amounts too.
* `DeleteAllUserSessions` has no caller.

## 6. What is not modelled

* Authentication, authorization and the router keep no state; which role may ask
  for which operation is in the parameters of `Ledger`'s requests and in `MayAsk`, and a
  manager's limits on projects and claims in their guards. Signatures of tokens and
  password hashes are taken to be unforgeable.
* Binding, validation, JSON, logging and configuration: input and output.
  `GetProject` and the lists other than projects only read, each in one query.
* The limiter map over all addresses: entries do not interact; that it only grows
  is a note in `PROJECT.json`.
* `BIGINT`: see the ledger's *Not in the tables*.
* Loss of committed data: PostgreSQL is taken to be durable.

## 7. Plan

Done, in this order: tables and transactions; the four usecases and `Ledger`;
`AtomicLedger` and the refinement; `IInv`, its proof and what follows from it;
idempotency, sessions, accounts, rate limiter, fee, listing; `ReviewApi` with the
server; the seeder; access tokens; the orders and filters of the list; the proofs about
`Idempotency`, `ReviewApi`, `Accounts`, `Sessions` and `RateLimiter`; sums, the accounts of
the ledger, what a limiter admits, and what a walk over the pages misses; the payments of
each key.

Prove, next: the ledger's action properties for `ApiSpec` as well, and properties of
`AtomicLedger` alone that carry over by `TransactionsAreAtomic` and `ApiIsAtomic`.

Model, next: an abstract specification of the sessions (a chain per login) that
`Sessions` implements for a single handler.
