------------------------------- MODULE Listing -------------------------------
(***************************************************************************)
(* Listing the projects page by page.  A page is two queries outside any   *)
(* transaction, a COUNT and a SELECT with OFFSET and LIMIT; the client     *)
(* asks for the next page until it has read total_pages of them.  Other    *)
(* requests create and delete projects and approve claims meanwhile.       *)
(*                                                                         *)
(* created_at is set before the project's transaction commits, so projects *)
(* appear in any order of it, and two may have the same.  title, the third *)
(* column to sort by, never changes either and is the same to a walk.      *)
(* ORDER BY has one column, and PostgreSQL orders rows that tie in it anew *)
(* in every query.  A filter (status, manager, search) is the set of       *)
(* projects it matches: none of the columns it looks at ever changes.      *)
(***************************************************************************)
EXTENDS Integers, FiniteSets

CONSTANTS
    Projects,       \* the projects there may be
    CreationTimes,  \* the values of created_at
    Filters,        \* sets of projects a filter may match
    Limits,         \* the limits a query may carry
    MaxRemaining,   \* bound on envelope_remaining
    MaxTears,       \* bound on torn
    DefaultLimit,   \* 10
    MaxLimit        \* 100

ASSUME ProjectsAssumption == CreationTimes \subseteq Int /\ IsFiniteSet(Projects)
ASSUME FiltersAssumption == Filters \subseteq SUBSET Projects
ASSUME LimitsAssumption ==
    /\ MaxRemaining \in Nat /\ MaxTears \in Nat
    /\ Limits \subseteq Int
    /\ DefaultLimit \in Nat \ {0}
    /\ MaxLimit \in Nat /\ DefaultLimit <= MaxLimit

VARIABLES
    created_at, \* of each project, once it is created
    projects,   \* the projects stored and not deleted
    remaining,  \* envelope_remaining of each project, once it is created
    pc,         \* the walk: "idle", "Count", "Find" or "read" when it is over
    query,      \* limit, filter and order of the walk's queries
    page,       \* the page it asks for
    total,      \* what COUNT returned for it
    seen,       \* the projects on the pages read so far
    there,      \* history: listed, and never in a tie, since the walk began
    torn        \* history: how often the list changed under the walk's offset

vars == <<created_at, projects, remaining, pc, query, page, total, seen, there, torn>>

Query == [limit : Limits, match : Filters, desc : BOOLEAN,
          sort : {"created_at", "envelope_remaining"}]

NoQuery == [limit |-> 0, match |-> {}, desc |-> FALSE, sort |-> "created_at"]

Init ==
    /\ created_at \in [Projects -> CreationTimes]
    /\ projects = {}
    /\ remaining \in [Projects -> 0..MaxRemaining]
    /\ pc = "idle" /\ query = NoQuery
    /\ page = 1 /\ total = 0
    /\ seen = {} /\ there = {} /\ torn = 0

(* BuildProjectFilter: the limit the repository gets.                      *)
ServedLimit(limit) ==
    IF limit <= 0 THEN DefaultLimit ELSE IF limit > MaxLimit THEN MaxLimit ELSE limit

(* The handler's own reading of the query, which BuildProjectFilter has    *)
(* changed in a copy only.                                                 *)
ReportedLimit(limit) == IF limit <= 0 THEN DefaultLimit ELSE limit

(* Fault: the last page is not counted unless it is full.                  *)
FullPages(n, limit) == n \div limit

TotalPages(n, limit) == (n + limit - 1) \div limit

Listed == projects \cap query.match

SortKey(p) == IF query.sort = "created_at" THEN created_at[p] ELSE remaining[p]

Before(p) ==
    {q \in Listed : IF query.desc THEN SortKey(q) > SortKey(p)
                                  ELSE SortKey(q) < SortKey(p)}

Ties(p) == {q \in Listed : SortKey(q) = SortKey(p)}

(* How many of the rows of page n the projects that tie with p make up.    *)
Share(p, n, limit) ==
    LET first == Cardinality(Before(p)) + 1
        last  == Cardinality(Before(p)) + Cardinality(Ties(p))
    IN  Cardinality({i \in first..last : (n - 1) * limit < i /\ i <= n * limit})

(* What the SELECT of page n may return.                                   *)
Pages(n, limit) ==
    {items \in SUBSET Listed :
       \A p \in Listed : Cardinality(items \cap Ties(p)) = Share(p, n, limit)}

Untied == {p \in Listed : Ties(p) = {p}}

(* A step that may push one project past the walk's offset: a matching one *)
(* is deleted, changes its place, or appears after the COUNT.              *)
Tear == torn < MaxTears /\ torn' = torn + 1

Disturb(tears) ==
    /\ IF tears THEN Tear ELSE UNCHANGED torn
    /\ there' = there \cap Untied'

-----------------------------------------------------------------------------
Start(q) ==
    /\ pc = "idle"
    /\ query' = q
    /\ pc' = "Count"
    /\ UNCHANGED <<created_at, projects, remaining, page, total, seen, torn>>
    /\ there' = Untied'

Count ==
    /\ pc = "Count"
    /\ total' = Cardinality(Listed)
    /\ pc' = "Find"
    /\ UNCHANGED <<created_at, projects, remaining, query, page, seen, there, torn>>

(* The page is answered; the client goes on if there are more.             *)
Find ==
    /\ pc = "Find"
    /\ \E items \in Pages(page, ServedLimit(query.limit)) : seen' = seen \cup items
    /\ \/ /\ page < TotalPages(total, ReportedLimit(query.limit))
          /\ page' = page + 1 /\ pc' = "Count"
       \/ /\ page >= TotalPages(total, ReportedLimit(query.limit))
          /\ pc' = "read"
          /\ UNCHANGED page
    /\ UNCHANGED <<created_at, projects, remaining, query, total, there, torn>>

Done ==
    /\ pc = "read"
    /\ pc' = "idle" /\ query' = NoQuery
    /\ page' = 1 /\ total' = 0
    /\ seen' = {} /\ there' = {} /\ torn' = 0
    /\ UNCHANGED <<created_at, projects, remaining>>

(* A project is created or restored.                                       *)
Create(p) ==
    /\ p \notin projects
    /\ projects' = projects \cup {p}
    /\ UNCHANGED <<created_at, remaining, pc, query, page, total, seen>>
    /\ Disturb(pc = "Find" /\ p \in query.match)

Delete(p) ==
    /\ p \in projects
    /\ projects' = projects \ {p}
    /\ UNCHANGED <<created_at, remaining, pc, query, page, total, seen>>
    /\ Disturb(p \in query.match)

(* A claim on p is approved: the project moves in the order of envelopes.  *)
Approve(p, amount) ==
    /\ p \in projects
    /\ amount <= remaining[p]
    /\ remaining' = [remaining EXCEPT ![p] = @ - amount]
    /\ UNCHANGED <<created_at, projects, pc, query, page, total, seen>>
    /\ Disturb(p \in query.match /\ query.sort = "envelope_remaining")

Next ==
    \/ \E q \in Query : Start(q)
    \/ Count
    \/ Find
    \/ Done
    \/ \E p \in Projects : Create(p) \/ Delete(p)
    \/ \E p \in Projects, amount \in 1..MaxRemaining : Approve(p, amount)

Spec == Init /\ [][Next]_vars

-----------------------------------------------------------------------------
(* The rows past the last page of a walk whose limit is above MaxLimit:    *)
(* total_pages counts longer pages than the server returns.                *)
CutOff ==
    IF query.limit > MaxLimit /\ total > page * MaxLimit
      THEN total - page * MaxLimit ELSE 0

(* What a walk over the pages has not shown of the projects that were      *)
(* listed all along: each deletion and each approval that changes the      *)
(* order costs it at most one project, wherever in the list and at         *)
(* whatever time it happens, each creation at most one and only between a  *)
(* COUNT and its SELECT, and a limit above MaxLimit exactly the rows past  *)
(* the last page.  Ties cost it none but the projects that are in one.     *)
WalkMissesFew ==
    pc = "read" => Cardinality(there \ seen) <= torn + CutOff

=============================================================================
