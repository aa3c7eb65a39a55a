---------------------------- MODULE ListingProofs ----------------------------
(***************************************************************************)
(* What a walk over the pages can miss, for any projects and any limits.   *)
(* A project that ties with no other is at the rank of the keys before it, *)
(* and no two such projects share a rank.  The pages read so far are the   *)
(* ranks below Offset, so a project is missed when its rank drops below    *)
(* Offset unseen: a creation only raises ranks, and a deletion or an       *)
(* approval lowers one past Offset at most.                                *)
(***************************************************************************)
EXTENDS Listing, FiniteSetTheorems, TLAPS

TypeOK ==
    /\ created_at \in [Projects -> CreationTimes]
    /\ projects \subseteq Projects
    /\ remaining \in [Projects -> 0..MaxRemaining]
    /\ pc \in {"idle", "Count", "Find", "read"}
    /\ query \in (IF pc = "idle" THEN {NoQuery} ELSE Query)
    /\ page \in Nat \ {0} /\ total \in Nat
    /\ seen \subseteq Projects /\ there \subseteq Untied
    /\ torn \in Nat

Limit == ServedLimit(query.limit)

Rank(p) == Cardinality(Before(p))

(* Where the next page begins, and what the pages before it have missed.   *)
Offset == (page - 1) * Limit

Missed == {p \in there : p \notin seen /\ Rank(p) < Offset}

(* How far the list has outgrown what COUNT returned.                      *)
Grown == IF Cardinality(Listed) > total THEN Cardinality(Listed) - total ELSE 0

WalkInv ==
    /\ TypeOK
    /\ pc = "idle" => page = 1 /\ torn = 0
    /\ pc = "Count" => Cardinality(Missed) <= torn
    /\ pc = "Find" => Cardinality(Missed) + Grown <= torn
    /\ WalkMissesFew

-----------------------------------------------------------------------------
(* Keys and ranks. *)

ListedFits ==
    /\ Listed \subseteq Projects /\ IsFiniteSet(Listed) /\ Cardinality(Listed) \in Nat
    /\ \A p \in Listed : SortKey(p) \in Int

LEMMA ListedFinite == TypeOK => ListedFits
<1> SUFFICES ASSUME TypeOK  PROVE ListedFits
  OBVIOUS
<1>1. Listed \subseteq Projects
  BY DEF TypeOK, Listed
<1>2. IsFiniteSet(Listed) /\ Cardinality(Listed) \in Nat
  <2>1. IsFiniteSet(Listed)
    BY <1>1, ProjectsAssumption, FS_Subset
  <2> QED BY <2>1, FS_CardinalityType
<1>3. ASSUME NEW p \in Listed  PROVE SortKey(p) \in Int
  <2>1. p \in Projects
    BY <1>1
  <2>2. created_at[p] \in CreationTimes /\ remaining[p] \in 0..MaxRemaining
    BY <2>1 DEF TypeOK
  <2>3. created_at[p] \in Int
    BY <2>2, ProjectsAssumption
  <2>4. remaining[p] \in Int
    BY <2>2
  <2> QED BY <2>3, <2>4 DEF SortKey
<1> QED BY <1>1, <1>2, <1>3 DEF ListedFits

Ranked ==
    \A p \in Listed : /\ IsFiniteSet(Before(p)) /\ Rank(p) \in Nat
                      /\ Rank(p) < Cardinality(Listed)

LEMMA RanksFit == TypeOK => Ranked
<1> SUFFICES ASSUME TypeOK, NEW p \in Listed
             PROVE  /\ IsFiniteSet(Before(p)) /\ Rank(p) \in Nat
                    /\ Rank(p) < Cardinality(Listed)
  BY DEF Ranked
<1> USE ListedFinite DEF ListedFits
<1>1. Before(p) \subseteq Listed \ {p}
  BY ListedFinite DEF Before
<1>2. IsFiniteSet(Listed \ {p}) /\ Cardinality(Listed \ {p}) = Cardinality(Listed) - 1
  BY ListedFinite, FS_RemoveElement
<1>3. IsFiniteSet(Before(p)) /\ Cardinality(Before(p)) <= Cardinality(Listed \ {p})
  BY <1>1, <1>2, FS_Subset
<1>4. Cardinality(Before(p)) \in Nat
  BY <1>3, FS_CardinalityType
<1> QED BY <1>2, <1>3, <1>4, ListedFinite DEF Rank

(* Projects in no tie are at different ranks.                              *)
LEMMA RanksDiffer ==
    ASSUME TypeOK, NEW p \in Untied, NEW q \in Untied, Rank(p) = Rank(q)
    PROVE  p = q
<1>1. /\ p \in Listed /\ q \in Listed /\ SortKey(p) \in Int /\ SortKey(q) \in Int
      /\ SortKey(p) = SortKey(q) => p = q
  <2>1. p \in Listed /\ q \in Listed /\ Ties(p) = {p}
    BY DEF Untied
  <2>2. SortKey(p) = SortKey(q) => q \in Ties(p)
    BY <2>1 DEF Ties
  <2> QED BY <2>1, <2>2, ListedFinite DEF ListedFits
<1>2. ASSUME NEW a \in Listed, NEW b \in Listed, a \in Before(b)
      PROVE  Rank(a) < Rank(b)
  <2>1. a \notin Before(a) /\ Before(a) \cup {a} \subseteq Before(b)
    BY <1>2, ListedFinite DEF ListedFits, Before
  <2>2. /\ IsFiniteSet(Before(a)) /\ IsFiniteSet(Before(b))
        /\ Rank(a) \in Nat /\ Rank(b) \in Nat
    BY RanksFit DEF Ranked
  <2>3. Cardinality(Before(a) \cup {a}) = Rank(a) + 1
    BY <2>1, <2>2, FS_AddElement DEF Rank
  <2>4. Cardinality(Before(a) \cup {a}) <= Rank(b)
    BY <2>1, <2>2, FS_Subset DEF Rank
  <2> QED BY <2>2, <2>3, <2>4
<1>3. SortKey(p) # SortKey(q) => p \in Before(q) \/ q \in Before(p)
  BY <1>1 DEF Before
<1> QED BY <1>1, <1>2, <1>3, RanksFit DEF Ranked

LEMMA LimitsFit ==
    ASSUME TypeOK, pc # "idle"
    PROVE  /\ Limit \in Nat \ {0} /\ query.limit \in Int
           /\ query.limit <= MaxLimit => ReportedLimit(query.limit) = Limit
           /\ query.limit > MaxLimit => Limit = MaxLimit
<1>1. query.limit \in Int
  BY LimitsAssumption DEF TypeOK, Query
<1> QED BY <1>1, LimitsAssumption DEF Limit, ServedLimit, ReportedLimit

LEMMA OffsetsFit == TypeOK => Limit \in Nat /\ Offset \in Int
<1>1. ASSUME TypeOK  PROVE query.limit \in Int
  <2>1. CASE query = NoQuery
    BY <2>1 DEF NoQuery
  <2>2. CASE query \in Query
    BY <2>2, LimitsAssumption DEF Query
  <2> QED BY <1>1, <2>1, <2>2 DEF TypeOK
<1>2. TypeOK => Limit \in Nat /\ page \in Nat
  BY <1>1, LimitsAssumption DEF TypeOK, Limit, ServedLimit
<1> QED BY <1>2 DEF Offset

(* A page holds the projects of its ranks.                                 *)
LEMMA PagesHoldRanks ==
    ASSUME TypeOK, NEW limit \in Nat, NEW n \in Nat,
           NEW items \in Pages(n, limit), NEW p \in Untied,
           (n - 1) * limit <= Rank(p), Rank(p) < n * limit
    PROVE  p \in items
<1>1. Ties(p) = {p}
  BY DEF Untied
<1>2. Cardinality(Ties(p)) = 1
  BY <1>1, FS_Singleton
<1>3. PICK r \in Nat : r = Rank(p)
  BY RanksFit DEF Ranked, Untied
<1>4. PICK low \in Int, high \in Int : low = (n - 1) * limit /\ high = n * limit
  OBVIOUS
<1>5. {i \in (r + 1)..(r + 1) : low < i /\ i <= high} = {r + 1}
  BY <1>3, <1>4
<1>6. Share(p, n, limit) = Cardinality({r + 1})
  BY <1>2, <1>3, <1>4, <1>5 DEF Share, Rank
<1>7. Cardinality(items \cap {p}) = 1
  BY <1>1, <1>6, FS_Singleton DEF Pages, Untied
<1>8. Cardinality({}) = 0
  BY FS_EmptySet
<1> SUFFICES ASSUME p \notin items  PROVE FALSE
  OBVIOUS
<1>9. items \cap {p} = {}
  OBVIOUS
<1>10. Cardinality(items \cap {p}) = 0
  BY <1>8, <1>9, Zenon
<1> QED BY <1>7, <1>10

(* The last page ends at or after the last project.                        *)
LEMMA LastPageIsEnough ==
    ASSUME NEW n \in Nat, NEW limit \in Nat \ {0}, NEW k \in Nat, k >= TotalPages(n, limit)
    PROVE  n <= k * limit
<1>1. PICK pages \in Nat : pages = (n + limit - 1) \div limit
  OBVIOUS
<1>2. n + limit - 1 < (pages + 1) * limit
  BY <1>1
<1>3. (pages + 1) * limit = pages * limit + limit
  BY <1>1
<1>4. pages * limit <= k * limit
  BY <1>1 DEF TotalPages
<1>5. pages * limit \in Int /\ k * limit \in Int
  BY <1>1
<1> QED BY <1>2, <1>3, <1>4, <1>5

-----------------------------------------------------------------------------
(* What the other requests do to a walk. *)

LEMMA MissedFinite == TypeOK => IsFiniteSet(Missed) /\ Cardinality(Missed) \in Nat
<1>1. TypeOK => Missed \subseteq Projects
  BY DEF TypeOK, Missed, Untied, Listed
<1> QED BY <1>1, ProjectsAssumption, FS_Subset, FS_CardinalityType

LEMMA GrownFits == TypeOK => Grown \in Nat
BY ListedFinite DEF TypeOK, ListedFits, Grown

(* The facts above of the next state.                                      *)
LEMMA NextFits ==
    ASSUME TypeOK'
    PROVE  /\ ListedFits' /\ Ranked' /\ (Grown \in Nat)'
           /\ (Limit \in Nat)' /\ (Offset \in Int)'
           /\ IsFiniteSet(Missed)' /\ (Cardinality(Missed) \in Nat)'
BY ListedFinite, RanksFit, GrownFits, OffsetsFit, MissedFinite, PTL

(* The walk itself stands still.                                           *)
WalkStands ==
    /\ UNCHANGED <<pc, query, page, total, seen>>
    /\ there' \subseteq there

LEMMA UnseenShrinks ==
    ASSUME WalkInv, TypeOK', WalkStands, torn <= torn'
    PROVE  WalkMissesFew'
<1> SUFFICES ASSUME pc = "read"
             PROVE  Cardinality(there' \ seen') <= torn' + CutOff'
  BY DEF WalkMissesFew, WalkStands
<1>1. Cardinality(there \ seen) <= torn + CutOff /\ CutOff' = CutOff
  BY DEF WalkInv, WalkMissesFew, WalkStands, CutOff
<1>2. IsFiniteSet(there \ seen)
  <2>1. there \ seen \subseteq Projects
    BY DEF WalkInv, TypeOK, Untied, Listed
  <2> QED BY <2>1, ProjectsAssumption, FS_Subset
<1>3. /\ Cardinality(there' \ seen') <= Cardinality(there \ seen)
      /\ IsFiniteSet(there' \ seen')
  <2>1. there' \ seen' \subseteq there \ seen
    BY DEF WalkStands
  <2> QED BY <1>2, <2>1, FS_Subset
<1>4. /\ Cardinality(there' \ seen') \in Nat /\ Cardinality(there \ seen) \in Nat
      /\ torn \in Nat /\ torn' \in Nat /\ CutOff \in Int
  <2>1. CutOff \in Int
    BY LimitsAssumption DEF WalkInv, TypeOK, CutOff
  <2> QED BY <1>2, <1>3, <2>1, FS_CardinalityType DEF WalkInv, TypeOK
<1> QED BY <1>1, <1>3, <1>4

(* A step costs the walk at most one project, and is counted if it does.   *)
LEMMA StandingKeeps ==
    ASSUME WalkInv, TypeOK', WalkStands, NEW cost \in {0, 1}, torn' = torn + cost,
           pc = "idle" => cost = 0,
           pc \in {"Count", "Find"} => Cardinality(Missed)' <= Cardinality(Missed) + cost,
           pc = "Find" => Cardinality(Missed)' + Grown' <= Cardinality(Missed) + Grown + cost
    PROVE  WalkInv'
<1>1. torn \in Nat /\ torn' \in Nat /\ torn <= torn'
  BY DEF WalkInv, TypeOK
<1>2. /\ Cardinality(Missed) \in Nat /\ Cardinality(Missed)' \in Nat
      /\ Grown \in Nat /\ Grown' \in Nat
  BY MissedFinite, GrownFits, NextFits DEF WalkInv
<1>3. WalkMissesFew'
  BY <1>1, UnseenShrinks
<1>4. (pc = "idle" => page = 1 /\ torn = 0)'
  BY DEF WalkInv, WalkStands
<1>5. (pc = "Count" => Cardinality(Missed) <= torn)'
  BY <1>1, <1>2 DEF WalkInv, WalkStands
<1>6. (pc = "Find" => Cardinality(Missed) + Grown <= torn)'
  BY <1>1, <1>2 DEF WalkInv, WalkStands
<1> QED BY <1>3, <1>4, <1>5, <1>6 DEF WalkInv

(* If at most one project is newly missed, one more is missed.             *)
LEMMA OneMoreMissed ==
    ASSUME TypeOK, TypeOK', \A p, q \in Missed' \ Missed : p = q
    PROVE  Cardinality(Missed)' <= Cardinality(Missed) + 1
<1>0. IsFiniteSet(Missed) /\ Cardinality(Missed) \in Nat
  BY MissedFinite
<1>1. CASE Missed' \subseteq Missed
  <2>1. Cardinality(Missed') <= Cardinality(Missed) /\ IsFiniteSet(Missed')
    BY <1>0, <1>1, FS_Subset
  <2> QED BY <1>0, <2>1, FS_CardinalityType
<1>2. CASE ~(Missed' \subseteq Missed)
  <2>1. PICK x : x \in Missed' \ Missed
    BY <1>2
  <2>2. Missed' \subseteq Missed \cup {x}
    BY <2>1
  <2>3. IsFiniteSet(Missed \cup {x}) /\ Cardinality(Missed \cup {x}) = Cardinality(Missed) + 1
    BY <1>0, <2>1, FS_AddElement
  <2> QED BY <2>2, <2>3, FS_Subset
<1> QED BY <1>1, <1>2

(* The list keeps what it has, in its order.                               *)
ListGrows ==
    /\ Listed \subseteq Listed'
    /\ \A p \in Listed : SortKey(p)' = SortKey(p)

LEMMA GrowingMissesNone ==
    ASSUME TypeOK, TypeOK', WalkStands, ListGrows
    PROVE  Cardinality(Missed)' <= Cardinality(Missed)
<1>1. ASSUME NEW p \in Listed  PROVE Rank(p) <= Rank(p)'
  <2>1. Before(p) \subseteq Before(p)'
    BY DEF Before, ListGrows, WalkStands
  <2>2. IsFiniteSet(Before(p)')
    BY NextFits DEF Ranked, ListGrows
  <2> QED BY <2>1, <2>2, FS_Subset DEF Rank
<1>2. Offset' = Offset /\ Offset \in Int
  BY OffsetsFit DEF Offset, Limit, WalkStands
<1>3. Missed' \subseteq Missed
  <2> SUFFICES ASSUME NEW p \in Missed'  PROVE p \in Missed
    OBVIOUS
  <2>1. p \in there /\ p \notin seen /\ Rank(p)' < Offset /\ p \in Listed
    BY <1>2 DEF Missed, WalkStands, TypeOK, Untied
  <2>2. Rank(p) \in Nat /\ Rank(p)' \in Nat
    BY <2>1, RanksFit, NextFits DEF Ranked, ListGrows
  <2> QED BY <1>1, <1>2, <2>1, <2>2 DEF Missed
<1> QED BY <1>3, MissedFinite, FS_Subset

(* One project moves or goes: the others lose at most one rank.            *)
ListSlips(q) ==
    /\ Listed' \subseteq Listed
    /\ \A p \in Listed' \ {q} : SortKey(p)' = SortKey(p) /\ Before(p) \ {q} \subseteq Before(p)'

(* Either q is the only one whose rank drops, or its own does not.         *)
LEMMA SlippingMissesOne ==
    ASSUME TypeOK, TypeOK', WalkStands, NEW q, ListSlips(q),
           \/ \A p \in Listed' \ {q} : Before(p) \subseteq Before(p)'
           \/ q \in Listed' => Before(q) \subseteq Before(q)'
    PROVE  Cardinality(Missed)' <= Cardinality(Missed) + 1
<1>1. Offset' = Offset /\ Offset \in Int
  BY OffsetsFit DEF Offset, Limit, WalkStands
<1>2. ASSUME NEW p \in Missed' \ Missed
      PROVE  /\ p \in Untied /\ p \in Listed' /\ p \in Listed
             /\ Rank(p) \in Nat /\ Rank(p)' \in Nat
             /\ Offset <= Rank(p) /\ Rank(p)' < Offset
  <2>1. p \in there /\ p \notin seen /\ Rank(p)' < Offset
    BY <1>1 DEF Missed, WalkStands
  <2>2. p \in Untied /\ p \in Listed /\ p \in Listed'
    BY <2>1 DEF TypeOK, Untied, Missed
  <2>3. Rank(p) \in Nat /\ Rank(p)' \in Nat
    BY <2>2, RanksFit, NextFits DEF Ranked
  <2>4. Offset <= Rank(p)
    BY <1>1, <1>2, <2>1, <2>3 DEF Missed
  <2> QED BY <2>1, <2>2, <2>3, <2>4
<1>3. ASSUME NEW p \in Missed' \ Missed, Before(p) \subseteq Before(p)'
      PROVE  FALSE
  <2>1. IsFiniteSet(Before(p)')
    BY <1>2, NextFits DEF Ranked
  <2>2. Rank(p) <= Rank(p)'
    BY <1>3, <2>1, FS_Subset DEF Rank
  <2> QED BY <1>1, <1>2, <2>2
<1>4. ASSUME NEW p \in Missed' \ Missed, p # q
      PROVE  Rank(p) = Offset
  <2>1. IsFiniteSet(Before(p)') /\ IsFiniteSet(Before(p))
    BY <1>2, NextFits, RanksFit DEF Ranked
  <2>2. Before(p) \ {q} \subseteq Before(p)'
    BY <1>2, <1>4 DEF ListSlips
  <2>3. Cardinality(Before(p) \ {q}) >= Rank(p) - 1 /\ Cardinality(Before(p) \ {q}) \in Int
    BY <1>2, <2>1, FS_RemoveElement DEF Rank
  <2>4. Cardinality(Before(p) \ {q}) <= Rank(p)'
    BY <2>1, <2>2, FS_Subset DEF Rank
  <2> QED BY <1>1, <1>2, <2>3, <2>4
<1>5. \A p, r \in Missed' \ Missed : p = r
  <2>1. CASE \A p \in Listed' \ {q} : Before(p) \subseteq Before(p)'
    BY <1>2, <1>3, <2>1
  <2>2. CASE q \in Listed' => Before(q) \subseteq Before(q)'
    <3>1. ASSUME NEW p \in Missed' \ Missed  PROVE p # q
      BY <1>2, <1>3, <2>2, <3>1
    <3> QED BY <1>2, <1>4, <3>1, RanksDiffer
  <2> QED BY <2>1, <2>2
<1> QED BY <1>5, OneMoreMissed

-----------------------------------------------------------------------------
(* The other requests. *)

LEMMA ViewStands ==
    ASSUME UNCHANGED <<created_at, projects, remaining, query>>
    PROVE  /\ Listed' = Listed /\ Untied' = Untied /\ Limit' = Limit
           /\ \A p : Rank(p)' = Rank(p)
BY DEF Listed, Untied, Ties, SortKey, Rank, Before, Limit

LEMMA TypeNext ==
    ASSUME TypeOK, [Next]_vars
    PROVE  TypeOK'
<1>1. ASSUME NEW q \in Query, Start(q)  PROVE TypeOK'
  BY <1>1 DEF TypeOK, Start
<1>2. CASE Count
  <2>1. total' \in Nat /\ there' \subseteq Untied'
    BY <1>2, ListedFinite, ViewStands DEF TypeOK, ListedFits, Count
  <2> QED BY <1>2, <2>1 DEF TypeOK, Count
<1>3. CASE Find
  <2>1. seen' \subseteq Projects
    BY <1>3 DEF TypeOK, Find, Pages, Listed
  <2>2. page' \in Nat \ {0} /\ pc' \in {"Count", "read"}
    BY <1>3 DEF TypeOK, Find
  <2>3. query \in Query
    BY <1>3 DEF TypeOK, Find
  <2>4. there' \subseteq Untied'
    BY <1>3, ViewStands DEF TypeOK, Find
  <2> QED BY <1>3, <2>1, <2>2, <2>3, <2>4 DEF TypeOK, Find
<1>4. CASE Done
  BY <1>4 DEF TypeOK, Done
<1>5. ASSUME NEW p \in Projects, Create(p) \/ Delete(p)  PROVE TypeOK'
  <2>1. torn' \in Nat /\ there' \subseteq Untied'
    BY <1>5 DEF TypeOK, Create, Delete, Disturb, Tear
  <2> QED BY <1>5, <2>1 DEF TypeOK, Create, Delete
<1>6. ASSUME NEW p \in Projects, NEW amount \in 1..MaxRemaining, Approve(p, amount)
      PROVE  TypeOK'
  <2>1. torn' \in Nat /\ there' \subseteq Untied'
    BY <1>6 DEF TypeOK, Approve, Disturb, Tear
  <2>2. remaining[p] \in 0..MaxRemaining /\ amount <= remaining[p]
    BY <1>6 DEF TypeOK, Approve
  <2>3. remaining[p] - amount \in 0..MaxRemaining
    BY <2>2, LimitsAssumption
  <2>4. remaining' \in [Projects -> 0..MaxRemaining]
    BY <1>6, <2>3 DEF TypeOK, Approve
  <2> QED BY <1>6, <2>1, <2>4 DEF TypeOK, Approve
<1>7. CASE UNCHANGED vars
  <2>1. Untied' = Untied
    BY <1>7, ViewStands DEF vars
  <2> QED BY <1>7, <2>1 DEF TypeOK, vars
<1> QED BY <1>1, <1>2, <1>3, <1>4, <1>5, <1>6, <1>7 DEF Next

LEMMA IdleMatchesNone ==
    ASSUME TypeOK, query.match # {}
    PROVE  pc # "idle"
BY DEF TypeOK, NoQuery

LEMMA CreateKeeps ==
    ASSUME WalkInv, TypeOK', NEW p \in Projects, Create(p)
    PROVE  WalkInv'
<1>1. WalkStands
  BY DEF Create, Disturb, WalkStands
<1>2. Cardinality(Missed)' <= Cardinality(Missed)
  <2>1. ListGrows
    BY DEF Create, ListGrows, Listed, SortKey
  <2> QED BY <1>1, <2>1, GrowingMissesNone DEF WalkInv
<1>3. /\ Cardinality(Missed) \in Nat /\ Cardinality(Missed)' \in Nat
      /\ IsFiniteSet(Listed) /\ Cardinality(Listed) \in Nat /\ Cardinality(Listed)' \in Nat
      /\ total \in Nat /\ total' = total
  BY ListedFinite, MissedFinite, NextFits DEF WalkInv, TypeOK, ListedFits, Create
<1>4. CASE pc = "Find" /\ p \in query.match
  <2>1. torn' = torn + 1
    BY <1>4 DEF Create, Disturb, Tear
  <2>2. Listed' = Listed \cup {p} /\ p \notin Listed
    BY <1>4 DEF Create, Listed
  <2>3. Cardinality(Listed)' = Cardinality(Listed) + 1
    BY <1>3, <2>2, FS_AddElement
  <2>4. Grown' <= Grown + 1 /\ Grown \in Int /\ Grown' \in Int
    BY <1>3, <2>3 DEF Grown
  <2> QED BY <1>1, <1>2, <1>3, <1>4, <2>1, <2>4, StandingKeeps
<1>5. CASE ~(pc = "Find" /\ p \in query.match)
  <2>1. torn' = torn /\ torn \in Nat
    BY <1>5 DEF WalkInv, TypeOK, Create, Disturb
  <2>2. pc = "Find" => Grown' = Grown
    <3>1. pc = "Find" => Listed' = Listed
      BY <1>5 DEF Create, Listed
    <3> QED BY <1>3, <3>1 DEF Grown
  <2>3. Grown \in Int
    BY <1>3 DEF Grown
  <2> QED BY <1>1, <1>2, <1>3, <2>1, <2>2, <2>3, StandingKeeps
<1> QED BY <1>4, <1>5

LEMMA DeleteKeeps ==
    ASSUME WalkInv, TypeOK', NEW p \in Projects, Delete(p)
    PROVE  WalkInv'
<1>1. WalkStands
  BY DEF Delete, Disturb, WalkStands
<1>2. /\ Cardinality(Missed) \in Nat /\ Cardinality(Missed)' \in Nat
      /\ IsFiniteSet(Listed) /\ Cardinality(Listed) \in Nat /\ Cardinality(Listed)' \in Nat
      /\ total \in Nat /\ total' = total /\ torn \in Nat
  BY ListedFinite, MissedFinite, NextFits DEF WalkInv, TypeOK, ListedFits, Delete
<1>3. Grown' <= Grown /\ Grown \in Int /\ Grown' \in Int
  <2>1. Listed' \subseteq Listed
    BY DEF Delete, Listed
  <2>2. Cardinality(Listed)' <= Cardinality(Listed)
    BY <1>2, <2>1, FS_Subset
  <2> QED BY <1>2, <2>2 DEF Grown
<1>4. CASE p \in query.match
  <2>1. torn' = torn + 1 /\ pc # "idle"
    BY <1>4, IdleMatchesNone DEF WalkInv, Delete, Disturb, Tear
  <2>2. ListSlips(p) /\ p \notin Listed'
    BY DEF Delete, ListSlips, Listed, Before, SortKey
  <2>3. Cardinality(Missed)' <= Cardinality(Missed) + 1
    BY <1>1, <2>2, SlippingMissesOne DEF WalkInv
  <2> QED BY <1>1, <1>2, <1>3, <2>1, <2>3, StandingKeeps
<1>5. CASE p \notin query.match
  <2>1. torn' = torn
    BY <1>5 DEF Delete, Disturb
  <2>2. ListGrows
    BY <1>5 DEF Delete, ListGrows, Listed, SortKey
  <2>3. Cardinality(Missed)' <= Cardinality(Missed)
    BY <1>1, <2>2, GrowingMissesNone DEF WalkInv
  <2> QED BY <1>1, <1>2, <1>3, <2>1, <2>3, StandingKeeps
<1> QED BY <1>4, <1>5

LEMMA ApproveKeeps ==
    ASSUME WalkInv, TypeOK', NEW p \in Projects, NEW amount \in 1..MaxRemaining,
           Approve(p, amount)
    PROVE  WalkInv'
<1>1. WalkStands /\ Listed' = Listed
  BY DEF Approve, Disturb, WalkStands, Listed
<1>2. /\ Cardinality(Missed) \in Nat /\ Cardinality(Missed)' \in Nat
      /\ Grown' = Grown /\ Grown \in Nat /\ torn \in Nat
  BY <1>1, MissedFinite, NextFits, GrownFits DEF WalkInv, TypeOK, Grown, WalkStands
<1>3. \A q : q # p => SortKey(q)' = SortKey(q)
  <2>1. \A q : q # p => remaining'[q] = remaining[q]
    BY DEF WalkInv, TypeOK, Approve
  <2> QED BY <2>1 DEF SortKey, Approve
<1>4. CASE p \in query.match /\ query.sort = "envelope_remaining"
  <2>1. torn' = torn + 1 /\ pc # "idle"
    BY <1>4, IdleMatchesNone DEF WalkInv, Approve, Disturb, Tear
  <2>2. /\ SortKey(p)' <= SortKey(p) /\ p \in Listed
        /\ \A q \in Listed : SortKey(q) \in Int /\ SortKey(q)' \in Int
    <3>1. SortKey(p) = remaining[p] /\ SortKey(p)' = remaining[p] - amount
      BY <1>4 DEF SortKey, Approve, WalkInv, TypeOK
    <3>2. remaining[p] \in Int
      BY DEF WalkInv, TypeOK
    <3>3. p \in Listed
      BY <1>4 DEF Listed, Approve
    <3>4. \A q \in Listed : SortKey(q) \in Int /\ SortKey(q)' \in Int
      BY <1>1, ListedFinite, NextFits DEF WalkInv, ListedFits
    <3> QED BY <3>1, <3>2, <3>3, <3>4
  <2>3. ListSlips(p)
    BY <1>1, <1>3 DEF ListSlips, Before, Approve
  <2>4. CASE query.desc
    <3>1. Before(p) \subseteq Before(p)'
      BY <1>1, <1>3, <2>2, <2>4 DEF Before, Approve
    <3>2. Cardinality(Missed)' <= Cardinality(Missed) + 1
      BY <1>1, <2>3, <3>1, SlippingMissesOne DEF WalkInv
    <3> QED BY <1>1, <1>2, <2>1, <3>2, StandingKeeps
  <2>5. CASE ~query.desc
    <3>1. \A q \in Listed' \ {p} : Before(q) \subseteq Before(q)'
      BY <1>1, <1>3, <2>2, <2>5 DEF Before, Approve
    <3>2. Cardinality(Missed)' <= Cardinality(Missed) + 1
      BY <1>1, <2>3, <3>1, SlippingMissesOne DEF WalkInv
    <3> QED BY <1>1, <1>2, <2>1, <3>2, StandingKeeps
  <2> QED BY <2>4, <2>5
<1>5. CASE ~(p \in query.match /\ query.sort = "envelope_remaining")
  <2>1. torn' = torn
    BY <1>5 DEF Approve, Disturb
  <2>2. ListGrows
    <3>1. CASE p \notin query.match
      BY <1>1, <1>3, <3>1 DEF ListGrows, Listed
    <3>2. CASE query.sort # "envelope_remaining"
      <4>1. query.sort = "created_at"
        BY <3>2 DEF WalkInv, TypeOK, NoQuery, Query
      <4> QED BY <1>1, <4>1 DEF ListGrows, SortKey, Approve
    <3> QED BY <1>5, <3>1, <3>2
  <2>3. Cardinality(Missed)' <= Cardinality(Missed)
    BY <1>1, <2>2, GrowingMissesNone DEF WalkInv
  <2> QED BY <1>1, <1>2, <2>1, <2>3, StandingKeeps
<1> QED BY <1>4, <1>5

-----------------------------------------------------------------------------
(* The walk. *)

LEMMA StartKeeps ==
    ASSUME WalkInv, TypeOK', NEW q \in Query, Start(q)
    PROVE  WalkInv'
<1>1. pc' = "Count" /\ page' = 1 /\ torn' = 0
  BY DEF Start, WalkInv
<1>2. Offset' = 0
  <2>1. PICK limit \in Nat : limit = Limit'
    BY NextFits
  <2>2. Offset' = (1 - 1) * Limit'
    BY <1>1 DEF Offset
  <2>3. (1 - 1) * limit = 0
    OBVIOUS
  <2> QED BY <2>1, <2>2, <2>3
<1>3. Missed' = {}
  <2>1. ASSUME NEW p \in there'  PROVE Rank(p)' \in Nat
    BY NextFits DEF Ranked, TypeOK, Untied
  <2> QED BY <1>2, <2>1 DEF Missed
<1>4. Cardinality(Missed)' = 0
  BY <1>3, FS_EmptySet
<1> QED BY <1>1, <1>4 DEF WalkInv, WalkMissesFew

LEMMA CountKeeps ==
    ASSUME WalkInv, TypeOK', Count
    PROVE  WalkInv'
<1>1. /\ pc = "Count" /\ pc' = "Find" /\ total' = Cardinality(Listed)
      /\ UNCHANGED <<created_at, projects, remaining, query, page, seen, there, torn>>
  BY DEF Count
<1>2. Listed' = Listed /\ Missed' = Missed
  BY <1>1, ViewStands DEF Missed, Offset
<1>3. Grown' = 0
  BY <1>1, <1>2, ListedFinite DEF WalkInv, ListedFits, Grown
<1>4. Cardinality(Missed) \in Nat
  BY MissedFinite DEF WalkInv
<1> QED BY <1>1, <1>2, <1>3, <1>4 DEF WalkInv, WalkMissesFew

(* The ranks from m on hold no more projects than there are such ranks.    *)
Tail(m) == {p \in there : m <= Rank(p)}

LEMMA TailFits ==
    ASSUME TypeOK, NEW m \in Nat
    PROVE  /\ IsFiniteSet(Tail(m)) /\ Cardinality(Tail(m)) \in Nat
           /\ \/ Cardinality(Tail(m)) = 0
              \/ Cardinality(Tail(m)) <= Cardinality(Listed) - m
<1>1. IsFiniteSet(Tail(m)) /\ Cardinality(Tail(m)) \in Nat
  <2>1. Tail(m) \subseteq Projects
    BY DEF TypeOK, Tail, Untied, Listed
  <2> QED BY <2>1, ProjectsAssumption, FS_Subset, FS_CardinalityType
<1>2. PICK n \in Nat : n = Cardinality(Listed)
  BY ListedFinite DEF ListedFits
<1>3. IsFiniteSet(m..(n - 1)) /\ Cardinality(m..(n - 1)) = IF m > n - 1 THEN 0 ELSE n - m
  BY FS_Interval
<1> DEFINE rank == [p \in Tail(m) |-> Rank(p)]
<1>4. rank \in [Tail(m) -> m..(n - 1)]
  <2>1. ASSUME NEW p \in Tail(m)  PROVE Rank(p) \in m..(n - 1)
    BY <1>2, RanksFit DEF Ranked, Tail, TypeOK, Untied
  <2> QED BY <2>1
<1>5. \A p, q \in Tail(m) : rank[p] = rank[q] => p = q
  BY RanksDiffer DEF Tail, TypeOK
<1>6. ~(Cardinality(m..(n - 1)) < Cardinality(Tail(m)))
  <2> HIDE DEF rank
  <2> QED BY <1>1, <1>3, <1>4, <1>5, FS_PigeonHole
<1>7. Cardinality(Tail(m)) <= IF m > n - 1 THEN 0 ELSE n - m
  BY <1>1, <1>3, <1>6
<1> QED BY <1>1, <1>2, <1>7

LEMMA FindKeeps ==
    ASSUME WalkInv, TypeOK', Find
    PROVE  WalkInv'
<1>1. PICK items \in Pages(page, Limit) : seen' = seen \cup items
  BY DEF Find, Limit
<1>2. /\ pc = "Find" /\ pc' \in {"Count", "read"}
      /\ UNCHANGED <<created_at, projects, remaining, query, total, there, torn>>
  BY DEF Find
<1>3. /\ page \in Nat \ {0} /\ total \in Nat /\ torn \in Nat
      /\ Limit \in Nat \ {0} /\ query.limit \in Int
  BY <1>2, LimitsFit DEF WalkInv, TypeOK
<1>4. PICK end \in Nat : end = page * Limit
  BY <1>3
<1>5. ASSUME NEW p \in there \ seen', Rank(p) < end
      PROVE  p \in Missed
  <2>1. p \in Untied /\ Rank(p) \in Nat /\ p \notin items /\ p \notin seen
    BY <1>1, RanksFit DEF Ranked, WalkInv, TypeOK, Untied
  <2>2. Rank(p) < Offset
    <3>1. ~(Offset <= Rank(p))
      BY <1>1, <1>3, <1>4, <1>5, <2>1, PagesHoldRanks DEF WalkInv, Offset
    <3> QED BY <2>1, <3>1, OffsetsFit DEF WalkInv
  <2> QED BY <2>1, <2>2 DEF Missed
<1>6. /\ Cardinality(Missed) \in Nat /\ IsFiniteSet(Missed)
      /\ Cardinality(Listed) \in Nat /\ Grown \in Nat
      /\ Cardinality(Missed) + Grown <= torn
  BY <1>2, MissedFinite, ListedFinite, GrownFits DEF WalkInv, ListedFits
<1>7. CASE pc' = "Count"
  <2>1. page' = page + 1
    BY <1>7 DEF Find
  <2>2. Offset' = end
    <3>1. Offset' = ((page + 1) - 1) * Limit
      BY <1>2, <2>1, ViewStands DEF Offset
    <3> QED BY <1>3, <1>4, <3>1
  <2>3. Missed' \subseteq Missed
    BY <1>2, <1>5, <2>2, ViewStands DEF Missed
  <2>4. Cardinality(Missed)' <= Cardinality(Missed) /\ Cardinality(Missed)' \in Nat
    BY <1>6, <2>3, FS_Subset, NextFits
  <2> QED BY <1>2, <1>3, <1>6, <1>7, <2>4 DEF WalkInv, WalkMissesFew
<1>8. CASE pc' = "read"
  <2>1. page' = page /\ page >= TotalPages(total, ReportedLimit(query.limit))
    BY <1>8 DEF Find
  <2>2. there \ seen' \subseteq Missed \cup Tail(end)
    <3>1. ASSUME NEW p \in there \ seen'  PROVE p \in Missed \cup Tail(end)
      <4>1. Rank(p) \in Nat
        BY RanksFit DEF Ranked, WalkInv, TypeOK, Untied
      <4> QED BY <1>5, <4>1 DEF Tail
    <3> QED BY <3>1
  <2>3. /\ IsFiniteSet(Tail(end)) /\ Cardinality(Tail(end)) \in Nat
        /\ \/ Cardinality(Tail(end)) = 0
           \/ Cardinality(Tail(end)) <= Cardinality(Listed) - end
    BY TailFits DEF WalkInv
  <2>4. /\ Cardinality(there \ seen') \in Nat
        /\ Cardinality(there \ seen') <= Cardinality(Missed) + Cardinality(Tail(end))
    <3>1. /\ IsFiniteSet(Missed \cup Tail(end))
          /\ Cardinality(Missed \cup Tail(end))
               = Cardinality(Missed) + Cardinality(Tail(end)) - Cardinality(Missed \cap Tail(end))
      BY <1>6, <2>3, FS_Union
    <3>2. Cardinality(Missed \cap Tail(end)) \in Nat
      <4>1. IsFiniteSet(Missed \cap Tail(end))
        BY <1>6, FS_Subset
      <4> QED BY <4>1, FS_CardinalityType
    <3>3. /\ IsFiniteSet(there \ seen')
          /\ Cardinality(there \ seen') <= Cardinality(Missed \cup Tail(end))
      BY <2>2, <3>1, FS_Subset
    <3> QED BY <1>6, <2>3, <3>1, <3>2, <3>3, FS_CardinalityType
  <2>5. CutOff' \in Nat /\ Cardinality(Tail(end)) <= Grown + CutOff'
    <3>1. CASE query.limit <= MaxLimit
      <4>1. total <= end
        BY <1>2, <1>3, <1>4, <2>1, <3>1, LimitsFit, LastPageIsEnough DEF WalkInv
      <4>2. CutOff' = 0
        BY <1>2, <1>3, <3>1, LimitsAssumption DEF CutOff
      <4> QED BY <1>3, <1>6, <2>3, <4>1, <4>2 DEF Grown
    <3>2. CASE query.limit > MaxLimit
      <4>1. Limit = MaxLimit
        BY <1>2, <3>2, LimitsFit DEF WalkInv
      <4>2. CutOff' = IF total > end THEN total - end ELSE 0
        BY <1>2, <1>4, <2>1, <3>2, <4>1 DEF CutOff
      <4> QED BY <1>3, <1>6, <2>3, <4>2 DEF Grown
    <3> QED BY <1>3, <3>1, <3>2, LimitsAssumption
  <2>6. Cardinality(there \ seen') <= torn + CutOff'
    BY <1>3, <1>6, <2>3, <2>4, <2>5
  <2> QED BY <1>2, <1>8, <2>6 DEF WalkInv, WalkMissesFew
<1> QED BY <1>2, <1>7, <1>8

LEMMA WalkNext == WalkInv /\ [Next]_vars => WalkInv'
<1> SUFFICES ASSUME WalkInv, [Next]_vars  PROVE WalkInv'
  OBVIOUS
<1>1. TypeOK'
  BY TypeNext DEF WalkInv
<1>2. CASE Done
  BY <1>1, <1>2 DEF Done, WalkInv, WalkMissesFew
<1>3. CASE UNCHANGED vars
  <2>1. Listed' = Listed /\ Missed' = Missed /\ Grown' = Grown /\ CutOff' = CutOff
    BY <1>3, ViewStands DEF vars, Missed, Offset, Grown, CutOff
  <2> QED BY <1>1, <1>3, <2>1 DEF vars, WalkInv, WalkMissesFew
<1> QED
  BY <1>1, <1>2, <1>3, StartKeeps, CountKeeps, FindKeeps, CreateKeeps, DeleteKeeps,
     ApproveKeeps DEF Next

LEMMA WalkInit == Init => WalkInv
BY DEF Init, WalkInv, WalkMissesFew, TypeOK

LEMMA WalkInvariant == Spec => []WalkInv
BY WalkInit, WalkNext, PTL DEF Spec

(* What a walk has not shown at its end of the projects that were listed   *)
(* and untied all along is bounded by the deletions, moves and creations   *)
(* counted under it and by the rows a limit above MaxLimit cuts off        *)
(* (project_repository.go: FindAll, with the OFFSET of NewMeta's pages),   *)
(* for any number of projects, pages and limits.                           *)
THEOREM WalksMissFew == Spec => []WalkMissesFew
<1>1. WalkInv => WalkMissesFew
  BY DEF WalkInv
<1> QED BY <1>1, WalkInvariant, PTL

=============================================================================
