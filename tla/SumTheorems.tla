----------------------------- MODULE SumTheorems -----------------------------
(***************************************************************************)
(* What SumFunctionOnSet and SumFunction of the module Functions compute.  *)
(* Both are a recursion over the subsets of a set that takes the elements  *)
(* in the order CHOOSE has them; the lemmas of this module say that it     *)
(* ends, that the order does not matter, and how a sum changes with its    *)
(* terms.  Inductions are over a least counterexample: a nonempty set of   *)
(* subsets of a finite set has a minimal element (WFMin).                  *)
(***************************************************************************)
EXTENDS Integers, Functions, FiniteSetTheorems, WellFoundedInduction, TLAPS

LEMMA MinimalSubset ==
    ASSUME NEW S, IsFiniteSet(S), NEW Bad \in SUBSET (SUBSET S), Bad # {}
    PROVE  \E T \in Bad : \A x \in T : T \ {x} \notin Bad
<1> DEFINE R == StrictSubsetOrdering(S)
<1>1. Bad \subseteq FiniteSubsetsOf(S)
  BY FS_FiniteSubsetsOfFinite
<1>2. IsWellFoundedOn(R, FiniteSubsetsOf(S))
  BY FS_StrictSubsetOrderingWellFounded
<1>3. PICK T \in Bad : \A U \in Bad : <<U, T>> \notin R
  <2> HIDE DEF R
  <2> QED BY <1>1, <1>2, WFMin
<1>4. ASSUME NEW x \in T  PROVE T \ {x} \notin Bad
  <2>1. T \ {x} \subseteq T /\ T \ {x} # T /\ T \ {x} \in SUBSET S
    BY <1>4
  <2>2. <<T \ {x}, T>> \in R
    BY <2>1 DEF StrictSubsetOrdering
  <2> QED BY <1>3, <2>2
<1> QED BY <1>3, <1>4

(* A set that has 0 and the successor of each of its numbers has them all. *)
LEMMA Counting ==
    ASSUME NEW G, 0 \in G, \A n \in Nat : n \in G => n + 1 \in G
    PROVE  Nat \subseteq G
<1> DEFINE Bad == Nat \ G
           R == OpToRel(<, Nat)
<1> SUFFICES ASSUME Bad # {}  PROVE FALSE
  OBVIOUS
<1>1. PICK n \in Bad : \A m \in Bad : <<m, n>> \notin R
  <2>1. Bad \subseteq Nat
    OBVIOUS
  <2>2. IsWellFoundedOn(R, Nat)
    BY NatLessThanWellFounded, Zenon
  <2> HIDE DEF Bad, R
  <2> QED BY <2>1, <2>2, WFMin
<1>2. n - 1 \in Nat /\ n - 1 < n
  OBVIOUS
<1>3. <<n - 1, n>> \in R
  BY <1>2 DEF OpToRel
<1>4. n - 1 \in G
  BY <1>1, <1>2, <1>3
<1> QED BY <1>2, <1>4

-----------------------------------------------------------------------------
(* The recursion of SumFunctionOnSet, on the sets of U.                    *)

First(s) == CHOOSE x \in s : TRUE

Sums(f, U, g) ==
    g = [s \in U |-> IF s = {} THEN 0 ELSE f[First(s)] + g[s \ {First(s)}]]

(* It has a solution: one on the subsets of at most n elements gives one   *)
(* on those of at most n + 1.                                              *)
LEMMA SumsExist ==
    ASSUME NEW S, IsFiniteSet(S), NEW f
    PROVE  \E g : Sums(f, SUBSET S, g)
<1> DEFINE Small(n) == {s \in SUBSET S : Cardinality(s) <= n}
           G == {n \in Nat : \E g : Sums(f, Small(n), g)}
<1>1. \A s \in SUBSET S :
        IsFiniteSet(s) /\ Cardinality(s) \in Nat /\ Cardinality(s) <= Cardinality(S)
  BY FS_Subset, FS_CardinalityType
<1>2. 0 \in G
  <2>1. Small(0) = {{}}
    BY <1>1, FS_EmptySet
  <2>2. Sums(f, Small(0), [s \in Small(0) |-> 0])
    BY <2>1 DEF Sums
  <2> QED BY <2>2
<1>3. ASSUME NEW n \in Nat, n \in G  PROVE n + 1 \in G
  <2>1. PICK g : Sums(f, Small(n), g)
    BY <1>3
  <2> DEFINE h == [s \in Small(n + 1) |->
                     IF s = {} THEN 0 ELSE f[First(s)] + g[s \ {First(s)}]]
  <2>2. \A s \in Small(n + 1) : s # {} => s \ {First(s)} \in Small(n)
    <3> SUFFICES ASSUME NEW s \in Small(n + 1), s # {}
                 PROVE  s \ {First(s)} \in Small(n)
      OBVIOUS
    <3>1. First(s) \in s
      BY DEF First
    <3>2. IsFiniteSet(s) /\ Cardinality(s) \in Nat /\ Cardinality(s) <= n + 1
      BY <1>1
    <3>3. Cardinality(s \ {First(s)}) = Cardinality(s) - 1
      BY <3>1, <3>2, FS_RemoveElement
    <3> QED BY <3>2, <3>3
  <2>3. \A s \in Small(n) : s \in Small(n + 1)
    BY <1>1
  <2> HIDE DEF Small
  <2>4. \A s \in Small(n) : g[s] = h[s]
    BY <2>1, <2>3 DEF Sums
  <2>5. Sums(f, Small(n + 1), h)
    BY <2>2, <2>4 DEF Sums
  <2> HIDE DEF h
  <2> QED BY <2>5
<1>4. Cardinality(S) \in G
  <2> HIDE DEF G
  <2>1. Nat \subseteq G
    BY <1>2, <1>3, Counting
  <2> QED BY <2>1, FS_CardinalityType
<1>5. Small(Cardinality(S)) = SUBSET S
  BY <1>1
<1> HIDE DEF Small
<1> QED BY <1>4, <1>5

(* And only one, whatever larger set it is part of.                        *)
LEMMA SumsAgree ==
    ASSUME NEW S, IsFiniteSet(S), NEW T \in SUBSET S, NEW f, NEW g, NEW h,
           Sums(f, SUBSET S, g), Sums(f, SUBSET T, h)
    PROVE  g[T] = h[T]
<1> DEFINE Bad == {s \in SUBSET T : g[s] # h[s]}
<1> SUFFICES ASSUME Bad # {}  PROVE FALSE
  OBVIOUS
<1>1. PICK s \in Bad : \A x \in s : s \ {x} \notin Bad
  <2>1. IsFiniteSet(T) /\ Bad \in SUBSET (SUBSET T)
    BY FS_Subset
  <2> HIDE DEF Bad
  <2> QED BY <2>1, MinimalSubset
<1>2. /\ g[s] = IF s = {} THEN 0 ELSE f[First(s)] + g[s \ {First(s)}]
      /\ h[s] = IF s = {} THEN 0 ELSE f[First(s)] + h[s \ {First(s)}]
  BY <1>1 DEF Sums
<1>3. s # {} => First(s) \in s
  BY DEF First
<1> QED BY <1>1, <1>2, <1>3

LEMMA SumIsLast ==
    ASSUME NEW S, IsFiniteSet(S), NEW f, NEW g, Sums(f, SUBSET S, g)
    PROVE  SumFunctionOnSet(f, S) = g[S]
<1> DEFINE it == CHOOSE h : Sums(f, SUBSET S, h)
<1>1. Sums(f, SUBSET S, it)
  OBVIOUS
<1>2. SumFunctionOnSet(f, S) = it[S]
  BY Zenon DEF SumFunctionOnSet, FoldFunctionOnSet, MapThenFoldSet, Sums, First
<1> HIDE DEF it
<1> QED BY <1>1, <1>2, SumsAgree

LEMMA SumOfFirst ==
    ASSUME NEW S, IsFiniteSet(S), NEW f
    PROVE  SumFunctionOnSet(f, S) =
             IF S = {} THEN 0
             ELSE f[First(S)] + SumFunctionOnSet(f, S \ {First(S)})
<1> DEFINE R == S \ {First(S)}
<1>1. PICK g : Sums(f, SUBSET S, g)
  BY SumsExist
<1>2. IsFiniteSet(R) /\ R \in SUBSET S
  BY FS_Subset
<1>3. PICK h : Sums(f, SUBSET R, h)
  <2> HIDE DEF R
  <2> QED BY <1>2, SumsExist
<1>4. SumFunctionOnSet(f, S) = g[S]
  BY <1>1, SumIsLast
<1>5. SumFunctionOnSet(f, R) = h[R] /\ h[R] = g[R]
  <2> HIDE DEF R
  <2> QED BY <1>1, <1>2, <1>3, SumIsLast, SumsAgree
<1>6. g[S] = IF S = {} THEN 0 ELSE f[First(S)] + g[R]
  BY <1>1 DEF Sums
<1> QED BY <1>4, <1>5, <1>6

-----------------------------------------------------------------------------
(* The sum of integers is one, and its terms come in any order.            *)

LEMMA SumOfNone == ASSUME NEW f  PROVE SumFunctionOnSet(f, {}) = 0
BY SumOfFirst, FS_EmptySet

LEMMA SumIsInt ==
    ASSUME NEW S, IsFiniteSet(S), NEW f, \A x \in S : f[x] \in Int
    PROVE  SumFunctionOnSet(f, S) \in Int
<1> DEFINE Bad == {T \in SUBSET S : SumFunctionOnSet(f, T) \notin Int}
<1> SUFFICES ASSUME Bad # {}  PROVE FALSE
  OBVIOUS
<1>1. PICK T \in Bad : \A x \in T : T \ {x} \notin Bad
  <2>1. Bad \in SUBSET (SUBSET S)
    OBVIOUS
  <2> HIDE DEF Bad
  <2> QED BY <2>1, MinimalSubset
<1>2. T # {} => First(T) \in T
  BY DEF First
<1>3. SumFunctionOnSet(f, T) =
        IF T = {} THEN 0 ELSE f[First(T)] + SumFunctionOnSet(f, T \ {First(T)})
  BY SumOfFirst, FS_Subset
<1> QED BY <1>1, <1>2, <1>3

LEMMA SumWithout ==
    ASSUME NEW S, IsFiniteSet(S), NEW f, \A x \in S : f[x] \in Int, NEW x \in S
    PROVE  SumFunctionOnSet(f, S) = f[x] + SumFunctionOnSet(f, S \ {x})
<1> DEFINE Sum(T) == SumFunctionOnSet(f, T)
           Bad == {T \in SUBSET S : \E y \in T : Sum(T) # f[y] + Sum(T \ {y})}
<1> SUFFICES ASSUME Bad # {}  PROVE FALSE
  OBVIOUS
<1>1. PICK T \in Bad : \A y \in T : T \ {y} \notin Bad
  <2>1. Bad \in SUBSET (SUBSET S)
    OBVIOUS
  <2> HIDE DEF Bad
  <2> QED BY <2>1, MinimalSubset
<1>2. PICK y \in T : Sum(T) # f[y] + Sum(T \ {y})
  BY <1>1
<1>3. PICK z \in T : z = First(T)
  BY <1>2 DEF First
<1>4. \A U \in SUBSET S : IsFiniteSet(U) /\ Sum(U) \in Int
  BY SumIsInt, FS_Subset
<1>5. Sum(T) = f[z] + Sum(T \ {z})
  BY <1>3, <1>4, SumOfFirst
<1>6. y # z
  BY <1>2, <1>5
<1>7. Sum(T \ {z}) = f[y] + Sum((T \ {z}) \ {y})
  BY <1>1, <1>6
<1>8. Sum(T \ {y}) = f[z] + Sum((T \ {y}) \ {z})
  BY <1>1, <1>6
<1>9. Sum((T \ {y}) \ {z}) = Sum((T \ {z}) \ {y})
  <2>1. (T \ {y}) \ {z} = (T \ {z}) \ {y}
    OBVIOUS
  <2> QED BY <2>1
<1>10. PICK rest \in Int : rest = Sum((T \ {z}) \ {y})
  BY <1>4
<1>11. Sum(T) = f[z] + (f[y] + rest) /\ Sum(T \ {y}) = f[z] + rest
  BY <1>5, <1>7, <1>8, <1>9, <1>10
<1>12. f[y] \in Int /\ f[z] \in Int
  OBVIOUS
<1>13. f[z] + (f[y] + rest) = f[y] + (f[z] + rest)
  BY <1>12
<1> QED BY <1>2, <1>11, <1>13

LEMMA SumOfSame ==
    ASSUME NEW S, IsFiniteSet(S), NEW f, NEW g,
           \A x \in S : f[x] \in Int /\ g[x] = f[x]
    PROVE  SumFunctionOnSet(g, S) = SumFunctionOnSet(f, S)
<1> DEFINE Bad == {T \in SUBSET S : SumFunctionOnSet(g, T) # SumFunctionOnSet(f, T)}
<1> SUFFICES ASSUME Bad # {}  PROVE FALSE
  OBVIOUS
<1>1. PICK T \in Bad : \A x \in T : T \ {x} \notin Bad
  <2>1. Bad \in SUBSET (SUBSET S)
    OBVIOUS
  <2> HIDE DEF Bad
  <2> QED BY <2>1, MinimalSubset
<1>2. T # {} => First(T) \in T
  BY DEF First
<1>3. /\ SumFunctionOnSet(f, T) =
           IF T = {} THEN 0 ELSE f[First(T)] + SumFunctionOnSet(f, T \ {First(T)})
      /\ SumFunctionOnSet(g, T) =
           IF T = {} THEN 0 ELSE g[First(T)] + SumFunctionOnSet(g, T \ {First(T)})
  BY SumOfFirst, FS_Subset
<1> QED BY <1>1, <1>2, <1>3

(* Two functions that differ at x only, x perhaps outside one domain.      *)
LEMMA SumChangesAt ==
    ASSUME NEW S, IsFiniteSet(S), NEW T, IsFiniteSet(T),
           NEW f \in [S -> Int], NEW g \in [T -> Int],
           NEW x, S \ {x} = T \ {x}, \A y \in S \ {x} : g[y] = f[y]
    PROVE  SumFunction(g) = SumFunction(f) - (IF x \in S THEN f[x] ELSE 0)
                                           + (IF x \in T THEN g[x] ELSE 0)
<1> DEFINE rest == S \ {x}
<1>1. IsFiniteSet(rest)
  BY FS_Subset
<1>2. SumFunctionOnSet(f, S) = (IF x \in S THEN f[x] ELSE 0) + SumFunctionOnSet(f, rest)
  <2>1. CASE x \in S
    BY <2>1, SumWithout
  <2>2. CASE x \notin S
    <3>1. rest = S
      BY <2>2
    <3>2. SumFunctionOnSet(f, S) \in Int
      BY SumIsInt
    <3>3. SumFunctionOnSet(f, rest) = SumFunctionOnSet(f, S)
      BY <3>1
    <3> HIDE DEF rest
    <3> QED BY <2>2, <3>2, <3>3
  <2> QED BY <2>1, <2>2
<1>3. SumFunctionOnSet(g, T) = (IF x \in T THEN g[x] ELSE 0) + SumFunctionOnSet(g, rest)
  <2>1. CASE x \in T
    BY <2>1, SumWithout
  <2>2. CASE x \notin T
    <3>1. rest = T
      BY <2>2
    <3>2. SumFunctionOnSet(g, T) \in Int
      BY SumIsInt
    <3>3. SumFunctionOnSet(g, rest) = SumFunctionOnSet(g, T)
      BY <3>1
    <3> HIDE DEF rest
    <3> QED BY <2>2, <3>2, <3>3
  <2> QED BY <2>1, <2>2
<1>4. SumFunctionOnSet(g, rest) = SumFunctionOnSet(f, rest)
  BY <1>1, SumOfSame
<1>5. SumFunctionOnSet(f, rest) \in Int
  BY <1>1, SumIsInt
<1>6. (x \in S => f[x] \in Int) /\ (x \in T => g[x] \in Int)
  OBVIOUS
<1>7. SumFunction(f) = SumFunctionOnSet(f, S) /\ SumFunction(g) = SumFunctionOnSet(g, T)
  BY DEF SumFunction
<1> HIDE DEF rest
<1> QED BY <1>2, <1>3, <1>4, <1>5, <1>6, <1>7

LEMMA SumOfConstant ==
    ASSUME NEW S, IsFiniteSet(S), NEW c \in Int
    PROVE  SumFunction([x \in S |-> c]) = Cardinality(S) * c
<1> DEFINE f == [x \in S |-> c]
           Bad == {T \in SUBSET S : SumFunctionOnSet(f, T) # Cardinality(T) * c}
<1>1. SUFFICES ASSUME Bad # {}  PROVE FALSE
  BY DEF SumFunction
<1>2. PICK T \in Bad : \A x \in T : T \ {x} \notin Bad
  <2>1. Bad \in SUBSET (SUBSET S)
    OBVIOUS
  <2> HIDE DEF Bad
  <2> QED BY <1>1, <2>1, MinimalSubset
<1>3. IsFiniteSet(T) /\ Cardinality(T) \in Nat
  BY FS_Subset, FS_CardinalityType
<1>4. CASE T = {}
  BY <1>2, <1>4, SumOfNone, FS_EmptySet
<1>5. CASE T # {}
  <2>1. First(T) \in T /\ f[First(T)] = c
    BY <1>5 DEF First
  <2>2. SumFunctionOnSet(f, T) = c + SumFunctionOnSet(f, T \ {First(T)})
    BY <1>3, <1>5, <2>1, SumOfFirst
  <2>3. SumFunctionOnSet(f, T \ {First(T)}) = Cardinality(T \ {First(T)}) * c
    BY <1>2, <2>1
  <2>4. Cardinality(T \ {First(T)}) = Cardinality(T) - 1
    BY <1>3, <2>1, FS_RemoveElement
  <2>5. c + (Cardinality(T) - 1) * c = Cardinality(T) * c
    BY <1>3
  <2> QED BY <1>2, <2>2, <2>3, <2>4, <2>5
<1> QED BY <1>4, <1>5

LEMMA SumOfNothing == ASSUME NEW f, DOMAIN f = {}  PROVE SumFunction(f) = 0
BY SumOfNone DEF SumFunction

LEMMA SumType ==
    ASSUME NEW S, IsFiniteSet(S), NEW f \in [S -> Int]
    PROVE  SumFunction(f) \in Int
BY SumIsInt DEF SumFunction

-----------------------------------------------------------------------------
(* Sums over part of a domain.                                             *)

LEMMA SumOverChangesAt ==
    ASSUME NEW S, IsFiniteSet(S), NEW f, NEW g, \A y \in S : f[y] \in Int /\ g[y] \in Int,
           NEW x \in S, \A y \in S \ {x} : g[y] = f[y]
    PROVE  SumFunctionOnSet(g, S) = SumFunctionOnSet(f, S) - f[x] + g[x]
<1> DEFINE rest == S \ {x}
<1>1. IsFiniteSet(rest)
  BY FS_Subset
<1>2. /\ SumFunctionOnSet(f, S) = f[x] + SumFunctionOnSet(f, rest)
      /\ SumFunctionOnSet(g, S) = g[x] + SumFunctionOnSet(g, rest)
  BY SumWithout
<1>3. SumFunctionOnSet(g, rest) = SumFunctionOnSet(f, rest)
  BY <1>1, SumOfSame
<1>4. SumFunctionOnSet(f, rest) \in Int /\ f[x] \in Int /\ g[x] \in Int
  BY <1>1, SumIsInt
<1> HIDE DEF rest
<1> QED BY <1>2, <1>3, <1>4

(* Each term grows by c at most.                                           *)
LEMMA SumGrows ==
    ASSUME NEW S, IsFiniteSet(S), NEW f, NEW g, NEW c \in Int,
           \A x \in S : f[x] \in Int /\ g[x] \in Int /\ g[x] <= f[x] + c
    PROVE  SumFunctionOnSet(g, S) <= SumFunctionOnSet(f, S) + Cardinality(S) * c
<1> DEFINE Bad == {T \in SUBSET S :
                     ~(SumFunctionOnSet(g, T) <= SumFunctionOnSet(f, T) + Cardinality(T) * c)}
<1> SUFFICES ASSUME Bad # {}  PROVE FALSE
  OBVIOUS
<1>1. PICK T \in Bad : \A x \in T : T \ {x} \notin Bad
  <2>1. Bad \in SUBSET (SUBSET S)
    OBVIOUS
  <2> HIDE DEF Bad
  <2> QED BY <2>1, MinimalSubset
<1>2. \A U \in SUBSET S : /\ IsFiniteSet(U) /\ Cardinality(U) \in Nat
                          /\ SumFunctionOnSet(f, U) \in Int
                          /\ SumFunctionOnSet(g, U) \in Int
  BY FS_Subset, FS_CardinalityType, SumIsInt
<1>3. CASE T = {}
  BY <1>1, <1>3, SumOfNone, FS_EmptySet
<1>4. CASE T # {}
  <2>1. PICK x \in T : TRUE
    BY <1>4
  <2>2. /\ SumFunctionOnSet(f, T) = f[x] + SumFunctionOnSet(f, T \ {x})
        /\ SumFunctionOnSet(g, T) = g[x] + SumFunctionOnSet(g, T \ {x})
    BY <1>2, SumWithout
  <2>3. SumFunctionOnSet(g, T \ {x})
          <= SumFunctionOnSet(f, T \ {x}) + Cardinality(T \ {x}) * c
    BY <1>1
  <2>4. Cardinality(T \ {x}) = Cardinality(T) - 1
    BY <1>2, FS_RemoveElement
  <2>5. (Cardinality(T) - 1) * c + c = Cardinality(T) * c /\ (Cardinality(T) - 1) * c \in Int
    BY <1>2
  <2>6. f[x] \in Int /\ g[x] \in Int /\ g[x] <= f[x] + c
    BY <1>1
  <2>7. T \ {x} \in SUBSET S
    OBVIOUS
  <2>8. ~(SumFunctionOnSet(g, T) <= SumFunctionOnSet(f, T) + Cardinality(T) * c)
    BY <1>1
  <2>9. PICK most \in Int : most = (Cardinality(T) - 1) * c /\ Cardinality(T) * c = most + c
    BY <2>5
  <2>10. PICK F \in Int, G \in Int :
           F = SumFunctionOnSet(f, T \ {x}) /\ G = SumFunctionOnSet(g, T \ {x})
    BY <1>2, <2>7
  <2>11. G <= F + most /\ ~(g[x] + G <= f[x] + F + (most + c))
    BY <2>2, <2>3, <2>4, <2>8, <2>9, <2>10
  <2> QED BY <2>6, <2>11
<1> QED BY <1>3, <1>4

LEMMA SumOfZeros ==
    ASSUME NEW S, IsFiniteSet(S)
    PROVE  SumFunctionOnSet([x \in S |-> 0], S) = 0
<1>1. 0 \in Int /\ Cardinality(S) * 0 = 0
  BY FS_CardinalityType
<1>2. SumFunction([x \in S |-> 0]) = Cardinality(S) * 0
  BY <1>1, SumOfConstant
<1> QED BY <1>1, <1>2 DEF SumFunction

LEMMA SumAtMost ==
    ASSUME NEW S, IsFiniteSet(S), NEW f, NEW c \in Int,
           \A x \in S : f[x] \in Int /\ f[x] <= c
    PROVE  SumFunctionOnSet(f, S) <= Cardinality(S) * c
<1> DEFINE none == [x \in S |-> 0]
<1>1. \A x \in S : none[x] \in Int /\ f[x] \in Int /\ f[x] <= none[x] + c
  OBVIOUS
<1>2. SumFunctionOnSet(none, S) = 0
  BY SumOfZeros
<1> HIDE DEF none
<1>3. SumFunctionOnSet(f, S) <= SumFunctionOnSet(none, S) + Cardinality(S) * c
  BY <1>1, SumGrows
<1>4. Cardinality(S) * c \in Int
  BY FS_CardinalityType
<1> QED BY <1>2, <1>3, <1>4

LEMMA SumIsNat ==
    ASSUME NEW S, IsFiniteSet(S), NEW f, \A x \in S : f[x] \in Nat
    PROVE  SumFunctionOnSet(f, S) \in Nat
<1> DEFINE none == [x \in S |-> 0]
<1>1. /\ 0 \in Int
      /\ \A x \in S : none[x] \in Int /\ f[x] \in Int /\ none[x] <= f[x] + 0
  OBVIOUS
<1>2. SumFunctionOnSet(none, S) = 0
  BY SumOfZeros
<1> HIDE DEF none
<1>3. SumFunctionOnSet(none, S) <= SumFunctionOnSet(f, S) + Cardinality(S) * 0
  BY <1>1, SumGrows
<1>4. Cardinality(S) * 0 = 0
  BY FS_CardinalityType
<1>5. SumFunctionOnSet(f, S) \in Int
  BY <1>1, SumIsInt
<1> QED BY <1>2, <1>3, <1>4, <1>5

LEMMA SumOfInterval ==
    ASSUME NEW k \in Nat, NEW f, \A i \in 0..k : f[i] \in Int
    PROVE  SumFunctionOnSet(f, 0..k) = f[k] + SumFunctionOnSet(f, 0..(k - 1))
<1>1. IsFiniteSet(0..k)
  BY FS_Interval
<1>2. k \in 0..k /\ (0..k) \ {k} = 0..(k - 1)
  OBVIOUS
<1>3. SumFunctionOnSet(f, 0..k) = f[k] + SumFunctionOnSet(f, (0..k) \ {k})
  BY <1>1, <1>2, SumWithout
<1> QED BY <1>2, <1>3

(* The terms of 0..n-1, one place further on.                              *)
LEMMA SumOfShifted ==
    ASSUME NEW f, NEW g, NEW n \in Nat, \A i \in 0..n : f[i] \in Int /\ g[i] \in Int,
           g[0] = 0, \A i \in 1..n : g[i] = f[i - 1]
    PROVE  SumFunctionOnSet(g, 0..n) = SumFunctionOnSet(f, 0..(n - 1))
<1> DEFINE G == {k \in Nat : k <= n =>
                   SumFunctionOnSet(g, 0..k) = SumFunctionOnSet(f, 0..(k - 1))}
<1>1. 0 \in G
  <2>1. SumFunctionOnSet(g, 0..0) = g[0] + SumFunctionOnSet(g, 0..(0 - 1))
    <3>1. \A i \in 0..0 : g[i] \in Int
      OBVIOUS
    <3>2. 0 \in Nat
      OBVIOUS
    <3> QED BY <3>1, <3>2, SumOfInterval
  <2>2. 0..(0 - 1) = {}
    OBVIOUS
  <2>3. SumFunctionOnSet(g, 0..(0 - 1)) = 0 /\ SumFunctionOnSet(f, 0..(0 - 1)) = 0
    BY <2>2, SumOfNone
  <2> QED BY <2>1, <2>3
<1>2. ASSUME NEW k \in Nat, k \in G  PROVE k + 1 \in G
  <2> SUFFICES ASSUME k + 1 <= n
               PROVE  SumFunctionOnSet(g, 0..(k + 1)) = SumFunctionOnSet(f, 0..((k + 1) - 1))
    OBVIOUS
  <2>1. SumFunctionOnSet(g, 0..k) = SumFunctionOnSet(f, 0..(k - 1))
    BY <1>2
  <2>2. SumFunctionOnSet(g, 0..(k + 1)) = g[k + 1] + SumFunctionOnSet(g, 0..((k + 1) - 1))
    BY SumOfInterval
  <2>3. SumFunctionOnSet(f, 0..k) = f[k] + SumFunctionOnSet(f, 0..(k - 1))
    BY SumOfInterval
  <2>4. (k + 1) - 1 = k /\ g[k + 1] = f[k]
    OBVIOUS
  <2> QED BY <2>1, <2>2, <2>3, <2>4
<1>3. Nat \subseteq G
  <2> HIDE DEF G
  <2> QED BY <1>1, <1>2, Counting
<1> QED BY <1>3

=============================================================================
