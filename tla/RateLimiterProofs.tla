-------------------------- MODULE RateLimiterProofs --------------------------
(***************************************************************************)
(* The limiters of one address for any number of concurrent requests and   *)
(* any burst.  Until the first Store every limiter is in the hands of a    *)
(* request that is about to store it, so there are no more than requests;  *)
(* after it none is made.                                                  *)
(***************************************************************************)
EXTENDS RateLimiter, SumTheorems, TLAPS

(* A request has a limiter from getLimiter on, and it has been created.    *)
HoldersFit ==
    /\ limiters # NoLimiter => limiters \in created
    /\ \A h \in Handlers : pc[h] # "getLimiter" => limiter[h] \in created

AboutToStore == {h \in Handlers : pc[h] = "Store"}

OnlyRacersCreate ==
    limiters = NoLimiter => \A l \in created : \E h \in AboutToStore : limiter[h] = l

LimitersInv ==
    /\ TypeOK
    /\ HoldersFit
    /\ OnlyRacersCreate
    /\ IsFiniteSet(created) /\ LimitersBounded

LEMMA LimitersInit == Init => LimitersInv
<1> SUFFICES ASSUME Init  PROVE LimitersInv
  OBVIOUS
<1>1. TypeOK
  BY BurstAssumption DEF Init, TypeOK
<1>2. HoldersFit /\ OnlyRacersCreate
  BY DEF Init, HoldersFit, OnlyRacersCreate
<1>3. IsFiniteSet(created) /\ LimitersBounded
  BY HandlersAssumption, FS_EmptySet, FS_CardinalityType DEF Init, LimitersBounded
<1> QED BY <1>1, <1>2, <1>3 DEF LimitersInv

(* Sharing limiters can only make them fewer than the requests.            *)
LEMMA FewerThanHolders ==
    ASSUME NEW L, NEW H, IsFiniteSet(H), NEW f, \A l \in L : \E h \in H : f[h] = l
    PROVE  IsFiniteSet(L) /\ Cardinality(L) <= Cardinality(H)
<1> DEFINE image == {f[h] : h \in H}
           g == [h \in H |-> f[h]]
<1>1. L \subseteq image
  OBVIOUS
<1>2. g \in Surjection(H, image)
  BY DEF Surjection
<1>3. IsFiniteSet(image) /\ Cardinality(image) <= Cardinality(H)
  BY <1>2, FS_Surjection
<1> HIDE DEF image
<1>4. /\ IsFiniteSet(L) /\ Cardinality(L) <= Cardinality(image)
      /\ Cardinality(L) \in Nat /\ Cardinality(image) \in Nat /\ Cardinality(H) \in Nat
  BY <1>1, <1>3, FS_Subset, FS_CardinalityType
<1> QED BY <1>3, <1>4

LEMMA LoadMissKeeps ==
    ASSUME LimitersInv, NEW h \in Handlers, LoadMiss(h)  PROVE LimitersInv'
<1>1. PICK l \in Limiters \ created :
        /\ created' = created \cup {l} /\ tokens' = [tokens EXCEPT ![l] = Burst]
        /\ limiter' = [limiter EXCEPT ![h] = l] /\ pc' = [pc EXCEPT ![h] = "Store"]
        /\ UNCHANGED <<limiters, admitted>> /\ limiters = NoLimiter
        /\ pc[h] = "getLimiter"
  BY DEF LoadMiss, Got, Exists
<1>2. TypeOK'
  BY <1>1, BurstAssumption DEF LimitersInv, TypeOK
<1>3. /\ pc'[h] = "Store" /\ limiter'[h] = l
      /\ \A g \in Handlers \ {h} : pc'[g] = pc[g] /\ limiter'[g] = limiter[g]
  BY <1>1 DEF LimitersInv, TypeOK
<1>4. HoldersFit'
  BY <1>1, <1>3 DEF LimitersInv, HoldersFit
<1>5. \A k \in created' : \E g \in AboutToStore' : limiter'[g] = k
  BY <1>1, <1>3 DEF LimitersInv, OnlyRacersCreate, AboutToStore
<1>6. \A k \in created' : \E g \in Handlers : limiter'[g] = k
  BY <1>5 DEF AboutToStore
<1>7. IsFiniteSet(created') /\ Cardinality(created') <= Cardinality(Handlers)
  <2> DEFINE L == created'
             f == limiter'
  <2>1. \A k \in L : \E g \in Handlers : f[g] = k
    BY <1>6
  <2> HIDE DEF L, f
  <2>2. IsFiniteSet(L) /\ Cardinality(L) <= Cardinality(Handlers)
    BY <2>1, HandlersAssumption, FewerThanHolders
  <2> QED BY <2>2 DEF L
<1> QED
  BY <1>2, <1>4, <1>5, <1>7 DEF LimitersInv, OnlyRacersCreate, LimitersBounded

(* Every other step leaves the set of limiters alone.                      *)
LEMMA OthersKeep ==
    ASSUME LimitersInv, TypeOK', HoldersFit', OnlyRacersCreate', created' = created
    PROVE  LimitersInv'
  BY DEF LimitersInv, LimitersBounded

LEMMA LimitersNext == LimitersInv /\ [Next]_vars => LimitersInv'
<1> SUFFICES ASSUME LimitersInv, [Next]_vars  PROVE LimitersInv'
  OBVIOUS
<1> USE DEF LimitersInv
<1>1. ASSUME NEW h \in Handlers, LoadHit(h)  PROVE LimitersInv'
  <2>1. TypeOK' /\ created' = created
    BY <1>1 DEF LoadHit, Got, TypeOK
  <2>2. HoldersFit' /\ OnlyRacersCreate'
    BY <1>1, <2>1 DEF LoadHit, Got, Exists, TypeOK, HoldersFit, OnlyRacersCreate,
       AboutToStore
  <2> QED BY <2>1, <2>2, OthersKeep
<1>2. ASSUME NEW h \in Handlers, LoadMiss(h)  PROVE LimitersInv'
  BY <1>2, LoadMissKeeps
<1>3. ASSUME NEW h \in Handlers, Store(h)  PROVE LimitersInv'
  <2>1. limiter[h] \in created /\ limiter[h] \in Limiters
    BY <1>3 DEF Store, HoldersFit, TypeOK
  <2>2. TypeOK' /\ created' = created
    BY <1>3, <2>1 DEF Store, TypeOK
  <2>3. HoldersFit' /\ OnlyRacersCreate'
    BY <1>3, <2>1, NoLimiterAssumption DEF Store, TypeOK, HoldersFit, OnlyRacersCreate
  <2> QED BY <2>2, <2>3, OthersKeep
<1>4. ASSUME NEW h \in Handlers, Allow(h)  PROVE LimitersInv'
  <2>1. /\ pc[h] = "Allow" /\ limiter[h] \in Limiters /\ limiter[h] \in created
        /\ created' = created /\ limiters' = limiters
        /\ pc' = [pc EXCEPT ![h] = "getLimiter"]
        /\ limiter' = [limiter EXCEPT ![h] = NoLimiter]
    BY <1>4 DEF Allow, Got, HoldersFit, TypeOK
  <2>2. tokens' \in [Limiters -> 0..Burst]
    BY <1>4, <2>1, BurstAssumption DEF Allow, TypeOK
  <2>3. admitted' \in [Minute -> Nat]
    BY <1>4, <2>1, BurstAssumption DEF Allow, TypeOK, Minute
  <2>4. TypeOK'
    BY <2>1, <2>2, <2>3 DEF TypeOK
  <2>5. HoldersFit' /\ OnlyRacersCreate'
    BY <2>1 DEF TypeOK, HoldersFit, OnlyRacersCreate, AboutToStore
  <2> QED BY <2>1, <2>4, <2>5, OthersKeep
<1>5. CASE Tick
  <2>1. tokens' \in [Limiters -> 0..Burst] /\ admitted' \in [Minute -> Nat]
    BY <1>5, BurstAssumption DEF Tick, Refilled, TypeOK, Minute
  <2>2. UNCHANGED <<limiters, created, pc, limiter>>
    BY <1>5 DEF Tick
  <2>3. TypeOK' /\ HoldersFit' /\ OnlyRacersCreate'
    BY <2>1, <2>2 DEF TypeOK, HoldersFit, OnlyRacersCreate, AboutToStore
  <2> QED BY <2>2, <2>3, OthersKeep
<1>6. CASE UNCHANGED vars
  <2>1. TypeOK' /\ HoldersFit' /\ OnlyRacersCreate' /\ created' = created
    BY <1>6 DEF vars, TypeOK, HoldersFit, OnlyRacersCreate, AboutToStore
  <2> QED BY <2>1, OthersKeep
<1> QED BY <1>1, <1>2, <1>3, <1>4, <1>5, <1>6 DEF Next

LEMMA LimitersInvHolds == Spec => []LimitersInv
  BY LimitersInit, LimitersNext, PTL DEF Spec

(* No bucket ever holds more than the burst or less than nothing, however  *)
(* Allow, the refill and the race for the map entry interleave.            *)
THEOREM BucketsTypeCorrect == Spec => []TypeOK
<1>1. LimitersInv => TypeOK
  BY DEF LimitersInv
<1> QED BY <1>1, LimitersInvHolds, PTL

(* For any number of concurrent first requests: the load and the store of  *)
(* getLimiter (ratelimit.go) never make more limiters than requests that   *)
(* were under way together, so the race adds at most that many bursts.     *)
THEOREM LimitersAreBounded == Spec => []LimitersBounded
<1>1. LimitersInv => LimitersBounded
  BY DEF LimitersInv
<1> QED BY <1>1, LimitersInvHolds, PTL

-----------------------------------------------------------------------------
(* Every admitted request took a token, and every token was in a new       *)
(* bucket or came with a tick: so what passed in the last k ticks, with    *)
(* what is left in the buckets, is at most a burst and k - 1 refills for   *)
(* each limiter.                                                           *)
Within(k) == SumFunctionOnSet(admitted, 0..(k - 1))

Left == SumFunctionOnSet(tokens, created)

Due(k) == Cardinality(created) * (Burst + k - 1)

AdmissionPaid == \A k \in 1..Burst : Within(k) + Left <= Due(k)

LEMMA AmountsFit ==
    ASSUME LimitersInv
    PROVE  /\ IsFiniteSet(created) /\ Cardinality(created) \in Nat
           /\ \A l \in created : tokens[l] \in 0..Burst
           /\ Left \in Nat
           /\ \A k \in 0..Burst : /\ \A i \in 0..(k - 1) : admitted[i] \in Nat
                                 /\ IsFiniteSet(0..(k - 1))
                                 /\ Within(k) \in Int
<1>1. IsFiniteSet(created) /\ Cardinality(created) \in Nat
  BY FS_CardinalityType DEF LimitersInv
<1>2. \A l \in created : tokens[l] \in 0..Burst
  BY DEF LimitersInv, TypeOK
<1>3. \A l \in created : tokens[l] \in Nat
  BY <1>2, BurstAssumption
<1>4. Left \in Nat
  BY <1>1, <1>3, SumIsNat DEF Left
<1>5. ASSUME NEW k \in 0..Burst
      PROVE  /\ \A i \in 0..(k - 1) : admitted[i] \in Nat
             /\ IsFiniteSet(0..(k - 1)) /\ Within(k) \in Int
  <2>1. \A i \in 0..(k - 1) : admitted[i] \in Nat
    BY BurstAssumption DEF LimitersInv, TypeOK, Minute
  <2>2. 0 \in Int /\ k - 1 \in Int
    BY BurstAssumption
  <2>3. IsFiniteSet(0..(k - 1))
    BY <2>2, FS_Interval
  <2>4. \A i \in 0..(k - 1) : admitted[i] \in Int
    BY <2>1
  <2> QED BY <2>1, <2>3, <2>4, SumIsInt DEF Within
<1> QED BY <1>1, <1>2, <1>4, <1>5

LEMMA LoadMissPaid ==
    ASSUME LimitersInv, LimitersInv', AdmissionPaid, NEW h \in Handlers, LoadMiss(h)
    PROVE  AdmissionPaid'
<1>1. PICK l \in Limiters \ created :
        /\ created' = created \cup {l} /\ tokens' = [tokens EXCEPT ![l] = Burst]
        /\ admitted' = admitted
  BY DEF LoadMiss
<1>2. /\ tokens'[l] = Burst /\ \A m \in created : tokens'[m] = tokens[m]
  BY <1>1 DEF LimitersInv, TypeOK
<1>3. \A m \in created : tokens[m] \in Int
  BY AmountsFit, BurstAssumption
<1>4. Left' = Burst + Left
  <2> DEFINE larger == created \cup {l}
             filled == tokens'
  <2>1. /\ IsFiniteSet(created) /\ IsFiniteSet(larger)
        /\ l \in larger /\ larger \ {l} = created
        /\ \A m \in larger : filled[m] \in Int
        /\ \A m \in created : tokens[m] \in Int /\ filled[m] = tokens[m]
    BY <1>2, <1>3, AmountsFit, FS_AddElement, BurstAssumption
  <2>2. Left' = SumFunctionOnSet(filled, larger) /\ Left = SumFunctionOnSet(tokens, created)
    BY <1>1 DEF Left
  <2>3. filled[l] = Burst
    BY <1>2
  <2> HIDE DEF larger, filled
  <2>4. SumFunctionOnSet(filled, larger) = filled[l] + SumFunctionOnSet(filled, larger \ {l})
    BY <2>1, SumWithout
  <2>5. SumFunctionOnSet(filled, created) = SumFunctionOnSet(tokens, created)
    BY <2>1, SumOfSame
  <2> QED BY <2>1, <2>2, <2>3, <2>4, <2>5
<1>5. ASSUME NEW k \in 1..Burst
      PROVE  Within(k)' + Left' <= Due(k)'
  <2>1. Within(k)' = Within(k) /\ Within(k) + Left <= Due(k)
    BY <1>1 DEF Within, AdmissionPaid
  <2>2. Cardinality(created') = Cardinality(created) + 1
    BY <1>1, AmountsFit, FS_AddElement
  <2>3. Due(k)' = Due(k) + (Burst + k - 1) /\ Due(k) \in Int
    <3>1. PICK C \in Nat, rate \in Int : C = Cardinality(created) /\ rate = Burst + k - 1
      BY AmountsFit, BurstAssumption
    <3>2. Due(k)' = (C + 1) * rate /\ Due(k) = C * rate
      BY <2>2, <3>1 DEF Due
    <3>3. (C + 1) * rate = C * rate + rate /\ C * rate \in Int
      BY <3>1
    <3> QED BY <3>1, <3>2, <3>3
  <2>4. Within(k) \in Int /\ Left \in Int
    BY AmountsFit, BurstAssumption
  <2> QED BY <1>4, <2>1, <2>3, <2>4, BurstAssumption
<1> QED BY <1>5 DEF AdmissionPaid

LEMMA AllowPaid ==
    ASSUME LimitersInv, LimitersInv', AdmissionPaid, NEW h \in Handlers, Allow(h)
    PROVE  AdmissionPaid'
<1>1. /\ limiter[h] \in created /\ limiter[h] \in Limiters /\ created' = created
  BY DEF Allow, LimitersInv, HoldersFit, TypeOK
<1>2. CASE UNCHANGED <<tokens, admitted>>
  BY <1>1, <1>2 DEF AdmissionPaid, Within, Left, Due
<1>3. CASE /\ tokens' = [tokens EXCEPT ![limiter[h]] = @ - 1]
           /\ admitted' = [admitted EXCEPT ![0] = @ + 1]
  <2>1. Left' = Left - 1
    <3>1. PICK l \in created : l = limiter[h]
      BY <1>1
    <3>2. /\ tokens'[l] = tokens[l] - 1
          /\ \A m \in created \ {l} : tokens'[m] = tokens[m]
      BY <1>1, <1>3, <3>1 DEF LimitersInv, TypeOK
    <3>3. \A m \in created : tokens[m] \in Int
      BY AmountsFit, BurstAssumption
    <3>4. \A m \in created : tokens[m] \in Int /\ tokens'[m] \in Int
      BY <3>2, <3>3
    <3>5. SumFunctionOnSet(tokens', created)
            = SumFunctionOnSet(tokens, created) - tokens[l] + tokens'[l]
      <4> DEFINE after == tokens'
      <4>1. /\ \A m \in created : tokens[m] \in Int /\ after[m] \in Int
            /\ \A m \in created \ {l} : after[m] = tokens[m]
            /\ IsFiniteSet(created)
        BY <3>2, <3>4, AmountsFit
      <4> HIDE DEF after
      <4>2. SumFunctionOnSet(after, created)
              = SumFunctionOnSet(tokens, created) - tokens[l] + after[l]
        BY <4>1, SumOverChangesAt
      <4> QED BY <4>2 DEF after
    <3>6. Left' = Left - tokens[l] + (tokens[l] - 1)
      BY <1>1, <3>2, <3>5 DEF Left
    <3> QED BY <3>3, <3>6, AmountsFit
  <2>2. ASSUME NEW k \in 1..Burst
        PROVE  Within(k)' = Within(k) + 1
    <3>1. /\ k \in 0..Burst /\ 0 \in 0..(k - 1) /\ 0 \in Minute
      BY BurstAssumption DEF Minute
    <3>2. /\ \A i \in 0..(k - 1) : admitted[i] \in Nat /\ i \in Minute
          /\ IsFiniteSet(0..(k - 1)) /\ Within(k) \in Int
      <4>1. \A i \in 0..(k - 1) : i \in Minute
        BY BurstAssumption DEF Minute
      <4> QED BY <3>1, <4>1, AmountsFit
    <3>3. /\ admitted'[0] = admitted[0] + 1
          /\ \A i \in (0..(k - 1)) \ {0} : admitted'[i] = admitted[i]
      BY <1>3, <3>1, <3>2 DEF LimitersInv, TypeOK
    <3>4. Within(k)' = Within(k) - admitted[0] + admitted'[0]
      <4> DEFINE after == admitted'
                 ticks == 0..(k - 1)
      <4>1. /\ \A i \in ticks : admitted[i] \in Int /\ after[i] \in Int
            /\ \A i \in ticks \ {0} : after[i] = admitted[i]
            /\ IsFiniteSet(ticks) /\ 0 \in ticks
        BY <3>1, <3>2, <3>3
      <4>2. Within(k)' = SumFunctionOnSet(after, ticks)
        BY DEF Within
      <4>3. Within(k) = SumFunctionOnSet(admitted, ticks)
        BY DEF Within
      <4> HIDE DEF after, ticks
      <4>4. SumFunctionOnSet(after, ticks)
              = SumFunctionOnSet(admitted, ticks) - admitted[0] + after[0]
        BY <4>1, SumOverChangesAt
      <4> QED BY <4>2, <4>3, <4>4 DEF after
    <3>5. admitted[0] \in Int
      BY <3>1, <3>2
    <3> QED BY <3>2, <3>3, <3>4, <3>5
  <2>3. ASSUME NEW k \in 1..Burst
        PROVE  Within(k)' + Left' <= Due(k)'
    <3>1. Due(k)' = Due(k) /\ Within(k) + Left <= Due(k)
      BY <1>1 DEF Due, AdmissionPaid
    <3>2. Within(k) \in Int /\ Left \in Int
      BY AmountsFit, BurstAssumption
    <3>3. Within(k)' + Left' = Within(k) + Left
      BY <2>1, <2>2, <3>2
    <3> QED BY <3>1, <3>3
  <2> QED BY <2>3 DEF AdmissionPaid
<1> QED BY <1>2, <1>3 DEF Allow

LEMMA TickPaid ==
    ASSUME LimitersInv, LimitersInv', AdmissionPaid, Tick
    PROVE  AdmissionPaid'
<1>1. created' = created
  BY DEF Tick
<1>2. ASSUME NEW l \in created
      PROVE  /\ tokens[l] \in Int /\ tokens'[l] \in Int
             /\ tokens'[l] <= tokens[l] + 1 /\ tokens'[l] <= Burst
  <2>1. tokens[l] \in 0..Burst /\ l \in Limiters
    BY AmountsFit DEF LimitersInv, TypeOK
  <2>2. tokens'[l] = Refilled(tokens[l])
    BY <2>1 DEF Tick
  <2> QED BY <2>1, <2>2, BurstAssumption DEF Refilled
<1>3. Left' <= Left + Cardinality(created) * 1 /\ Left' <= Cardinality(created) * Burst
  <2> DEFINE after == tokens'
  <2>1. /\ IsFiniteSet(created) /\ Burst \in Int /\ 1 \in Int
        /\ \A l \in created : /\ tokens[l] \in Int /\ after[l] \in Int
                              /\ after[l] <= tokens[l] + 1 /\ after[l] <= Burst
    BY <1>2, AmountsFit, BurstAssumption
  <2>2. Left' = SumFunctionOnSet(after, created) /\ Left = SumFunctionOnSet(tokens, created)
    BY <1>1 DEF Left
  <2> HIDE DEF after
  <2>3. SumFunctionOnSet(after, created)
          <= SumFunctionOnSet(tokens, created) + Cardinality(created) * 1
    BY <2>1, SumGrows
  <2>4. SumFunctionOnSet(after, created) <= Cardinality(created) * Burst
    BY <2>1, SumAtMost
  <2> QED BY <2>2, <2>3, <2>4
<1>4. ASSUME NEW k \in 1..Burst
      PROVE  Within(k)' = Within(k - 1)
  <2> DEFINE after == admitted'
             n == k - 1
  <2>1. n \in Nat /\ n \in 0..Burst /\ k \in 0..Burst /\ n < Burst
    BY BurstAssumption
  <2>2. \A i \in 0..n : admitted[i] \in Nat /\ i \in Minute
    <3>1. \A i \in 0..n : i \in Minute
      BY BurstAssumption DEF Minute
    <3> QED BY <2>1, <3>1, AmountsFit
  <2>3. \A i \in 0..n : after[i] = IF i = 0 THEN 0 ELSE admitted[i - 1]
    BY <2>2 DEF Tick
  <2>4. \A i \in 1..n : i \in 0..n /\ i - 1 \in 0..n
    BY <2>1
  <2>5. /\ \A i \in 0..n : admitted[i] \in Int /\ after[i] \in Int
        /\ after[0] = 0 /\ \A i \in 1..n : after[i] = admitted[i - 1]
    BY <2>1, <2>2, <2>3, <2>4
  <2>6. Within(k)' = SumFunctionOnSet(after, 0..n)
    BY DEF Within
  <2>7. Within(k - 1) = SumFunctionOnSet(admitted, 0..(n - 1))
    BY DEF Within
  <2> HIDE DEF after, n
  <2>8. SumFunctionOnSet(after, 0..n) = SumFunctionOnSet(admitted, 0..(n - 1))
    BY <2>1, <2>5, SumOfShifted
  <2> QED BY <2>6, <2>7, <2>8
<1>5. Left' \in Int
  BY <1>1, <1>2, AmountsFit, SumIsInt DEF Left
<1>6. ASSUME NEW k \in 1..Burst
      PROVE  Within(k)' + Left' <= Due(k)'
  <2>1. PICK C \in Nat : C = Cardinality(created)
    BY AmountsFit
  <2>2. Due(k)' = Due(k) /\ Due(k) \in Int /\ Left \in Int /\ Left' \in Int
    BY <1>1, <1>5, <2>1, AmountsFit, BurstAssumption DEF Due
  <2>3. CASE k = 1
    <3>1. Within(k - 1) = 0
      <4>1. 0..((k - 1) - 1) = {}
        BY <2>3
      <4> QED BY <4>1, SumOfNone DEF Within
    <3>2. Due(k) = C * Burst
      BY <2>1, <2>3, BurstAssumption DEF Due
    <3> QED BY <1>3, <1>4, <2>1, <2>2, <3>1, <3>2
  <2>4. CASE k # 1
    <3>1. k - 1 \in 1..Burst /\ k - 1 \in 0..Burst
      BY <2>4, BurstAssumption
    <3>2. Within(k - 1) + Left <= Due(k - 1) /\ Within(k - 1) \in Int
      BY <3>1, AmountsFit DEF AdmissionPaid
    <3>3. Due(k) = Due(k - 1) + C /\ Due(k - 1) \in Int
      BY <2>1, <3>1, BurstAssumption DEF Due
    <3>4. Left' <= Left + C
      BY <1>3, <2>1
    <3> QED BY <1>4, <2>2, <3>2, <3>3, <3>4
  <2> QED BY <2>3, <2>4
<1> QED BY <1>6 DEF AdmissionPaid

LEMMA PaidInit == Init => AdmissionPaid
<1> SUFFICES ASSUME Init, NEW k \in 1..Burst  PROVE Within(k) + Left <= Due(k)
  BY DEF AdmissionPaid
<1>1. Left = 0
  BY SumOfNone DEF Init, Left
<1>2. Due(k) = 0
  <2>1. Cardinality(created) = 0
    BY FS_EmptySet DEF Init
  <2> QED BY <2>1, BurstAssumption DEF Due
<1>3. Within(k) <= 0
  <2>1. k - 1 \in Nat /\ 0 \in Int
    BY BurstAssumption
  <2>2. IsFiniteSet(0..(k - 1)) /\ Cardinality(0..(k - 1)) \in Nat
    <3>1. IsFiniteSet(0..(k - 1))
      BY <2>1, FS_Interval
    <3> QED BY <3>1, FS_CardinalityType
  <2>3. \A i \in 0..(k - 1) : admitted[i] \in Int /\ admitted[i] <= 0
    BY BurstAssumption DEF Init, Minute
  <2>4. Within(k) <= Cardinality(0..(k - 1)) * 0
    BY <2>1, <2>2, <2>3, SumAtMost DEF Within
  <2> QED BY <2>2, <2>4
<1>4. Within(k) \in Int
  BY LimitersInit, AmountsFit, BurstAssumption
<1> QED BY <1>1, <1>2, <1>3, <1>4

LEMMA PaidNext == LimitersInv /\ LimitersInv' /\ AdmissionPaid /\ [Next]_vars => AdmissionPaid'
<1> SUFFICES ASSUME LimitersInv, LimitersInv', AdmissionPaid, [Next]_vars
             PROVE  AdmissionPaid'
  OBVIOUS
<1>1. ASSUME NEW h \in Handlers, LoadHit(h) \/ Store(h)  PROVE AdmissionPaid'
  BY <1>1 DEF LoadHit, Store, AdmissionPaid, Within, Left, Due
<1>2. CASE UNCHANGED vars
  BY <1>2 DEF vars, AdmissionPaid, Within, Left, Due
<1> QED BY <1>1, <1>2, LoadMissPaid, AllowPaid, TickPaid DEF Next

(* For any burst and any number of racing first requests: an address       *)
(* passes less than two bursts a minute for each of its limiters, of which *)
(* there are no more than there were requests under way together           *)
(* (ratelimit.go: getLimiter, Allow).                                      *)
THEOREM AdmissionIsBounded == Spec => []AdmissionBounded
<1>1. LimitersInv /\ AdmissionPaid => AdmissionBounded
  <2> SUFFICES ASSUME LimitersInv, AdmissionPaid
               PROVE  Admitted <= Cardinality(created) * (2 * Burst - 1)
    BY DEF LimitersInv, AdmissionBounded
  <2>1. Burst \in 1..Burst /\ Burst \in 0..Burst
    BY BurstAssumption
  <2>2. Admitted = Within(Burst)
    BY DEF Admitted, SumFunction, Within, LimitersInv, TypeOK, Minute
  <2>3. Within(Burst) + Left <= Due(Burst)
    BY <2>1 DEF AdmissionPaid
  <2>4. Due(Burst) = Cardinality(created) * (2 * Burst - 1) /\ Due(Burst) \in Int
    <3>1. Burst + Burst - 1 = 2 * Burst - 1
      BY BurstAssumption
    <3> QED BY <3>1, AmountsFit, BurstAssumption DEF Due
  <2>5. Within(Burst) \in Int /\ Left \in Nat
    BY <2>1, AmountsFit
  <2> QED BY <2>2, <2>3, <2>4, <2>5
<1>2. LimitersInv /\ LimitersInv' /\ AdmissionPaid /\ [Next]_vars => AdmissionPaid'
  BY PaidNext
<1> QED BY <1>1, <1>2, PaidInit, LimitersInvHolds, PTL DEF Spec

=============================================================================
