----------------------------- MODULE RateLimiter -----------------------------
(***************************************************************************)
(* The rate limiting middleware: one token bucket per client address, kept *)
(* in a sync.Map that concurrent requests load from and store to without a *)
(* lock.  Addresses do not interact, so this is the map's entry of one.    *)
(*                                                                         *)
(* Time is counted in ticks of one token: the router's 100 requests per    *)
(* minute with a burst of 100 are Burst tokens per Burst ticks, and Burst  *)
(* ticks are a minute.  A bucket of x/time/rate that is refilled when it   *)
(* is asked holds the same tokens as one refilled by every tick.           *)
(***************************************************************************)
EXTENDS Naturals, FiniteSets, Functions

CONSTANTS
    Handlers,   \* requests of the address being served at the same time
    Limiters,   \* the rate.Limiter objects the server may create
    Burst,      \* burst size and requests per minute
    NoLimiter

ASSUME BurstAssumption == Burst \in Nat \ {0}
ASSUME HandlersAssumption == IsFiniteSet(Handlers)
ASSUME NoLimiterAssumption == NoLimiter \notin Limiters

VARIABLES
    limiters,   \* the entry of the sync.Map: a limiter or NoLimiter
    tokens,     \* tokens[l]: what is left in the bucket of limiter l
    created,    \* the limiters created so far
    pc, limiter,    \* per handler: its next step and the limiter it got
    admitted    \* history: admitted[i] requests passed i ticks ago

vars == <<limiters, tokens, created, pc, limiter, admitted>>

Minute == 0 .. Burst - 1

Init ==
    /\ limiters = NoLimiter
    /\ tokens = [l \in Limiters |-> 0]
    /\ created = {}
    /\ pc = [h \in Handlers |-> "getLimiter"]
    /\ limiter = [h \in Handlers |-> NoLimiter]
    /\ admitted = [i \in Minute |-> 0]

Got(h, l, next) ==
    /\ limiter' = [limiter EXCEPT ![h] = l]
    /\ pc' = [pc EXCEPT ![h] = next]

(* Fault: the limiter of the map is not used when there is one.            *)
NeverExists == FALSE

Exists == limiters # NoLimiter

(* A request arrives and finds the address's limiter.                      *)
LoadHit(h) ==
    /\ pc[h] = "getLimiter"
    /\ Exists
    /\ Got(h, limiters, "Allow")
    /\ UNCHANGED <<limiters, tokens, created, admitted>>

(* It finds none and makes one, full.                                      *)
LoadMiss(h) ==
    /\ pc[h] = "getLimiter"
    /\ ~Exists
    /\ \E l \in Limiters \ created :
         /\ created' = created \cup {l}
         /\ tokens' = [tokens EXCEPT ![l] = Burst]
         /\ Got(h, l, "Store")
    /\ UNCHANGED <<limiters, admitted>>

(* Store replaces whatever another request stored meanwhile.               *)
Store(h) ==
    /\ pc[h] = "Store"
    /\ limiters' = limiter[h]
    /\ pc' = [pc EXCEPT ![h] = "Allow"]
    /\ UNCHANGED <<tokens, created, limiter, admitted>>

(* Allow takes a token and the request passes, or it gets a 429.           *)
Allow(h) ==
    /\ pc[h] = "Allow"
    /\ Got(h, NoLimiter, "getLimiter")
    /\ \/ /\ tokens[limiter[h]] >= 1
          /\ tokens' = [tokens EXCEPT ![limiter[h]] = @ - 1]
          /\ admitted' = [admitted EXCEPT ![0] = @ + 1]
       \/ /\ tokens[limiter[h]] < 1
          /\ UNCHANGED <<tokens, admitted>>
    /\ UNCHANGED <<limiters, created>>

(* Fault: an idle bucket fills beyond the burst.                           *)
RefilledForever(left) == left + 1

Refilled(left) == IF left < Burst THEN left + 1 ELSE Burst

(* One tick of the clock; a limiter nobody refers to keeps its last value. *)
Tick ==
    /\ tokens' = [l \in Limiters |->
                    IF l \in created THEN Refilled(tokens[l]) ELSE tokens[l]]
    /\ admitted' = [i \in Minute |-> IF i = 0 THEN 0 ELSE admitted[i - 1]]
    /\ UNCHANGED <<limiters, created, pc, limiter>>

Next ==
    \/ \E h \in Handlers : LoadHit(h) \/ LoadMiss(h) \/ Store(h) \/ Allow(h)
    \/ Tick

Spec == Init /\ [][Next]_vars

-----------------------------------------------------------------------------
Admitted == SumFunction(admitted)

TypeOK ==
    /\ limiters \in Limiters \cup {NoLimiter}
    /\ tokens \in [Limiters -> 0..Burst]
    /\ created \subseteq Limiters
    /\ pc \in [Handlers -> {"getLimiter", "Store", "Allow"}]
    /\ limiter \in [Handlers -> Limiters \cup {NoLimiter}]
    /\ admitted \in [Minute -> Nat]

(* Only requests that raced to be the address's first ever make a limiter: *)
(* once one of them has stored its own, nobody makes another.              *)
LimitersBounded == Cardinality(created) <= Cardinality(Handlers)

(* Each limiter passes its burst and what is refilled meanwhile: so an     *)
(* address passes less than two bursts a minute per concurrent request,    *)
(* whatever the interleaving of Load, Store and Allow.                     *)
AdmissionBounded ==
    /\ LimitersBounded
    /\ Admitted <= Cardinality(created) * (2 * Burst - 1)

=============================================================================
