---------------------------- MODULE PaymentHistory ----------------------------
(***************************************************************************)
(* ReviewApi with the payments of each envelope in the order of their      *)
(* commits, each with the Idempotency-Key of the request that made it, so  *)
(* that a key which replays success can be asked for the payment it made.  *)
(***************************************************************************)
EXTENDS ReviewApi, Sequences

ASSUME UnkeyedAssumption == NoRequest \notin Keys!Keys

VARIABLE payments   \* history: payments[p][i] is the key that paid the i-th time

paymentVars == <<apiVars, payments>>

(* The key of the request h serves, or NoRequest when it came without.     *)
PaidUnder(h) == IF stage[h] = "Decide" THEN asked[h].key ELSE NoRequest

PaymentInit == ApiInit /\ payments = [p \in Projects |-> <<>>]

(* The statement that commits an approved claim, with a key or without.    *)
Pay(h) ==
    /\ ReviewStep(h) \/ DirectStep(h)
    /\ pc[h] = "ClaimCommit"
    /\ payments' = [payments EXCEPT ![ProjectOf(h)] = Append(@, PaidUnder(h))]

(* The next statement of every other request.                              *)
ServeUnpaid(h) ==
    \/ Middleware(h)
    \/ StartReview(h)
    \/ RefuseReview(h)
    \/ pc[h] # "ClaimCommit" /\ (ReviewStep(h) \/ DirectStep(h))

Unpaid ==
    \/ \E h \in Handlers : Ask(h) \/ Direct(h)
    \/ \E h \in Handlers : ServeUnpaid(h) \/ ReviewAborts(h)
    \/ Shutdown \/ Exit \/ Crash

PaymentNext ==
    \/ \E h \in Handlers : Pay(h)
    \/ Unpaid /\ UNCHANGED payments

PaymentSpec == PaymentInit /\ [][PaymentNext]_paymentVars

-----------------------------------------------------------------------------
(* The keys under which an approval of a claim of p has been answered 200. *)
ApprovedKeys(p) ==
    {k \in Keys!Keys : /\ idempotent_requests[k] = 200
                       /\ k[1][2] /\ k[2] \in Claims
                       /\ claims[k[2]].project = p}

PayingKeys(p) == {payments[p][i] : i \in 1..Len(payments[p])}

(* Every key that replays 200 for an approval has made a payment itself:   *)
(* what another key paid for the same claim, or a review without a key,    *)
(* does not stand in for it.  And payments are the only way money leaves   *)
(* an envelope, claim_amount each.                                         *)
SavedApprovalsArePaid ==
    \A p \in Projects : projects[p] # NoRow =>
      /\ ApprovedKeys(p) \subseteq PayingKeys(p)
      /\ Len(payments[p]) * projects[p].claim_amount = Spent(p)

=============================================================================
