------------------------------ MODULE PayoutFee ------------------------------
(***************************************************************************)
(* The fee of a payout: computed in int64 when the payout is completed,    *)
(* stored with the net amount under the CHECKs of the payouts table.       *)
(* MaxInt is 2^63 - 1 in the program.                                      *)
(***************************************************************************)
EXTENDS Integers

CONSTANTS
    MaxInt,     \* the largest int64
    NULL        \* an unset column

ASSUME WidthAssumption == MaxInt \in Nat
ASSUME NullAssumption == NULL \notin Int

VARIABLES amount, fee, net_amount, status

vars == <<amount, fee, net_amount, status>>

(* What an int64 register holds for the integer x.                         *)
Wrap(x) ==
    IF -MaxInt - 1 <= x /\ x <= MaxInt
      THEN x
      ELSE ((x + MaxInt + 1) % (2 * (MaxInt + 1))) - (MaxInt + 1)

(* Go's division by a positive constant truncates towards zero.            *)
Quotient(x, d) == IF x >= 0 THEN x \div d ELSE -((-x) \div d)

(* Fault: the fee is rounded up.                                           *)
CeilingFee(a) == Quotient(Wrap(Wrap(a * 25) + 999), 1000)

(* Fault: 25 tenths instead of 25 thousandths.                             *)
MisplacedFee(a) == Quotient(Wrap(a * 25), 10)

Fee(a) == Quotient(Wrap(a * 25), 1000)

(* Fault: the net amount is what a fee rounded up would leave.             *)
NetOfCeiling(a) == Wrap(a - CeilingFee(a))

Net(a) == Wrap(a - Fee(a))

(* validate:"gt=0" is the only bound on the amount a payout may ask for.   *)
Init ==
    /\ amount \in 1..MaxInt
    /\ fee = NULL
    /\ net_amount = NULL
    /\ status = "pending"

(* CHECK (fee >= 0), CHECK (net_amount >= 0): otherwise the UPDATE fails   *)
(* and the transaction with it.                                            *)
Complete ==
    /\ status = "pending"
    /\ Fee(amount) >= 0
    /\ Net(amount) >= 0
    /\ fee' = Fee(amount)
    /\ net_amount' = Net(amount)
    /\ status' = "completed"
    /\ UNCHANGED amount

Fail ==
    /\ status = "pending"
    /\ status' = "failed"
    /\ UNCHANGED <<amount, fee, net_amount>>

Next == Complete \/ Fail

Spec == Init /\ [][Next]_vars

-----------------------------------------------------------------------------
(* The product with 25 fits the register.                                  *)
Multiplies(a) == a * 25 <= MaxInt

(* DESIGN.md, section 2: the fee is 2.5 percent of the amount rounded      *)
(* down, as long as the amount can be multiplied by 25.                    *)
FeeIsFloor ==
    status = "completed" /\ Multiplies(amount) =>
      fee * 1000 <= amount * 25 /\ amount * 25 < (fee + 1) * 1000

(* DESIGN.md, section 2: fee and net amount always add up to the amount.   *)
(* They do even when the product has wrapped around: a wrapped fee that    *)
(* passes the CHECKs is still no more than the amount.                     *)
FeeAddsUp ==
    status = "completed" => fee + net_amount = amount /\ 0 <= fee /\ fee <= amount

(* A payout whose amount leaves room for the product can be completed: the *)
(* CHECK constraints never get in the way.                                 *)
CompletionAllowed ==
    status = "pending" /\ Multiplies(amount) => Fee(amount) >= 0 /\ Net(amount) >= 0

=============================================================================
