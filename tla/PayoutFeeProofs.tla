--------------------------- MODULE PayoutFeeProofs ---------------------------
(***************************************************************************)
(* For every width of the integers: fee and net amount of every completed  *)
(* payout add up, wrapped product or not, and where the product with 25    *)
(* fits the width the fee is the floor of 2.5 percent and never refused.   *)
(***************************************************************************)
EXTENDS PayoutFee, TLAPS

(* Where the product fits, nothing wraps and the fee is the floor.         *)
LEMMA FeeFits ==
    ASSUME NEW a \in 1..MaxInt, Multiplies(a)
    PROVE  /\ Fee(a) \in Int
           /\ Fee(a) * 1000 <= a * 25
           /\ a * 25 < (Fee(a) + 1) * 1000
           /\ 0 <= Fee(a) /\ Fee(a) < a
           /\ Net(a) = a - Fee(a)
  <1>1. a \in Int /\ 1 <= a /\ a * 25 <= MaxInt /\ MaxInt \in Int
    BY WidthAssumption DEF Multiplies
  <1>2. Wrap(a * 25) = a * 25
    BY <1>1 DEF Wrap
  <1>3. Fee(a) = (a * 25) \div 1000
    BY <1>1, <1>2 DEF Fee, Quotient
  <1>4. /\ Fee(a) \in Int
        /\ Fee(a) * 1000 <= a * 25
        /\ a * 25 < (Fee(a) + 1) * 1000
    BY <1>1, <1>3
  <1>5. 0 <= Fee(a) /\ Fee(a) < a
    BY <1>1, <1>4
  <1>6. Net(a) = a - Fee(a)
    <2>1. a - Fee(a) \in Int /\ 0 <= a - Fee(a) /\ a - Fee(a) <= MaxInt
      BY <1>1, <1>4, <1>5
    <2> QED  BY <1>1, <2>1 DEF Net, Wrap
  <1> QED  BY <1>4, <1>5, <1>6

(* A register holds a number of its width.                                 *)
LEMMA WrapFits ==
    ASSUME NEW x \in Int
    PROVE  Wrap(x) \in Int /\ Wrap(x) <= MaxInt
  <1> DEFINE span == 2 * (MaxInt + 1)
             r == (x + MaxInt + 1) % span
  <1>1. span \in Nat /\ span > 0 /\ MaxInt \in Nat
    BY WidthAssumption
  <1>2. r \in Int /\ r < span
    <2> HIDE DEF span
    <2> QED  BY <1>1
  <1>3. r - (MaxInt + 1) \in Int /\ r - (MaxInt + 1) <= MaxInt
    BY <1>1, <1>2
  <1> QED  BY <1>1, <1>3 DEF Wrap

(* A wrapped fee is at most a thousandth of the largest integer, and the   *)
(* amount whose product has wrapped is more than a 25th of it.             *)
LEMMA FeeBelowAmount ==
    ASSUME NEW a \in 1..MaxInt, Fee(a) >= 0
    PROVE  /\ Fee(a) \in Int /\ Fee(a) <= a
           /\ Net(a) = a - Fee(a)
  <1>1. a \in Int /\ 1 <= a /\ a <= MaxInt /\ MaxInt \in Int
    BY WidthAssumption
  <1>2. CASE Multiplies(a)
    BY <1>2, <1>1, FeeFits
  <1>3. CASE ~Multiplies(a)
    <2>1. PICK w \in Int : w = Wrap(a * 25) /\ w <= MaxInt
      BY <1>1, WrapFits
    <2>2. Fee(a) = Quotient(w, 1000)
      BY <2>1 DEF Fee
    <2>3. ASSUME w >= 0  PROVE Fee(a) \in Int /\ Fee(a) <= a
      <3>1. Fee(a) = w \div 1000
        BY <2>2, <2>3 DEF Quotient
      <3>2. Fee(a) \in Int /\ Fee(a) * 1000 <= w
        BY <2>1, <3>1
      <3> QED  BY <1>1, <1>3, <2>1, <3>2 DEF Multiplies
    <2>4. ASSUME ~(w >= 0)  PROVE Fee(a) \in Int /\ Fee(a) <= a
      <3>1. Fee(a) = -((-w) \div 1000)
        BY <2>2, <2>4 DEF Quotient
      <3>2. (-w) \div 1000 \in Int /\ (-w) \div 1000 >= 0
        BY <2>1, <2>4
      <3> QED  BY <1>1, <3>1, <3>2
    <2>5. Fee(a) \in Int /\ Fee(a) <= a
      BY <2>3, <2>4
    <2>6. 0 <= a - Fee(a) /\ a - Fee(a) <= MaxInt
      BY <1>1, <2>5
    <2> QED  BY <1>1, <2>5, <2>6 DEF Net, Wrap
  <1> QED  BY <1>2, <1>3

(* What every reachable payout satisfies: a completed one has the fee and  *)
(* the net amount of its amount, and they passed the CHECKs.               *)
FeeInv ==
    /\ amount \in 1..MaxInt
    /\ status = "completed" => /\ fee = Fee(amount) /\ net_amount = Net(amount)
                               /\ Fee(amount) >= 0

LEMMA FeeInvariant == Spec => []FeeInv
  <1>1. Init => FeeInv
    BY DEF Init, FeeInv
  <1>2. FeeInv /\ [Next]_vars => FeeInv'
    <2> SUFFICES ASSUME FeeInv, [Next]_vars
                 PROVE  FeeInv'
      OBVIOUS
    <2>1. CASE Complete
      BY <2>1 DEF Complete, FeeInv, Fee, Net
    <2>2. CASE Fail
      BY <2>2 DEF Fail, FeeInv
    <2>3. CASE UNCHANGED vars
      BY <2>3 DEF vars, FeeInv
    <2> QED  BY <2>1, <2>2, <2>3 DEF Next
  <1> QED  BY <1>1, <1>2, PTL DEF Spec

(* The fee of a completed payout is 2.5 percent rounded down, for every    *)
(* amount that can be multiplied by 25 in an int64.                        *)
THEOREM FeeIsAlwaysFloor == Spec => []FeeIsFloor
  <1>1. FeeInv => FeeIsFloor
    BY FeeFits DEF FeeInv, FeeIsFloor
  <1> QED  BY <1>1, FeeInvariant, PTL

(* Fee and net amount add up to the amount for every amount there is, the  *)
(* ones whose fee has wrapped around included.                             *)
THEOREM FeeAlwaysAddsUp == Spec => []FeeAddsUp
  <1>1. FeeInv => FeeAddsUp
    <2> SUFFICES ASSUME FeeInv, status = "completed"
                 PROVE  fee + net_amount = amount /\ 0 <= fee /\ fee <= amount
      BY DEF FeeAddsUp
    <2>1. /\ amount \in 1..MaxInt /\ MaxInt \in Nat /\ Fee(amount) >= 0
          /\ fee = Fee(amount) /\ net_amount = Net(amount)
      BY WidthAssumption DEF FeeInv
    <2>2. fee \in Int /\ fee <= amount /\ net_amount = amount - fee
      BY <2>1, FeeBelowAmount
    <2> QED  BY <2>1, <2>2
  <1> QED  BY <1>1, FeeInvariant, PTL

(* A payout whose amount can be multiplied by 25 always passes the CHECK   *)
(* constraints of its table.                                               *)
THEOREM CompletionNeverRefused == Spec => []CompletionAllowed
  <1>1. FeeInv => CompletionAllowed
    BY FeeFits DEF FeeInv, CompletionAllowed
  <1> QED  BY <1>1, FeeInvariant, PTL

=============================================================================
