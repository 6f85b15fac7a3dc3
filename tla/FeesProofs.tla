----------------------------- MODULE FeesProofs -----------------------------
(***************************************************************************)
(* What the cash-out fee guarantees for every principal, not only those    *)
(* the runs enumerate.  Each fee is off by half a unit at most, and the    *)
(* rest is linear arithmetic on these bounds.                              *)
(***************************************************************************)
EXTENDS MCFees, TLAPS

(***************************************************************************)
(* The rounded quotient is a natural number at most half a unit away from  *)
(* the exact one, and even when it is half a unit away                     *)
(* (divideRoundHalfEven, for the denominator fees use).                    *)
(***************************************************************************)
LEMMA RoundingError ==
    ASSUME NEW n \in Nat
    PROVE  LET q == DivideRoundHalfEven(n, 10000)
           IN  /\ q \in Nat
               /\ 2 * n - 10000 <= 2 * 10000 * q
               /\ 2 * 10000 * q <= 2 * n + 10000
               /\ 2 * n - 10000 = 2 * 10000 * q \/ 2 * 10000 * q = 2 * n + 10000
                      => q % 2 = 0
<1>1. /\ n \div 10000 \in Nat
      /\ n % 10000 \in 0 .. 9999
      /\ n = 10000 * (n \div 10000) + (n % 10000)
  OBVIOUS
<1>2. QED
  BY <1>1 DEF DivideRoundHalfEven

(***************************************************************************)
(* The cash-out fee is a natural number within half a unit of 1.85%, and   *)
(* even when it is half a unit away (calculateFee).                        *)
(***************************************************************************)
LEMMA CashOutFee ==
    ASSUME NEW a \in Nat
    PROVE  LET fee == CalculateFee(a, "CASH_OUT")
           IN  /\ fee \in Nat
               /\ 370 * a - 10000 <= 20000 * fee
               /\ 20000 * fee <= 370 * a + 10000
               /\ 370 * a - 10000 = 20000 * fee \/ 20000 * fee = 370 * a + 10000
                      => fee % 2 = 0
<1> DEFINE n == a * 185
           q == DivideRoundHalfEven(n, 10000)
<1>1. n \in Nat /\ 2 * n = 370 * a
  OBVIOUS
<1>2. /\ q \in Nat /\ 2 * n - 10000 <= 20000 * q /\ 20000 * q <= 2 * n + 10000
      /\ 2 * n - 10000 = 20000 * q \/ 20000 * q = 2 * n + 10000 => q % 2 = 0
  BY <1>1, RoundingError
<1>3. CalculateFee(a, "CASH_OUT") = q
  BY DEF CalculateFee
<1> HIDE DEF q, n
<1>4. QED
  BY <1>1, <1>2, <1>3

(***************************************************************************)
(* No integer is nearer to 1.85% of the principal than the fee, and of two *)
(* equally near it is the even one (round-half-even.ts).                   *)
(***************************************************************************)
LEMMA NearestForAll ==
    ASSUME NEW a \in Nat
    PROVE  NearestFee(a)
<1> DEFINE fee == CalculateFee(a, "CASH_OUT")
<1>1. /\ fee \in Nat
      /\ 370 * a - 10000 <= 20000 * fee
      /\ 20000 * fee <= 370 * a + 10000
      /\ 370 * a - 10000 = 20000 * fee \/ 20000 * fee = 370 * a + 10000 => fee % 2 = 0
  BY CashOutFee
<1> HIDE DEF fee
<1>2. \/ Distance(10000 * fee, 185 * a) < Distance(10000 * (fee - 1), 185 * a)
      \/ Distance(10000 * fee, 185 * a) = Distance(10000 * (fee - 1), 185 * a) /\ fee % 2 = 0
  BY <1>1 DEF Distance
<1>3. \/ Distance(10000 * fee, 185 * a) < Distance(10000 * (fee + 1), 185 * a)
      \/ Distance(10000 * fee, 185 * a) = Distance(10000 * (fee + 1), 185 * a) /\ fee % 2 = 0
  BY <1>1 DEF Distance
<1>4. QED
  BY <1>2, <1>3 DEF NearestFee, fee

(***************************************************************************)
(* The fee never falls as the principal grows (calculateFee).              *)
(***************************************************************************)
LEMMA MonotoneForAll ==
    ASSUME NEW a \in Nat, NEW b \in Nat, a <= b
    PROVE  CalculateFee(a, "CASH_OUT") <= CalculateFee(b, "CASH_OUT")
<1> DEFINE f == CalculateFee(a, "CASH_OUT")
           g == CalculateFee(b, "CASH_OUT")
<1>1. f \in Nat /\ 20000 * f <= 370 * a + 10000
      /\ (20000 * f = 370 * a + 10000 => f % 2 = 0)
  BY CashOutFee
<1>2. g \in Nat /\ 370 * b - 10000 <= 20000 * g
      /\ (20000 * g = 370 * b - 10000 => g % 2 = 0)
  BY CashOutFee
<1> HIDE DEF f, g
\* One more would need a tie on both sides, and two even neighbours.
<1>3. QED
  BY <1>1, <1>2 DEF f, g

(***************************************************************************)
(* Three roundings together are less than two units off (calculateFee).    *)
(***************************************************************************)
LEMMA SplitForAll ==
    ASSUME NEW a \in Nat, NEW b \in Nat
    PROVE  SplitFee(a, b)
<1> DEFINE f == CalculateFee(a, "CASH_OUT")
           g == CalculateFee(b, "CASH_OUT")
           h == CalculateFee(a + b, "CASH_OUT")
<1>1. f \in Nat /\ 370 * a - 10000 <= 20000 * f /\ 20000 * f <= 370 * a + 10000
  BY CashOutFee
<1>2. g \in Nat /\ 370 * b - 10000 <= 20000 * g /\ 20000 * g <= 370 * b + 10000
  BY CashOutFee
<1>3. h \in Nat /\ 370 * (a + b) - 10000 <= 20000 * h /\ 20000 * h <= 370 * (a + b) + 10000
  BY CashOutFee
<1> HIDE DEF f, g, h
<1>4. f + g - h <= 1 /\ h - (f + g) <= 1
  BY <1>1, <1>2, <1>3
<1>5. Distance(f + g, h) <= 1
  BY <1>1, <1>2, <1>3, <1>4 DEF Distance
<1>6. QED
  BY <1>5 DEF SplitFee, f, g, h

-----------------------------------------------------------------------------
(* The same for the sweeps that MCFees runs, whatever their windows.       *)

\* A sweep visits natural numbers.
LEMMA SweepType == Spec => [](amount \in Nat)
<1>1. Init => amount \in Nat
  BY SweepAssumption DEF Init
<1>2. amount \in Nat /\ [Next]_amount => (amount \in Nat)'
  BY DEF Next
<1>3. QED
  BY <1>1, <1>2, PTL DEF Spec

\* Every cash-out fee is the nearest integer, ties to even.
THEOREM FeesAreNearest == Spec => []FeeIsNearest
<1>1. amount \in Nat => FeeIsNearest
  BY NearestForAll DEF FeeIsNearest
<1>2. QED
  BY <1>1, SweepType, PTL

\* A larger principal never costs a smaller fee.
THEOREM FeesAreMonotone == Spec => FeeMonotone
<1>1. amount \in Nat /\ [Next]_amount
          => [CalculateFee(amount, "CASH_OUT") <= CalculateFee(amount', "CASH_OUT")]_amount
  <2>1. ASSUME amount \in Nat, Next
        PROVE  CalculateFee(amount, "CASH_OUT") <= CalculateFee(amount', "CASH_OUT")
    <3>1. amount' \in Nat /\ amount <= amount'
      BY <2>1 DEF Next
    <3>2. QED
      BY <2>1, <3>1, MonotoneForAll
  <2>2. QED
    BY <2>1
<1>2. QED
  BY <1>1, SweepType, PTL DEF Spec, FeeMonotone

\* Splitting a cash-out gains or loses one minor unit at most.
THEOREM SplittingGainsAtMostOne == Spec => []SplitGainsAtMostOne
<1>1. amount \in Nat => SplitGainsAtMostOne
  BY SplitForAll, SweepAssumption DEF SplitGainsAtMostOne
<1>2. QED
  BY <1>1, SweepType, PTL
=============================================================================
