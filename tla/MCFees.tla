------------------------------- MODULE MCFees -------------------------------
(***************************************************************************)
(* A sweep over principals: windows of consecutive amounts at the start,   *)
(* around a rounding boundary and at the limit.                            *)
(***************************************************************************)
EXTENDS Fees

CONSTANTS Starts, Width, Parts

ASSUME SweepAssumption == Starts \cup Parts \cup {Width} \subseteq Nat

VARIABLE amount

Window == UNION {s .. s + Width : s \in Starts}

Init == amount \in Starts

Next ==
    /\ amount + 1 \in Window
    /\ amount' = amount + 1

Spec == Init /\ [][Next]_amount

\* Every fee of the sweep is the nearest one.
FeeIsNearest == NearestFee(amount)

\* A larger principal never costs a smaller fee (calculateFee).
FeeMonotone ==
    [][CalculateFee(amount, "CASH_OUT") <= CalculateFee(amount', "CASH_OUT")]_amount

\* Splitting off any of Parts gains or loses one minor unit at most.
SplitGainsAtMostOne ==
    \A part \in Parts : SplitFee(amount, part)
=============================================================================
