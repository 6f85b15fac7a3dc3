-------------------------------- MODULE Fees --------------------------------
(***************************************************************************)
(* The arithmetic of a transfer: what a request of a given type and        *)
(* principal costs, in minor units (paisa).  Pure operators, no state:     *)
(* round-half-even.ts, fee-calculator.util.ts and calculateTransferMath of *)
(* transactions.service.ts.                                                *)
(***************************************************************************)
EXTENDS Integers

TransferTypes == {"SEND_MONEY", "CASH_IN", "CASH_OUT", "PAYMENT"}

MaxPrincipal == 10000000   \* 100,000 BDT

\* Faulty: a tie goes up.
DivideRoundHalfUp(n, d) ==
    IF 2 * (n % d) < d THEN n \div d ELSE n \div d + 1

\* Faulty: the comparison is the wrong way round.
DivideRoundReversed(n, d) ==
    IF 2 * (n % d) < d THEN n \div d + 1 ELSE n \div d

\* BigInt division: both operands are non-negative here, where truncation and
\* \div agree.  A tie goes to the even neighbour.
DivideRoundHalfEven(n, d) ==
    LET division == n \div d
        doubleRemainder == 2 * (n % d)
    IN  IF \/ doubleRemainder < d
           \/ doubleRemainder = d /\ division % 2 = 0
        THEN division
        ELSE division + 1

\* feeStrategies: a flat 5 BDT to send, 1.85% to cash out, nothing otherwise.
CalculateFee(amount, type) ==
    CASE type = "SEND_MONEY" -> 500
      [] type = "CASH_OUT"   -> DivideRoundHalfEven(amount * 185, 10000)
      [] OTHER               -> 0

\* A positive decimal without leading zeros, at most MAX_TRANSACTION_AMOUNT_DIGITS
\* digits long, and not above the limit: calculateTransferMath's two refusals.
AcceptsAmount(amount) == amount >= 1 /\ amount <= MaxPrincipal

TotalRequired(amount, type) == amount + CalculateFee(amount, type)

-----------------------------------------------------------------------------
(* What the cash-out fee promises. *)

Distance(x, y) == IF x < y THEN y - x ELSE x - y

\* The fee is the integer nearest to 1.85%: no neighbour is nearer, and of two
\* equally near the even one is taken (round-half-even.ts).
NearestFee(amount) ==
    LET fee == CalculateFee(amount, "CASH_OUT")
        Error(q) == Distance(10000 * q, 185 * amount)
    IN  \A q \in {fee - 1, fee + 1} :
            \/ Error(fee) < Error(q)
            \/ Error(fee) = Error(q) /\ fee % 2 = 0

\* Cashing out in two parts instead of one changes the fee by a single minor
\* unit at most.
SplitFee(a, b) ==
    Distance(CalculateFee(a, "CASH_OUT") + CalculateFee(b, "CASH_OUT"),
             CalculateFee(a + b, "CASH_OUT")) <= 1
=============================================================================
