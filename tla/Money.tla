------------------------------- MODULE Money -------------------------------
(***************************************************************************)
(* Amounts are integers of cents (分), the unit of the two-decimal Decimals *)
(* of the services.  A share of an amount is rounded to the cent the way   *)
(* Decimal.quantize(Decimal("0.01")) does by default: half to even.        *)
(***************************************************************************)
EXTENDS Integers

\* verification_service.py:37 and balance_service.py:507: the platform's fee.
FeePercent == 3

\* verification_service.py:263-264: the split of a refund while PURCHASING.
RefundPercent  == 80
PenaltyPercent == 20

\* WITHDRAW_MIN_AMOUNT of wallet_balance_decrease: ten yuan.
WithdrawMin == 1000

\* (amount * percent / 100).quantize(Decimal("0.01")), amount >= 0
Share(amount, percent) ==
  LET quotient  == (amount * percent) \div 100
      remainder == (amount * percent) % 100
      roundUp   == \/ remainder > 50
                   \/ remainder = 50 /\ quotient % 2 = 1
  IN  IF roundUp THEN quotient + 1 ELSE quotient

Fee(total)    == Share(total, FeePercent)
Income(total) == total - Fee(total)
=============================================================================
