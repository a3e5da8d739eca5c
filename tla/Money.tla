------------------------------- MODULE Money -------------------------------
(***************************************************************************)
(* The money arithmetic of the marketplace, in kopecks: every amount is a  *)
(* Decimal with two places in the code and a natural number here.          *)
(***************************************************************************)
EXTENDS Integers

\* The commission rates, in per cent.  No caller asks for the reduced rate.
StandardRate == 10
ProRate == 5

\* Decimal.quantize(.., ROUND_HALF_UP) of the non-negative quotient n / d.
HalfUp(n, d) == (2 * n + d) \div (2 * d)

\* calc_commission: the platform's part of a captured amount, rounded, and the
\* tutor's part, taken by subtraction.
Commission(amount, rate) == HalfUp(amount * rate, 100)
\* (Mutated form: a payout that rounds the commission down.)
PayoutFloored(amount, rate) == amount - (amount * rate) \div 100
Payout(amount, rate) == amount - Commission(amount, rate)

\* _refund_amount for a late cancellation: a percentage of the price, rounded.
LateRefund(price, percent) == HalfUp(price * percent, 100)
=============================================================================
