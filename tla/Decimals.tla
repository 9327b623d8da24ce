------------------------------ MODULE Decimals ------------------------------
(***************************************************************************)
(* What the code uses of shopspring/decimal that is not exact: Div, which  *)
(* rounds half away from zero to its sixteenth digit.  The modules that    *)
(* divide choose the unit of the last digit; sums and products are exact.  *)
(***************************************************************************)
EXTENDS Integers

\* decimal.Div on amounts that are never negative.
RoundedDiv(n, q) == (2 * n + q) \div (2 * q)

\* decimal.Abs
Abs(x) == IF x < 0 THEN -x ELSE x
=============================================================================
