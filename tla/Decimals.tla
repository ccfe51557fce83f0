------------------------------ MODULE Decimals ------------------------------
(***************************************************************************)
(* The decimal arithmetic the calculations rest on, and what the columns   *)
(* keep of a decimal.  Amounts of money are integers, in a unit as fine as *)
(* any amount needs, and a rate or a multiplier is an exact ratio          *)
(* <<numerator, denominator>> with a positive denominator.                 *)
(***************************************************************************)
EXTENDS Integers

CONSTANTS Cent,        \* the units in a hundredth of the currency
          AmountStep,  \* the units in the last place of a column of amounts
          RateScale    \* the steps in the last place of a column of rates that make 1

\* Half a cent is a number of units, and the columns hold every cent.
ASSUME ScaleAssumption ==
  /\ {Cent, AmountStep, RateScale} \subseteq Nat \ {0}
  /\ \E n \in 1..Cent : Cent = 2 * n
  /\ \E n \in 1..Cent : Cent = AmountStep * n

\* Mutant: the quantum is truncated instead of rounded.
Truncated(n, d) == IF n >= 0 THEN n \div d ELSE -((-n) \div d)

\* n / d rounded to an integer, halves away from zero (ROUND_HALF_UP).
Rounded(n, d) ==
  IF n >= 0 THEN (2 * n + d) \div (2 * d) ELSE -((d - 2 * n) \div (2 * d))

\* The units n / d as money: rounded to whole cents.
Cents(n, d) == Cent * Rounded(n, Cent * d)

Times(p, q) == <<p[1] * q[1], p[2] * q[2]>>

Reciprocal(p) == <<p[2], p[1]>>

\* numerator / denominator is an amount before any rounding; factor is what the
\* converted amount is multiplied with after it was rounded.  Both roundings are to
\* cents: the amount is at most half a cent off, and half a cent times the factor.
Close(amount, numerator, denominator, factor) ==
  LET drift == amount * denominator - numerator IN
  2 * (IF drift < 0 THEN -drift ELSE drift) * factor[2]
    <= Cent * (factor[1] + factor[2]) * denominator

-----------------------------------------------------------------------------
(* PostgreSQL rounds a number to the scale of its column, halves away from *)
(* zero; a small rate may become 0.                                        *)

StoredAmount(n) == AmountStep * Rounded(n, AmountStep)

StoredRate(rate) == <<Rounded(rate[1] * RateScale, rate[2]), RateScale>>
=============================================================================
