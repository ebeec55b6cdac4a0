------------------------------ MODULE Decimals ------------------------------
(***************************************************************************)
(* Fixed-point arithmetic as the program's decimal.Decimal values do it.   *)
(* A monetary amount, a price or a share count is an integer number of     *)
(* ticks of its own scale, and quantize() is a division to a coarser tick. *)
(***************************************************************************)
EXTENDS Integers

(* Decimal.quantize under the default context: the nearest multiple, a tie *)
(* goes to the even neighbour.  n / d is the exact value to be rounded.    *)
RoundHalfEven(n, d) ==
    LET q == n \div d
        r == n % d
    IN  IF 2 * r < d \/ (2 * r = d /\ q % 2 = 0) THEN q ELSE q + 1

Abs(x) == IF x < 0 THEN -x ELSE x

(* Rates are given in basis points. *)
BpsUnit == 10000
=============================================================================
