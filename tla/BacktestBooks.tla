---------------------------- MODULE BacktestBooks ----------------------------
(***************************************************************************)
(* Double entry: cash, book value of the positions and realized result     *)
(* move together.  Kept apart from BacktestProperties for its use of folds.*)
(***************************************************************************)
EXTENDS BacktestProperties, FiniteSetsExt

Total(f, S) == MapThenSumSet(LAMBDA i : f[i], S)

BookValue(a) == Total([i \in Instruments |-> a.lots[i].qty * a.lots[i].cost], Instruments)

(* Cash and book value against what should explain them, in 1/Scale cash   *)
(* ticks: zero but for rounding.                                           *)
Drift(a, fees) ==
    Scale * a.cash + BookValue(a)
        - Scale * (InitialCash + a.realized + a.flow["dividend_payment"] - fees)

(* Twice what the quantize() calls of one step may lose: two cash amounts  *)
(* and, for each lot that changed, its quantity and its cost.              *)
RoundingOf(a, b) ==
    2 * Scale + Total([i \in Instruments |-> b.lots[i].qty + b.lots[i].cost + 2],
                      {i \in Instruments : a.lots[i] # b.lots[i]})

Balanced ==
    2 * Abs(Drift(acct', totalFees') - Drift(acct, totalFees)) <= RoundingOf(acct, acct')

(* Every step that moves cash moves positions, result or dividends by the  *)
(* same value, up to the rounding of that one step: nothing is paid twice  *)
(* or not at all, over any mix of fills, splits, dividends and delistings. *)
(* (accounting.py, ledger.py, corporate_actions.py)                        *)
DoubleEntry == [][error' = NoError => Balanced]_<<acct, totalFees>>
=============================================================================
