----------------------------- MODULE Accounting -----------------------------
(***************************************************************************)
(* The account of a simulated portfolio: a cash ledger and a position      *)
(* ledger, changed together by fills and by corporate actions.             *)
(*                                                                         *)
(* Shares are counted in ticks of 1/QtyUnit share, prices in ticks of      *)
(* 1/PriceUnit of a cash tick.  The program's scales are 0.0001 share,     *)
(* 0.0001 dollar and 0.01 dollar: QtyUnit = 10000 and PriceUnit = 100.     *)
(*                                                                         *)
(* An account is a record:                                                 *)
(*   cash     the balance of the cash ledger                               *)
(*   flow     the total of the ledger's transactions of each type          *)
(*   lots     per instrument the quantity held and the average cost of a   *)
(*            share; a quantity of 0 stands for "no lot"                   *)
(*   realized the realized profit and loss                                 *)
(***************************************************************************)
EXTENDS Decimals

CONSTANTS
    Instruments,    \* the instruments that can be held
    QtyUnit,        \* quantity ticks in a share
    PriceUnit,      \* price ticks in a cash tick
    InitialCash     \* cash ticks the portfolio starts with

ASSUME QtyUnitAssumption == QtyUnit \in Nat \ {0}
ASSUME PriceUnitAssumption == PriceUnit \in Nat \ {0}
ASSUME InitialCashAssumption == InitialCash \in Nat \ {0}

TransactionType ==
    {"buy_fill", "sell_fill", "dividend_payment", "delisting_settlement"}

Lot == [qty : Nat, cost : Nat]

Account == [cash     : Int,
            flow     : [TransactionType -> Int],
            lots     : [Instruments -> Lot],
            realized : Int]

(* A product of a quantity and a price is in units of 1/Scale cash tick. *)
Scale == QtyUnit * PriceUnit
Cash(x) == RoundHalfEven(x, Scale)

NewAccount ==
    [cash     |-> InitialCash,
     flow     |-> [t \in TransactionType |-> 0],
     lots     |-> [i \in Instruments |-> [qty |-> 0, cost |-> 0]],
     realized |-> 0]

-----------------------------------------------------------------------------
(* The two ledgers. *)

Record(acct, type, amount) ==
    [acct EXCEPT !.cash = @ + amount, !.flow[type] = @ + amount]

ApplyBuy(acct, i, qty, price) ==
    LET lot    == acct.lots[i]
        newQty == lot.qty + qty
        cost   == IF lot.qty = 0
                  THEN price
                  ELSE RoundHalfEven(lot.qty * lot.cost + qty * price, newQty)
    IN  [acct EXCEPT !.lots[i] = [qty |-> newQty, cost |-> cost]]

(* Bug: the position ledger does not look at the holding. *)
CanSell_Unchecked(acct, i, qty) == TRUE

CanSell(acct, i, qty) == acct.lots[i].qty >= qty

ApplySell(acct, i, qty, price) ==
    LET lot == acct.lots[i]
        left == lot.qty - qty
    IN  [acct EXCEPT
            !.lots[i] = [qty |-> left, cost |-> IF left = 0 THEN 0 ELSE lot.cost],
            !.realized = @ + Cash((price - lot.cost) * qty)]

ApplySplit(acct, i, num, den) ==
    LET lot == acct.lots[i]
    IN  [acct EXCEPT !.lots[i] = [qty  |-> RoundHalfEven(lot.qty * num, den),
                                  cost |-> RoundHalfEven(lot.cost * den, num)]]

-----------------------------------------------------------------------------
(* Fills: the cash leg is recorded first, the position leg second. *)

(* Bug: the fee of a buy is not part of its outflow. *)
BuyOutflow_NoFees(fill) == Cash(fill.qty * fill.price)

BuyOutflow(fill) == Cash(fill.qty * fill.price + fill.fees * Scale)
SellInflow(fill) == Cash(fill.qty * fill.price - fill.fees * Scale)

BuyCashLeg(acct, fill) == Record(acct, "buy_fill", -BuyOutflow(fill))
SellCashLeg(acct, fill) == Record(acct, "sell_fill", SellInflow(fill))

ApplyBuyFill(acct, fill) ==
    ApplyBuy(BuyCashLeg(acct, fill), fill.inst, fill.qty, fill.price)

ApplySellFill(acct, fill) ==
    ApplySell(SellCashLeg(acct, fill), fill.inst, fill.qty, fill.price)

(* Corporate actions on a held instrument; a price of 0 at a delisting     *)
(* stands for "no terminal value observed".                                *)
PayDividend(acct, i, perShare) ==
    Record(acct, "dividend_payment", Cash(acct.lots[i].qty * perShare))

SettleDelisting(acct, i, price) ==
    LET qty    == acct.lots[i].qty
        credit == Cash(qty * price)
        sold   == ApplySell(acct, i, qty, price)
    IN  IF credit > 0 THEN Record(sold, "delisting_settlement", credit) ELSE sold

-----------------------------------------------------------------------------
(* The price a held lot is marked at: the session's close, else the last   *)
(* observed close, else the cost of a share.  NoPrice stands for "none".   *)
NoPrice == 0

(* Bug: a position without a bar is marked at its cost. *)
MarkPrice_AtCost(lot, close, lastKnown) ==
    IF close > NoPrice THEN close ELSE lot.cost

MarkPrice(lot, close, lastKnown) ==
    IF close > NoPrice THEN close
    ELSE IF lastKnown > NoPrice THEN lastKnown
    ELSE lot.cost

MarketValue(lot, close, lastKnown) ==
    Cash(lot.qty * MarkPrice(lot, close, lastKnown))
=============================================================================
