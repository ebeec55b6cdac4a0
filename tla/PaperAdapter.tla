---------------------------- MODULE PaperAdapter ----------------------------
(***************************************************************************)
(* The paper broker's account and what one order does to it:               *)
(* quantlab.paper.adapter.MockExecutionAdapter.  Money is in ticks of      *)
(* 0.0001, the precision the fill price is rounded to; holdings are whole  *)
(* shares, and an instrument missing from the positions is held 0 times.   *)
(***************************************************************************)
EXTENDS Decimals, FiniteSets

CONSTANTS
    Instruments,
    InitialCash,
    SlippageBps,      \* adverse slippage, basis points of the quote
    Commission,       \* commission of one order, ticks
    Quotes,           \* prices set_prices may be given, ticks
    DefaultQuote,     \* the price of an instrument never quoted
    Quantities        \* order quantities, whole shares

ASSUME CashAssumption == InitialCash \in Int
ASSUME SlippageAssumption == SlippageBps \in 0 .. BpsUnit
ASSUME CommissionAssumption == Commission \in Nat
ASSUME QuoteAssumption == Quotes \subseteq Nat /\ DefaultQuote \in Nat
ASSUME QuantityAssumption == Quantities \subseteq Nat \ {0}

PaperOrderSide == {"BUY", "SELL"}

BrokerAccount == [cash : Int, held : [Instruments -> Nat]]

NewAccount == [cash |-> InitialCash, held |-> [i \in Instruments |-> 0]]

Multiplier(side) ==
    IF side = "BUY" THEN BpsUnit + SlippageBps ELSE BpsUnit - SlippageBps

FillPrice(quote, side) == RoundHalfEven(quote * Multiplier(side), BpsUnit)

(* Every order is filled at once and in full: no balance, holding or order *)
(* identifier is looked at.                                                *)
Executed(i, side, qty, quote) ==
    [inst |-> i, side |-> side, qty |-> qty,
     price |-> FillPrice(quote, side), commission |-> Commission]

Positive_Unchecked(x) == x

Positive(x) == IF x <= 0 THEN 0 ELSE x

(* A sale of more than is held takes the position away and credits the     *)
(* cash in full.                                                           *)
AfterFill(a, f) ==
    IF f.side = "BUY"
    THEN [cash |-> a.cash - (f.price * f.qty + f.commission),
          held |-> [a.held EXCEPT ![f.inst] = @ + f.qty]]
    ELSE [cash |-> a.cash + (f.price * f.qty - f.commission),
          held |-> [a.held EXCEPT ![f.inst] = Positive(@ - f.qty)]]
=============================================================================
