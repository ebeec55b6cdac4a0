---------------------------- MODULE OrderPlanner ----------------------------
(***************************************************************************)
(* The order planner: the market orders that move a portfolio from its     *)
(* present lots to target weights, sized in whole shares at the session's  *)
(* closing prices.  Instruments without a bar are skipped, held or not.    *)
(***************************************************************************)
EXTENDS SimulatedBroker

CONSTANTS
    WeightUnit,      \* the weight 1.0
    NoTradeBandBps,  \* no trade below this distance of weights
    MinTrade         \* no trade below this value, cash ticks

ASSUME WeightUnitAssumption == WeightUnit \in Nat \ {0}
ASSUME BandAssumption == NoTradeBandBps \in Nat
ASSUME MinTradeAssumption == MinTrade \in Nat

(* Whole shares the target weight buys at this price, in quantity ticks. *)
TargetQty(equity, weight, price) ==
    ((equity * weight * PriceUnit) \div (WeightUnit * price)) * QtyUnit

(* |target weight - current weight| < no_trade_band_pct, cross-multiplied. *)
WithinBand(equity, weight, qty, price) ==
    Abs(weight * Scale * equity - qty * price * WeightUnit) * BpsUnit
        < NoTradeBandBps * WeightUnit * Scale * equity

TooSmall(deltaQty, price) == Abs(deltaQty) * price < MinTrade * Scale

(* The instrument is traded at this rebalance. *)
Traded(equity, weight, lot, bar) ==
    LET delta == TargetQty(equity, weight, bar.close) - lot.qty
    IN  /\ ~(lot.qty > 0 /\ weight > 0 /\ WithinBand(equity, weight, lot.qty, bar.close))
        /\ ~(weight > 0 /\ TooSmall(delta, bar.close))
        /\ delta # 0

(* Bug: the cap is the planned quantity, larger or smaller. *)
CapToAdv_Always(qty, bar) ==
    LET cap == MaxExecutableQty(bar.volume) IN IF cap > 0 THEN cap ELSE qty

(* A cap of no shares at all does not limit the planned quantity. *)
CapToAdv(qty, bar) ==
    LET cap == MaxExecutableQty(bar.volume)
    IN  IF cap > 0 /\ qty > cap THEN cap ELSE qty

(* Bug: a position below its target is sold. *)
PlannedOrder_SidesSwapped(i, session, equity, weight, lot, bar) ==
    LET delta == TargetQty(equity, weight, bar.close) - lot.qty
    IN  [created |-> session,
         inst    |-> i,
         side    |-> IF delta < 0 THEN "buy" ELSE "sell",
         qty     |-> CapToAdv(Abs(delta), bar),
         state   |-> "created"]

PlannedOrder(i, session, equity, weight, lot, bar) ==
    LET delta == TargetQty(equity, weight, bar.close) - lot.qty
    IN  [created |-> session,
         inst    |-> i,
         side    |-> IF delta < 0 THEN "sell" ELSE "buy",
         qty     |-> CapToAdv(Abs(delta), bar),
         state   |-> "created"]

(* The plan for target weights, a function of the instruments. *)
Plan(session, equity, weights, lots, bars) ==
    IF equity <= 0
    THEN {}
    ELSE {PlannedOrder(i, session, equity, weights[i], lots[i], bars[i]) :
            i \in {j \in Instruments :
                      bars[j] # NoBar /\ Traded(equity, weights[j], lots[j], bars[j])}}
=============================================================================
