--------------------------- MODULE SimulatedBroker ---------------------------
(***************************************************************************)
(* The simulated broker: what becomes of one market order at the open of a *)
(* session, given the instrument's bar of that session.  Prices are those  *)
(* of Accounting; a bar's volume is in whole shares.                       *)
(***************************************************************************)
EXTENDS Accounting, Orders

CONSTANTS
    NoBar,             \* stands for "no bar this session"
    SlippageBps,       \* adverse slippage, basis points of the open
    Commission,        \* commission per share, price ticks
    ParticipationBps   \* share of a bar's volume that may be traded

ASSUME SlippageAssumption == SlippageBps \in 0 .. (BpsUnit \div 2)
ASSUME CommissionAssumption == Commission \in Nat
ASSUME ParticipationAssumption == ParticipationBps \in 0 .. BpsUnit

(* The largest executable quantity, a whole number of shares. *)
MaxExecutableQty(volume) ==
    ((volume * ParticipationBps) \div BpsUnit) * QtyUnit

Slippage(open) == RoundHalfEven(open * SlippageBps, BpsUnit)

ExecutePrice(open, side) ==
    IF side = "buy" THEN open + Slippage(open) ELSE open - Slippage(open)

CalculateFees(qty) == Cash(qty * Commission)

-----------------------------------------------------------------------------
(* The outcomes of execute_order for an order that is not terminal.        *)

(* The state of an order by the time the bar is looked at. *)
Active(o) == [o EXCEPT !.state = "submitted"]

IsRejected(bar) == bar = NoBar
Rejected(o) == [Active(o) EXCEPT !.state = "rejected"]

(* No volume: the order is handed back submitted, without a fill. *)
IsDeferred(bar) == bar # NoBar /\ MaxExecutableQty(bar.volume) <= 0

IsFilled(bar) == bar # NoBar /\ MaxExecutableQty(bar.volume) > 0

FillQty(o, bar) ==
    LET cap == MaxExecutableQty(bar.volume)
    IN  IF o.qty > cap THEN cap ELSE o.qty

FillOf(o, bar, session) ==
    LET qty == FillQty(o, bar)
    IN  [created |-> o.created,
         inst    |-> o.inst,
         side    |-> o.side,
         qty     |-> qty,
         price   |-> ExecutePrice(bar.open, o.side),
         fees    |-> CalculateFees(qty),
         at      |-> session]

Filled(o, bar) ==
    [Active(o) EXCEPT !.state =
        IF FillQty(o, bar) >= o.qty THEN "filled" ELSE "partially_filled"]
=============================================================================
