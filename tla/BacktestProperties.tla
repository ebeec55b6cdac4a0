------------------------- MODULE BacktestProperties -------------------------
(***************************************************************************)
(* What the backtest engine must get right, stated over its state.         *)
(***************************************************************************)
EXTENDS BacktestEngine

(* Every variable has its type; quantities held are never negative. *)
TypeOK ==
    /\ session \in 0 .. NumSessions
    /\ phase \in Phase
    /\ bars \in [Instruments -> BarValues \cup {NoBar}]
    /\ pending \subseteq Order
    /\ remaining \subseteq Order
    /\ acct \in Account
    /\ lastKnown \in [Instruments -> Nat]
    /\ marks \in [Instruments -> Int]
    /\ equity \in Int
    /\ unmarked \subseteq Instruments
    /\ attempts \subseteq Attempt
    /\ fills \subseteq Fill
    /\ totalFees \in Int
    /\ actionLog \subseteq Action
    /\ error \in Order \cup {NoError}

(* An order is filled at most once, for no more than its quantity, and     *)
(* exactly when the open that filled it noted it as filled or partially    *)
(* filled: no path through carry-over and re-planning fills one order      *)
(* twice.  (engine.py: the pending list and all_fills)                     *)
OneFillPerOrder ==
    \A f \in fills :
        /\ \A g \in fills : SameOrder(f, g) => f = g
        /\ \A o \in pending \cup remaining : ~SameOrder(f, o)
        /\ \E a \in attempts :
              /\ SameOrder(a, f) /\ a.at = f.at /\ a.side = f.side
              /\ f.qty <= a.qty
              /\ a.state = IF f.qty = a.qty THEN "filled" ELSE "partially_filled"

(* Nothing planned at a close trades at that close or before, and an order *)
(* that is filled at a later open than the next was handed back for lack   *)
(* of volume at every open in between.  (clock.py, engine.py: the decision *)
(* comes after the close, the fill at the next executable open)            *)
FilledAtFirstExecutableOpen ==
    \A f \in fills :
        /\ f.created < f.at
        /\ \A s \in f.created + 1 .. f.at - 1 :
              \E a \in attempts : SameOrder(a, f) /\ a.at = s /\ a.state = "submitted"

(* The attempts recorded for one order are a path of the life cycle: its   *)
(* terms never change and only "submitted" is ever followed by anything.   *)
(* After the open, the orders pending are exactly those it left submitted  *)
(* and, after a decision, the newly planned ones: no order is dropped or   *)
(* resurrected.  (engine.py: all_orders and remaining_pending)             *)
AttemptsFollowLifeCycle ==
    /\ \A a, b \in attempts :
          SameOrder(a, b) =>
             /\ a.side = b.side /\ a.qty = b.qty
             /\ a.at < b.at =>
                   /\ a.state = "submitted"
                   /\ b.state \in {"submitted"} \cup OrderStateTransitions["submitted"]
             /\ a.at = b.at => a = b
    /\ phase \in {"marking", "rebalance", "next", "done"} =>
          /\ \A o \in pending :
                IF o.created = session
                THEN o.state = "created" /\ \A a \in attempts : ~SameOrder(a, o)
                ELSE \E a \in attempts :
                        SameOrder(a, o) /\ a.at = session /\ a.state = "submitted"
          /\ \A a \in attempts :
                a.at = session /\ a.state = "submitted" =>
                   \E o \in pending : SameOrder(a, o)

(* A held position always has an observed price: its bar of the session,   *)
(* or the close of an earlier one.  The fallback to cost basis, which      *)
(* would show as a return that never happened, is never taken.             *)
(* (marking.py: mark_to_market; engine.py: last_known_prices)              *)
NeverMarkedAtCost ==
    phase = "marking" =>
        \A i \in unmarked :
            acct.lots[i].qty > 0 => CloseOf(i) > NoPrice \/ lastKnown[i] > NoPrice

(* A corporate action hit the order's instrument after the order was       *)
(* planned from the quantity held.                                         *)
ActionSincePlanned(o) ==
    \E x \in actionLog : x.inst = o.inst /\ x.at > o.created

(* A sale of the order's instrument was carried over from one open to the  *)
(* next, so that two sales of it could be outstanding at once.             *)
SaleCarriedOver(o) ==
    \E a \in attempts : a.inst = o.inst /\ a.side = "sell" /\ a.state = "submitted"

(* The run can only break on an oversell when the order's quantity went    *)
(* stale: a corporate action between decision and open, or a sale handed   *)
(* back for lack of volume and planned again.  In every other market the   *)
(* planner never asks for more than is held.  (orders.py: plan works from  *)
(* the snapshot alone; ledger.py: apply_sell raises)                       *)
FailsOnlyOnStaleSale ==
    error # NoError =>
        /\ error.side = "sell"
        /\ ActionSincePlanned(error) \/ SaleCarriedOver(error)

(* The position of an instrument without a bar in the session is carried   *)
(* at the value it had.  (marking.py: carried at the last observed close)  *)
CarriedAtSameValue ==
    [][\A i \in Instruments :
          marks'[i] # marks[i] => bars[i] # NoBar \/ acct.lots[i].qty = 0]_marks

(* A sale the planner issued can be delivered from the holding: true in a  *)
(* liquid market without corporate actions, where no order goes stale.     *)
(* (orders.py: plan; ledger.py: apply_sell raises)                         *)
NoOversell == error = NoError
=============================================================================
