--------------------------- MODULE BacktestEngine ---------------------------
(***************************************************************************)
(* The event loop of BacktestEngine.run: for each session the market open  *)
(* (corporate actions, then the pending orders), the market close          *)
(* (marking) and, on rebalance sessions, the decision that plans orders    *)
(* for the next open.                                                      *)
(*                                                                         *)
(* The market is the environment: the bars of a session and the corporate  *)
(* actions effective on it are chosen anew at each session, from sets.     *)
(* What factors, construction and the risk engine decide is abstracted to  *)
(* the target weights they hand to the planner.                            *)
(***************************************************************************)
EXTENDS OrderPlanner, FiniteSets

CONSTANTS
    NumInstruments,     \* instruments are 1..NumInstruments, in uuid order
    NumSessions,        \* sessions are 1..NumSessions
    RebalanceSessions,  \* the sessions that end with a rebalance decision
    BarValues,          \* the bars an instrument may have in a session
    SplitRatios,        \* pairs <<n, d>>: n new shares for d old ones
    DividendAmounts,    \* price ticks per share
    DelistingAmounts,   \* terminal values, price ticks; 0: none observed
    TargetWeights,      \* functions from instruments to weights
    MaxActions          \* bound on the corporate actions of a behaviour

Bar == [open : Nat \ {0}, close : Nat \ {0}, volume : Nat]

ASSUME InstrumentsAssumption ==
    NumInstruments \in Nat \ {0} /\ Instruments = 1 .. NumInstruments
ASSUME SessionsAssumption ==
    NumSessions \in Nat \ {0} /\ NumSessions \in RebalanceSessions
ASSUME BarsAssumption == BarValues \subseteq Bar /\ NoBar \notin BarValues
ASSUME ActionsAssumption ==
    /\ SplitRatios \subseteq (Nat \ {0}) \X (Nat \ {0})
    /\ DividendAmounts \subseteq Nat \ {0}
    /\ DelistingAmounts \subseteq Nat
    /\ MaxActions \in Nat
ASSUME WeightsAssumption == TargetWeights \subseteq [Instruments -> 0 .. WeightUnit]

VARIABLES
    session,    \* the current session, 0 before the first
    phase,      \* what the loop does next
    bars,       \* the bars of the current session
    pending,    \* the orders not yet looked at in this open
    remaining,  \* the orders this open leaves pending
    acct,       \* the account, see Accounting
    lastKnown,  \* the last observed close of each instrument
    marks,      \* the value of each position when it was last marked
    equity,     \* the equity of the session, summed up while marking
    unmarked,   \* the positions still to be marked at this close
    attempts,   \* all_orders: each order as each open left it
    fills,      \* all_fills
    totalFees,  \* the fees paid, cash ticks
    actionLog,  \* the corporate actions applied, with their session
    error       \* the order whose fill raised, or NoError

marketVars == <<session, bars, actionLog>>
orderVars == <<pending, remaining, attempts, fills>>
markVars == <<lastKnown, marks, equity, unmarked>>
vars == <<session, phase, bars, pending, remaining, acct, lastKnown, marks,
          equity, unmarked, attempts, fills, totalFees, actionLog, error>>

Phase == {"next", "actions", "orders", "marking", "rebalance", "done", "failed"}
NoError == [created |-> 0]

Order == [created : 1 .. NumSessions, inst : Instruments, side : OrderSide,
          qty : Nat \ {0}, state : OrderState]
Attempt == [created : 1 .. NumSessions, inst : Instruments, side : OrderSide,
            qty : Nat \ {0}, state : OrderState, at : 1 .. NumSessions]
Fill == [created : 1 .. NumSessions, inst : Instruments, side : OrderSide,
         qty : Nat \ {0}, price : Int, fees : Int, at : 1 .. NumSessions]
Action == [type : {"split", "dividend", "delisting"}, inst : Instruments,
           at : 1 .. NumSessions]

CloseOf(i) == IF bars[i] = NoBar THEN NoPrice ELSE bars[i].close

Init ==
    /\ session = 0
    /\ phase = "next"
    /\ bars = [i \in Instruments |-> NoBar]
    /\ pending = {}
    /\ remaining = {}
    /\ acct = NewAccount
    /\ lastKnown = [i \in Instruments |-> NoPrice]
    /\ marks = [i \in Instruments |-> 0]
    /\ equity = InitialCash
    /\ unmarked = {}
    /\ attempts = {}
    /\ fills = {}
    /\ totalFees = 0
    /\ actionLog = {}
    /\ error = NoError

-----------------------------------------------------------------------------
(* MarketOpenEvent, first part: the corporate actions of the session.  An  *)
(* action on an instrument that is not held changes nothing.               *)

OpenSession(b) ==
    /\ phase = "next"
    /\ session < NumSessions
    /\ session' = session + 1
    /\ phase' = "actions"
    /\ bars' = b
    /\ UNCHANGED <<orderVars, markVars, acct, totalFees, actionLog, error>>

ApplyAction(type, i, newAcct) ==
    LET action == [type |-> type, inst |-> i, at |-> session]
    IN  /\ phase = "actions"
        /\ acct.lots[i].qty > 0
        /\ Cardinality(actionLog) < MaxActions
        /\ action \notin actionLog
        /\ actionLog' = actionLog \cup {action}
        /\ acct' = newAcct
        /\ UNCHANGED <<session, phase, bars, orderVars, markVars, totalFees, error>>

Split(i, ratio) == ApplyAction("split", i, ApplySplit(acct, i, ratio[1], ratio[2]))
Dividend(i, amount) == ApplyAction("dividend", i, PayDividend(acct, i, amount))
Delisting(i, price) == ApplyAction("delisting", i, SettleDelisting(acct, i, price))

-----------------------------------------------------------------------------
(* MarketOpenEvent, second part: the pending orders, one after the other,  *)
(* each through the broker and then through the account.                   *)

IsNext(o) == o \in pending /\ \A p \in pending : p = o \/ Before(o, p)

AttemptOf(o) == [created |-> o.created, inst |-> o.inst, side |-> o.side,
                 qty |-> o.qty, state |-> o.state, at |-> session]

(* Take the order out of the pending list and note what became of it. *)
Process(o, updated) ==
    /\ phase \in {"actions", "orders"}
    /\ IsNext(o)
    /\ pending' = pending \ {o}
    /\ attempts' = attempts \cup {AttemptOf(updated)}

(* Bug: an order without a bar is kept for a later open. *)
RejectOrder_Kept(o) ==
    /\ IsRejected(bars[o.inst])
    /\ Process(o, Rejected(o))
    /\ remaining' = remaining \cup {o}
    /\ phase' = "orders"
    /\ UNCHANGED <<marketVars, markVars, fills, acct, totalFees, error>>

RejectOrder(o) ==
    /\ IsRejected(bars[o.inst])
    /\ Process(o, Rejected(o))
    /\ phase' = "orders"
    /\ UNCHANGED <<marketVars, markVars, remaining, fills, acct, totalFees, error>>

DeferOrder(o) ==
    /\ IsDeferred(bars[o.inst])
    /\ Process(o, Active(o))
    /\ remaining' = remaining \cup {Active(o)}
    /\ phase' = "orders"
    /\ UNCHANGED <<marketVars, markVars, fills, acct, totalFees, error>>

(* Bug: a partially filled order stays pending with its full quantity. *)
FillOrder_RestKept(o, newAcct) ==
    LET fill    == FillOf(o, bars[o.inst], session)
        updated == Filled(o, bars[o.inst])
    IN  /\ Process(o, updated)
        /\ fills' = fills \cup {fill}
        /\ acct' = newAcct
        /\ totalFees' = totalFees + fill.fees
        /\ remaining' = IF updated.state = "filled" THEN remaining
                                                   ELSE remaining \cup {Active(o)}
        /\ phase' = "orders"
        /\ UNCHANGED <<marketVars, markVars, error>>

FillOrder(o, newAcct) ==
    LET fill == FillOf(o, bars[o.inst], session)
    IN  /\ Process(o, Filled(o, bars[o.inst]))
        /\ fills' = fills \cup {fill}
        /\ acct' = newAcct
        /\ totalFees' = totalFees + fill.fees
        /\ phase' = "orders"
        /\ UNCHANGED <<marketVars, markVars, remaining, error>>

FillBuy(o) ==
    /\ IsFilled(bars[o.inst])
    /\ o.side = "buy"
    /\ FillOrder(o, ApplyBuyFill(acct, FillOf(o, bars[o.inst], session)))

FillSell(o) ==
    /\ IsFilled(bars[o.inst])
    /\ o.side = "sell"
    /\ CanSell(acct, o.inst, FillQty(o, bars[o.inst]))
    /\ FillOrder(o, ApplySellFill(acct, FillOf(o, bars[o.inst], session)))

(* The position ledger refuses the sale: the exception ends the run, after *)
(* the fill has been appended and its cash leg recorded.                   *)
OversellRaises(o) ==
    LET fill == FillOf(o, bars[o.inst], session)
    IN  /\ IsFilled(bars[o.inst])
        /\ o.side = "sell"
        /\ ~CanSell(acct, o.inst, fill.qty)
        /\ Process(o, Filled(o, bars[o.inst]))
        /\ fills' = fills \cup {fill}
        /\ acct' = SellCashLeg(acct, fill)
        /\ error' = o
        /\ phase' = "failed"
        /\ UNCHANGED <<marketVars, markVars, remaining, totalFees>>

(* Bug: the orders handed back for lack of volume are forgotten. *)
EndOpen_Forgets ==
    /\ phase \in {"actions", "orders"}
    /\ pending = {}
    /\ remaining' = {}
    /\ phase' = "marking"
    /\ unmarked' = Instruments
    /\ equity' = acct.cash
    /\ UNCHANGED <<marketVars, pending, lastKnown, marks, attempts, fills, acct,
                   totalFees, error>>

EndOpen ==
    /\ phase \in {"actions", "orders"}
    /\ pending = {}
    /\ pending' = remaining
    /\ remaining' = {}
    /\ phase' = "marking"
    /\ unmarked' = Instruments
    /\ equity' = acct.cash
    /\ UNCHANGED <<marketVars, lastKnown, marks, attempts, fills, acct, totalFees, error>>

-----------------------------------------------------------------------------
(* MarketCloseEvent: the positions are marked one by one, then the closes  *)
(* of the session become the last known prices.                            *)

MarkPosition(i) ==
    LET value == MarketValue(acct.lots[i], CloseOf(i), lastKnown[i])
    IN  /\ phase = "marking"
        /\ i \in unmarked
        /\ \A j \in unmarked : i <= j
        /\ marks' = [marks EXCEPT ![i] = value]
        /\ equity' = equity + value
        /\ unmarked' = unmarked \ {i}
        /\ UNCHANGED <<marketVars, phase, orderVars, lastKnown, acct, totalFees, error>>

AfterSession == IF session = NumSessions THEN "done" ELSE "next"

(* Bug: only the closes of this session are known afterwards. *)
EndClose_Resets ==
    /\ phase = "marking"
    /\ unmarked = {}
    /\ lastKnown' = [i \in Instruments |-> CloseOf(i)]
    /\ phase' = IF session \in RebalanceSessions THEN "rebalance" ELSE AfterSession
    /\ UNCHANGED <<marketVars, orderVars, marks, equity, unmarked, acct, totalFees, error>>

EndClose ==
    /\ phase = "marking"
    /\ unmarked = {}
    /\ lastKnown' = [i \in Instruments |->
                        IF bars[i] = NoBar THEN lastKnown[i] ELSE bars[i].close]
    /\ phase' = IF session \in RebalanceSessions THEN "rebalance" ELSE AfterSession
    /\ UNCHANGED <<marketVars, orderVars, marks, equity, unmarked, acct, totalFees, error>>

-----------------------------------------------------------------------------
(* RebalanceDecisionEvent: the plan extends the pending orders, which may  *)
(* still hold orders of an earlier rebalance.                              *)

Rebalance(weights) ==
    /\ phase = "rebalance"
    /\ pending' = pending \cup Plan(session, equity, weights, acct.lots, bars)
    /\ phase' = AfterSession
    /\ UNCHANGED <<marketVars, markVars, remaining, attempts, fills, acct, totalFees, error>>

-----------------------------------------------------------------------------
Next ==
    \/ \E b \in [Instruments -> BarValues \cup {NoBar}] : OpenSession(b)
    \/ \E i \in Instruments :
          \/ \E ratio \in SplitRatios : Split(i, ratio)
          \/ \E amount \in DividendAmounts : Dividend(i, amount)
          \/ \E price \in DelistingAmounts : Delisting(i, price)
          \/ MarkPosition(i)
    \/ \E o \in pending :
          \/ RejectOrder(o)
          \/ DeferOrder(o)
          \/ FillBuy(o)
          \/ FillSell(o)
          \/ OversellRaises(o)
    \/ EndOpen
    \/ EndClose
    \/ \E weights \in TargetWeights : Rebalance(weights)

Spec == Init /\ [][Next]_vars
=============================================================================
