--------------------------- MODULE BacktestProofs ---------------------------
(***************************************************************************)
(* Proofs about the backtest engine, for every market, every number of     *)
(* instruments and sessions and every scale of prices and quantities.      *)
(***************************************************************************)
EXTENDS BacktestInvariant, BacktestBooks, FiniteSetTheorems, WellFoundedInduction, TLAPS

-----------------------------------------------------------------------------
(* Arithmetic. *)

(* A product of two naturals is a natural, and positive if both are.       *)
LEMMA ProductType ==
    ASSUME NEW m \in Nat, NEW n \in Nat
    PROVE  m * n \in Nat /\ (m > 0 /\ n > 0 => m * n > 0)
  OBVIOUS

(* Rounding an integer ratio yields an integer.                            *)
LEMMA RoundInt ==
    ASSUME NEW n \in Int, NEW d \in Nat \ {0}
    PROVE  RoundHalfEven(n, d) \in Int
  BY DEF RoundHalfEven

(* Rounding a ratio of naturals yields a natural.                          *)
LEMMA RoundNat ==
    ASSUME NEW n \in Nat, NEW d \in Nat \ {0}
    PROVE  RoundHalfEven(n, d) \in Nat
  BY DEF RoundHalfEven

(* Dividing naturals yields a natural.                                     *)
LEMMA DivNat ==
    ASSUME NEW n \in Nat, NEW d \in Nat \ {0}
    PROVE  n \div d \in Nat
  OBVIOUS

(* The scale of money is positive, so converting to cash ticks is total.   *)
LEMMA ScaleType == Scale \in Nat \ {0}
  BY ProductType, QtyUnitAssumption, PriceUnitAssumption DEF Scale

LEMMA CashType == ASSUME NEW x \in Int PROVE Cash(x) \in Int
  BY ScaleType, RoundInt DEF Cash

-----------------------------------------------------------------------------
(* The account keeps its type under every operation on it, and no          *)
(* operation touches a lot it is not about.                                *)

LEMMA RecordAccount ==
    ASSUME NEW a \in Account, NEW t \in TransactionType, NEW x \in Int
    PROVE  Record(a, t, x) \in Account /\ Record(a, t, x).lots = a.lots
<1>1. a.cash + x \in Int /\ a.flow[t] + x \in Int
  BY DEF Account
<1>2. SUFFICES ASSUME NEW y \in Int, NEW z \in Int,
                      y = a.cash + x, z = a.flow[t] + x
               PROVE  /\ [a EXCEPT !.cash = y, !.flow[t] = z] \in Account
                      /\ [a EXCEPT !.cash = y, !.flow[t] = z].lots = a.lots
  BY <1>1 DEF Record
<1>3. QED
  BY DEF Account

LEMMA BuyAccount ==
    ASSUME NEW a \in Account, NEW i \in Instruments,
           NEW q \in Nat \ {0}, NEW p \in Nat
    PROVE  /\ ApplyBuy(a, i, q, p) \in Account
           /\ ApplyBuy(a, i, q, p).lots[i].qty = a.lots[i].qty + q
           /\ \A j \in Instruments \ {i} : ApplyBuy(a, i, q, p).lots[j] = a.lots[j]
<1> DEFINE lot  == a.lots[i]
           new  == lot.qty + q
           cost == IF lot.qty = 0 THEN p
                   ELSE RoundHalfEven(lot.qty * lot.cost + q * p, new)
<1>1. lot \in Lot
  BY DEF Account
<1>2. new \in Nat \ {0}
  BY <1>1 DEF Lot
<1>3. lot.qty * lot.cost + q * p \in Nat
  BY <1>1, ProductType DEF Lot
<1>4. cost \in Nat
  BY <1>2, <1>3, RoundNat
<1>5. [qty |-> new, cost |-> cost] \in Lot
  BY <1>2, <1>4 DEF Lot
<1>6. SUFFICES ASSUME NEW v \in Lot, v = [qty |-> new, cost |-> cost]
               PROVE  /\ [a EXCEPT !.lots[i] = v] \in Account
                      /\ [a EXCEPT !.lots[i] = v].lots[i].qty = new
                      /\ \A j \in Instruments \ {i} :
                            [a EXCEPT !.lots[i] = v].lots[j] = a.lots[j]
  BY <1>5 DEF ApplyBuy
<1>7. v.qty = new
  BY <1>6
<1> HIDE DEF new, cost
<1>8. QED
  BY <1>7 DEF Account

LEMMA SellAccount ==
    ASSUME NEW a \in Account, NEW i \in Instruments,
           NEW q \in Nat, NEW p \in Int, CanSell(a, i, q)
    PROVE  /\ ApplySell(a, i, q, p) \in Account
           /\ ApplySell(a, i, q, p).lots[i].qty = a.lots[i].qty - q
           /\ \A j \in Instruments \ {i} : ApplySell(a, i, q, p).lots[j] = a.lots[j]
<1> DEFINE lot   == a.lots[i]
           left  == lot.qty - q
           cost  == IF left = 0 THEN 0 ELSE lot.cost
           gain  == Cash((p - lot.cost) * q)
<1>1. lot \in Lot
  BY DEF Account
<1>2. left \in Nat
  BY <1>1 DEF Lot, CanSell
<1>3. [qty |-> left, cost |-> cost] \in Lot
  BY <1>1, <1>2 DEF Lot
<1>4. a.realized + gain \in Int
  <2>1. (p - lot.cost) * q \in Int
    BY <1>1 DEF Lot
  <2>2. gain \in Int
    BY <2>1, CashType
  <2>3. QED
    BY <2>2 DEF Account
<1>5. SUFFICES ASSUME NEW v \in Lot, NEW y \in Int,
                      v = [qty |-> left, cost |-> cost], y = a.realized + gain
               PROVE  /\ [a EXCEPT !.lots[i] = v, !.realized = y] \in Account
                      /\ [a EXCEPT !.lots[i] = v, !.realized = y].lots[i].qty = left
                      /\ \A j \in Instruments \ {i} :
                            [a EXCEPT !.lots[i] = v, !.realized = y].lots[j] = a.lots[j]
  BY <1>3, <1>4 DEF ApplySell
<1>6. v.qty = left
  BY <1>5
<1> HIDE DEF left, cost, gain
<1>7. QED
  BY <1>6 DEF Account

LEMMA SplitAccount ==
    ASSUME NEW a \in Account, NEW i \in Instruments,
           NEW n \in Nat \ {0}, NEW d \in Nat \ {0}
    PROVE  /\ ApplySplit(a, i, n, d) \in Account
           /\ \A j \in Instruments \ {i} : ApplySplit(a, i, n, d).lots[j] = a.lots[j]
<1> DEFINE lot == a.lots[i]
           qty == RoundHalfEven(lot.qty * n, d)
           cost == RoundHalfEven(lot.cost * d, n)
<1>1. lot \in Lot
  BY DEF Account
<1>2. lot.qty * n \in Nat /\ lot.cost * d \in Nat
  BY <1>1, ProductType DEF Lot
<1>3. [qty |-> qty, cost |-> cost] \in Lot
  BY <1>2, RoundNat DEF Lot
<1>4. SUFFICES ASSUME NEW v \in Lot, v = [qty |-> qty, cost |-> cost]
               PROVE  /\ [a EXCEPT !.lots[i] = v] \in Account
                      /\ \A j \in Instruments \ {i} :
                            [a EXCEPT !.lots[i] = v].lots[j] = a.lots[j]
  BY <1>3 DEF ApplySplit
<1>5. QED
  BY DEF Account

LEMMA DividendAccount ==
    ASSUME NEW a \in Account, NEW i \in Instruments, NEW x \in Nat
    PROVE  PayDividend(a, i, x) \in Account /\ PayDividend(a, i, x).lots = a.lots
<1>1. a.lots[i].qty * x \in Int
  BY ProductType DEF Account, Lot
<1>2. QED
  BY <1>1, CashType, RecordAccount DEF PayDividend, TransactionType

LEMMA DelistingAccount ==
    ASSUME NEW a \in Account, NEW i \in Instruments, NEW x \in Nat
    PROVE  /\ SettleDelisting(a, i, x) \in Account
           /\ SettleDelisting(a, i, x).lots[i].qty = 0
           /\ \A j \in Instruments \ {i} : SettleDelisting(a, i, x).lots[j] = a.lots[j]
<1> DEFINE q == a.lots[i].qty
           sold == ApplySell(a, i, q, x)
<1>1. q \in Nat /\ CanSell(a, i, q)
  BY DEF Account, Lot, CanSell
<1>2. /\ sold \in Account
      /\ sold.lots[i].qty = 0
      /\ \A j \in Instruments \ {i} : sold.lots[j] = a.lots[j]
  BY <1>1, SellAccount
<1>3. q * x \in Int
  BY <1>1, ProductType
<1>4. Cash(q * x) \in Int
  BY <1>3, CashType
<1> HIDE DEF sold, q
<1>5. Record(sold, "delisting_settlement", Cash(q * x)) \in Account
      /\ Record(sold, "delisting_settlement", Cash(q * x)).lots = sold.lots
  BY <1>2, <1>4, RecordAccount DEF TransactionType
<1>6. SettleDelisting(a, i, x) = IF Cash(q * x) > 0
                                 THEN Record(sold, "delisting_settlement", Cash(q * x))
                                 ELSE sold
  BY DEF SettleDelisting, sold, q
<1>7. QED
  BY <1>2, <1>5, <1>6

-----------------------------------------------------------------------------
(* The broker.                                                             *)

LEMMA BarType ==
    ASSUME TypeOK, NEW i \in Instruments, bars[i] # NoBar
    PROVE  bars[i] \in Bar
  BY BarsAssumption DEF TypeOK

LEMMA CapType ==
    ASSUME NEW v \in Nat
    PROVE  MaxExecutableQty(v) \in Nat
<1>1. v * ParticipationBps \in Nat
  BY ProductType, ParticipationAssumption DEF BpsUnit
<1>2. (v * ParticipationBps) \div BpsUnit \in Nat
  BY <1>1, DivNat DEF BpsUnit
<1>3. QED
  BY <1>2, ProductType, QtyUnitAssumption DEF MaxExecutableQty

LEMMA SlippageType ==
    ASSUME NEW p \in Nat
    PROVE  Slippage(p) \in Nat
<1>1. p * SlippageBps \in Nat
  BY ProductType, SlippageAssumption DEF BpsUnit
<1>2. QED
  BY <1>1, RoundNat DEF Slippage, BpsUnit

(* A fill is for a positive number of shares, at most those ordered, and a *)
(* buyer pays a price that is not negative.                                *)
LEMMA FillType ==
    ASSUME NEW o \in Order, NEW bar \in Bar, NEW s \in 1 .. NumSessions,
           MaxExecutableQty(bar.volume) > 0
    PROVE  /\ FillOf(o, bar, s) \in Fill
           /\ FillOf(o, bar, s).qty <= o.qty
           /\ FillOf(o, bar, s).price \in Int
           /\ o.side = "buy" => FillOf(o, bar, s).price \in Nat
<1>1. /\ o.created \in 1 .. NumSessions /\ o.inst \in Instruments
      /\ o.side \in OrderSide /\ o.qty \in Nat \ {0}
  BY DEF Order
<1>2. bar.open \in Nat /\ bar.volume \in Nat
  BY DEF Bar
<1>3. FillQty(o, bar) \in Nat \ {0} /\ FillQty(o, bar) <= o.qty
  BY <1>1, <1>2, CapType DEF FillQty
<1>4. /\ ExecutePrice(bar.open, o.side) \in Int
      /\ o.side = "buy" => ExecutePrice(bar.open, o.side) \in Nat
  BY <1>2, SlippageType DEF ExecutePrice
<1>5. CalculateFees(FillQty(o, bar)) \in Int
  <2>1. FillQty(o, bar) * Commission \in Int
    BY <1>3, ProductType, CommissionAssumption
  <2>2. QED
    BY <2>1, CashType DEF CalculateFees
<1> HIDE DEF FillQty
<1>6. QED
  BY <1>1, <1>3, <1>4, <1>5 DEF FillOf, Fill

LEMMA OutcomeType ==
    ASSUME NEW o \in Order, NEW bar
    PROVE  /\ Active(o) \in Order /\ Rejected(o) \in Order /\ Filled(o, bar) \in Order
           /\ Active(o).state = "submitted"
           /\ Rejected(o).state = "rejected"
           /\ Filled(o, bar).state =
                 IF FillQty(o, bar) >= o.qty THEN "filled" ELSE "partially_filled"
           /\ \A u \in {Active(o), Rejected(o), Filled(o, bar)} :
                 /\ u.created = o.created /\ u.inst = o.inst
                 /\ u.side = o.side /\ u.qty = o.qty
  BY DEF Order, Active, Rejected, Filled, OrderState

LEMMA AttemptType ==
    ASSUME NEW u \in Order, session \in 1 .. NumSessions
    PROVE  AttemptOf(u) \in Attempt
  BY DEF AttemptOf, Order, Attempt

-----------------------------------------------------------------------------
(* Fills on the account.                                                   *)

LEMMA BuyFillAccount ==
    ASSUME NEW a \in Account, NEW f \in Fill, f.price \in Nat
    PROVE  /\ ApplyBuyFill(a, f) \in Account
           /\ ApplyBuyFill(a, f).lots[f.inst].qty = a.lots[f.inst].qty + f.qty
           /\ \A j \in Instruments \ {f.inst} : ApplyBuyFill(a, f).lots[j] = a.lots[j]
<1>1. f.inst \in Instruments /\ f.qty \in Nat \ {0} /\ f.fees \in Int
  BY DEF Fill
<1>2. BuyOutflow(f) \in Int
  <2>1. f.qty * f.price + f.fees * Scale \in Int
    BY <1>1, ScaleType
  <2>2. QED
    BY <2>1, CashType DEF BuyOutflow
<1>3. BuyCashLeg(a, f) \in Account /\ BuyCashLeg(a, f).lots = a.lots
  <2>1. -BuyOutflow(f) \in Int
    BY <1>2
  <2>2. QED
    BY <2>1, RecordAccount DEF BuyCashLeg, TransactionType
<1> DEFINE leg == BuyCashLeg(a, f)
           b == ApplyBuy(leg, f.inst, f.qty, f.price)
<1>4. leg \in Account /\ leg.lots = a.lots
  BY <1>3
<1> HIDE DEF leg
<1>5. /\ b \in Account
      /\ b.lots[f.inst].qty = leg.lots[f.inst].qty + f.qty
      /\ \A j \in Instruments \ {f.inst} : b.lots[j] = leg.lots[j]
  <2> DEFINE i == f.inst
             q == f.qty
             p == f.price
  <2>1. leg \in Account /\ i \in Instruments /\ q \in Nat \ {0} /\ p \in Nat
    BY <1>1, <1>4
  <2>2. b = ApplyBuy(leg, i, q, p)
    OBVIOUS
  <2> HIDE DEF i, q, p
  <2>3. /\ ApplyBuy(leg, i, q, p) \in Account
        /\ ApplyBuy(leg, i, q, p).lots[i].qty = leg.lots[i].qty + q
        /\ \A j \in Instruments \ {i} : ApplyBuy(leg, i, q, p).lots[j] = leg.lots[j]
    BY <2>1, BuyAccount, SMTT(60)
  <2> QED
    BY <2>3 DEF i, q, p
<1>6. b = ApplyBuyFill(a, f)
  BY DEF ApplyBuyFill, leg
<1> HIDE DEF b
<1>7. QED
  BY <1>4, <1>5, <1>6

LEMMA SellCashAccount ==
    ASSUME NEW a \in Account, NEW f \in Fill
    PROVE  SellCashLeg(a, f) \in Account /\ SellCashLeg(a, f).lots = a.lots
<1>1. f.qty * f.price - f.fees * Scale \in Int
  BY ScaleType DEF Fill
<1>2. SellInflow(f) \in Int
  BY <1>1, CashType DEF SellInflow
<1>3. QED
  BY <1>2, RecordAccount DEF SellCashLeg, TransactionType

LEMMA SellFillAccount ==
    ASSUME NEW a \in Account, NEW f \in Fill, CanSell(a, f.inst, f.qty)
    PROVE  /\ ApplySellFill(a, f) \in Account
           /\ ApplySellFill(a, f).lots[f.inst].qty = a.lots[f.inst].qty - f.qty
           /\ \A j \in Instruments \ {f.inst} : ApplySellFill(a, f).lots[j] = a.lots[j]
<1>1. f.inst \in Instruments /\ f.qty \in Nat /\ f.price \in Int
  BY DEF Fill
<1>2. SellCashLeg(a, f) \in Account /\ SellCashLeg(a, f).lots = a.lots
  BY SellCashAccount
<1>3. CanSell(SellCashLeg(a, f), f.inst, f.qty)
  BY <1>2 DEF CanSell
<1> DEFINE leg == SellCashLeg(a, f)
           b == ApplySell(leg, f.inst, f.qty, f.price)
<1>4. leg \in Account /\ leg.lots = a.lots /\ CanSell(leg, f.inst, f.qty)
  BY <1>2, <1>3
<1> HIDE DEF leg
<1>5. /\ b \in Account
      /\ b.lots[f.inst].qty = leg.lots[f.inst].qty - f.qty
      /\ \A j \in Instruments \ {f.inst} : b.lots[j] = leg.lots[j]
  BY <1>1, <1>4, SellAccount
<1>6. b = ApplySellFill(a, f)
  BY DEF ApplySellFill, leg
<1> HIDE DEF b
<1>7. QED
  BY <1>4, <1>5, <1>6

-----------------------------------------------------------------------------
(* The planner.                                                            *)

(* Every planned order is an order of this session in state "created", and *)
(* a planned sale is for no more than is held.                             *)
LEMMA PlanType ==
    ASSUME TypeOK, session \in 1 .. NumSessions,
           NEW w \in TargetWeights,
           NEW o \in Plan(session, equity, w, acct.lots, bars)
    PROVE  /\ o \in Order /\ o.created = session /\ o.state = "created"
           /\ o.side = "sell" => o.qty <= acct.lots[o.inst].qty
           /\ \E i \in Instruments :
                 o = PlannedOrder(i, session, equity, w[i], acct.lots[i], bars[i])
<1>1. equity \in Nat \ {0}
  BY DEF TypeOK, Plan
<1>2. PICK i \in Instruments :
         /\ bars[i] # NoBar
         /\ Traded(equity, w[i], acct.lots[i], bars[i])
         /\ o = PlannedOrder(i, session, equity, w[i], acct.lots[i], bars[i])
  BY DEF Plan
<1> DEFINE held   == acct.lots[i].qty
           price  == bars[i].close
           target == TargetQty(equity, w[i], price)
           delta  == target - held
           qty    == CapToAdv(Abs(delta), bars[i])
<1>3. w[i] \in Nat
  BY WeightsAssumption
<1>4. price \in Nat \ {0} /\ bars[i].volume \in Nat
  BY <1>2, BarType DEF Bar
<1>5. held \in Nat
  BY DEF TypeOK, Account, Lot
<1>6. target \in Nat
  <2>1. equity * w[i] * PriceUnit \in Nat
    BY <1>1, <1>3, ProductType, PriceUnitAssumption
  <2>2. WeightUnit * price \in Nat \ {0}
    BY <1>4, ProductType, WeightUnitAssumption
  <2>3. (equity * w[i] * PriceUnit) \div (WeightUnit * price) \in Nat
    BY <2>1, <2>2, DivNat
  <2>4. QED
    BY <2>3, ProductType, QtyUnitAssumption DEF TargetQty
<1>7. delta # 0
  BY <1>2 DEF Traded
<1> HIDE DEF target, held
<1>8. /\ Abs(delta) \in Nat \ {0}
      /\ delta < 0 => Abs(delta) <= held
  BY <1>5, <1>6, <1>7 DEF Abs
<1>9. qty \in Nat \ {0} /\ qty <= Abs(delta)
  BY <1>4, <1>8, CapType DEF CapToAdv
<1>10. o = [created |-> session, inst |-> i,
            side |-> IF delta < 0 THEN "sell" ELSE "buy",
            qty |-> qty, state |-> "created"]
  BY <1>2 DEF PlannedOrder, target, held
<1> HIDE DEF delta, qty
<1>11. qty \in Nat \ {0} /\ (delta < 0 => qty <= held)
  <2>1. Abs(delta) \in Nat
    BY <1>8
  <2>2. QED
    BY <1>5, <1>8, <1>9, <2>1
<1>12. o \in Order /\ o.created = session /\ o.state = "created"
  BY <1>10, <1>11 DEF Order, OrderSide, OrderState
<1>13. o.side = "sell" => o.qty <= acct.lots[o.inst].qty
  BY <1>10, <1>11 DEF held
<1>14. \E j \in Instruments :
          o = PlannedOrder(j, session, equity, w[j], acct.lots[j], bars[j])
  BY <1>2
<1>15. QED
  BY <1>12, <1>13, <1>14

-----------------------------------------------------------------------------
(* What the actions do, grouped by what the invariants can tell apart.     *)

ActionStep(i) ==
    \/ \E ratio \in SplitRatios : Split(i, ratio)
    \/ \E amount \in DividendAmounts : Dividend(i, amount)
    \/ \E price \in DelistingAmounts : Delisting(i, price)

(* A corporate action concerns one lot and is noted in the log.            *)
LEMMA ActionShape ==
    ASSUME TypeOK, PhaseInv, NEW i \in Instruments, ActionStep(i)
    PROVE  /\ phase = "actions"
           /\ acct.lots[i].qty > 0
           /\ acct' \in Account
           /\ \A j \in Instruments \ {i} : acct'.lots[j] = acct.lots[j]
           /\ \E x \in Action :
                 x.inst = i /\ x.at = session /\ actionLog' = actionLog \cup {x}
           /\ UNCHANGED <<session, phase, bars, orderVars, markVars, totalFees, error>>
<1>1. acct \in Account
  BY DEF TypeOK
<1>2. ASSUME NEW ratio \in SplitRatios, Split(i, ratio)
      PROVE  /\ ApplyAction("split", i, acct') /\ acct' \in Account
             /\ \A j \in Instruments \ {i} : acct'.lots[j] = acct.lots[j]
  <2> DEFINE num == ratio[1]
             den == ratio[2]
  <2>1. num \in Nat \ {0} /\ den \in Nat \ {0}
    BY ActionsAssumption
  <2>2. ApplyAction("split", i, acct') /\ acct' = ApplySplit(acct, i, num, den)
    BY <1>2 DEF Split, ApplyAction
  <2> HIDE DEF num, den
  <2>3. QED
    BY <1>1, <2>1, <2>2, SplitAccount
<1>3. ASSUME NEW amount \in DividendAmounts, Dividend(i, amount)
      PROVE  /\ ApplyAction("dividend", i, acct') /\ acct' \in Account
             /\ \A j \in Instruments \ {i} : acct'.lots[j] = acct.lots[j]
  <2>1. amount \in Nat
    BY ActionsAssumption
  <2>2. ApplyAction("dividend", i, acct') /\ acct' = PayDividend(acct, i, amount)
    BY <1>3 DEF Dividend, ApplyAction
  <2>3. QED
    BY <1>1, <2>1, <2>2, DividendAccount
<1>4. ASSUME NEW price \in DelistingAmounts, Delisting(i, price)
      PROVE  /\ ApplyAction("delisting", i, acct') /\ acct' \in Account
             /\ \A j \in Instruments \ {i} : acct'.lots[j] = acct.lots[j]
  <2>1. price \in Nat
    BY ActionsAssumption
  <2>2. ApplyAction("delisting", i, acct') /\ acct' = SettleDelisting(acct, i, price)
    BY <1>4 DEF Delisting, ApplyAction
  <2>3. QED
    BY <1>1, <2>1, <2>2, DelistingAccount
<1>5. PICK type \in {"split", "dividend", "delisting"} :
         /\ ApplyAction(type, i, acct')
         /\ acct' \in Account
         /\ \A j \in Instruments \ {i} : acct'.lots[j] = acct.lots[j]
  BY <1>2, <1>3, <1>4 DEF ActionStep
<1>6. phase = "actions"
  BY <1>5 DEF ApplyAction
<1>7. [type |-> type, inst |-> i, at |-> session] \in Action
  BY <1>6 DEF PhaseInv, Action
<1>8. QED
  BY <1>5, <1>7 DEF ApplyAction

OrderStep(o) ==
    \/ RejectOrder(o)
    \/ DeferOrder(o)
    \/ FillBuy(o)
    \/ FillSell(o)
    \/ OversellRaises(o)

(* The order that the broker has handed back is an attempt; only a deferred*)
(* one stays, only a filled one has a fill.                                *)
ProcessedAs(o, u) ==
    /\ u \in Order
    /\ u.created = o.created /\ u.inst = o.inst /\ u.side = o.side /\ u.qty = o.qty
    /\ attempts' = attempts \cup {AttemptOf(u)}
    /\ \/ /\ u.state = "rejected"
          /\ remaining' = remaining /\ fills' = fills
       \/ /\ u.state = "submitted"
          /\ remaining' = remaining \cup {u} /\ fills' = fills
       \/ /\ bars[o.inst] # NoBar
          /\ remaining' = remaining
          /\ \E f \in Fill :
                /\ SameOrder(f, o) /\ f.side = o.side /\ f.at = session
                /\ f.qty <= o.qty
                /\ u.state = IF f.qty = o.qty THEN "filled" ELSE "partially_filled"
                /\ fills' = fills \cup {f}

LEMMA OrderShape ==
    ASSUME TypeOK, PhaseInv, NEW o \in pending, OrderStep(o)
    PROVE  /\ phase \in {"actions", "orders"} /\ phase' \in {"orders", "failed"}
           /\ pending' = pending \ {o}
           /\ \E u \in Order : ProcessedAs(o, u)
           /\ UNCHANGED <<session, bars, actionLog, markVars>>
<1> DEFINE bar == bars[o.inst]
           fill == FillOf(o, bar, session)
<1>1. o \in Order /\ o.inst \in Instruments
  BY DEF TypeOK, Order
<1>2. phase \in {"actions", "orders"} /\ pending' = pending \ {o}
  BY DEF OrderStep, RejectOrder, DeferOrder, FillBuy, FillSell, FillOrder,
         OversellRaises, Process
<1>3. phase' \in {"orders", "failed"} /\ UNCHANGED <<session, bars, actionLog, markVars>>
  BY DEF OrderStep, RejectOrder, DeferOrder, FillBuy, FillSell, FillOrder,
         OversellRaises, marketVars
<1>4. CASE RejectOrder(o)
  <2>1. ProcessedAs(o, Rejected(o))
    BY <1>1, <1>4, OutcomeType DEF ProcessedAs, RejectOrder, Process
  <2>2. QED
    BY <1>1, <1>2, <1>3, <2>1, OutcomeType
<1>5. CASE DeferOrder(o)
  <2>1. ProcessedAs(o, Active(o))
    BY <1>1, <1>5, OutcomeType DEF ProcessedAs, DeferOrder, Process
  <2>2. QED
    BY <1>1, <1>2, <1>3, <2>1, OutcomeType
<1>6. CASE FillBuy(o) \/ FillSell(o) \/ OversellRaises(o)
  <2>1. /\ IsFilled(bar)
        /\ attempts' = attempts \cup {AttemptOf(Filled(o, bar))}
        /\ fills' = fills \cup {fill} /\ remaining' = remaining
    BY <1>6 DEF FillBuy, FillSell, FillOrder, OversellRaises, Process
  <2>2. bar # NoBar /\ bar \in Bar /\ MaxExecutableQty(bar.volume) > 0
    BY <1>1, <2>1, BarType DEF IsFilled
  <2>3. session \in 1 .. NumSessions
    BY <1>2 DEF PhaseInv
  <2>4. fill \in Fill /\ fill.qty <= o.qty /\ fill.qty = FillQty(o, bar)
    BY <1>1, <2>2, <2>3, FillType DEF FillOf
  <2>5. SameOrder(fill, o) /\ fill.side = o.side /\ fill.at = session
    BY DEF FillOf, SameOrder
  <2>6. o.qty \in Int /\ fill.qty \in Int
    BY <1>1, <2>4 DEF Order, Fill
  <2>7. FillQty(o, bar) >= o.qty <=> fill.qty = o.qty
    BY <2>4, <2>6
  <2>8. ProcessedAs(o, Filled(o, bar))
    <3> HIDE DEF bar, fill
    <3>1. Filled(o, bar).state =
             IF fill.qty = o.qty THEN "filled" ELSE "partially_filled"
      BY <1>1, <2>7, OutcomeType
    <3>2. QED
      BY <1>1, <2>1, <2>2, <2>4, <2>5, <3>1, OutcomeType DEF ProcessedAs, bar
  <2>9. QED
    BY <1>1, <1>2, <1>3, <2>8, OutcomeType
<1>7. QED
  BY <1>4, <1>5, <1>6 DEF OrderStep

(* A fill changes the lot of its instrument only, a buy enlarges it, and   *)
(* the account of a run that fails keeps its lots.                         *)
LEMMA OrderAccount ==
    ASSUME TypeOK, PhaseInv, NEW o \in pending, OrderStep(o)
    PROVE  /\ acct' \in Account /\ totalFees' \in Int
           /\ \A j \in Instruments \ {o.inst} : acct'.lots[j] = acct.lots[j]
           /\ o.side = "buy" => acct'.lots[o.inst].qty >= acct.lots[o.inst].qty
           /\ bars[o.inst] = NoBar => acct' = acct
           /\ \/ error' = error
              \/ /\ error' = o /\ phase' = "failed" /\ o.side = "sell"
                 /\ o.qty > acct.lots[o.inst].qty
<1> DEFINE bar == bars[o.inst]
           fill == FillOf(o, bar, session)
<1>1. o \in Order /\ o.inst \in Instruments /\ o.qty \in Int
  BY DEF TypeOK, Order
<1>2. acct \in Account /\ totalFees \in Int /\ acct.lots[o.inst].qty \in Nat
  BY <1>1 DEF TypeOK, Account, Lot
<1>3. CASE RejectOrder(o) \/ DeferOrder(o)
  BY <1>2, <1>3 DEF RejectOrder, DeferOrder
<1>4. ASSUME FillBuy(o) \/ FillSell(o) \/ OversellRaises(o)
      PROVE  /\ bar # NoBar /\ fill \in Fill /\ fill.qty <= o.qty /\ fill.inst = o.inst
             /\ o.side = "buy" => fill.price \in Nat
  <2>1. IsFilled(bar) /\ phase \in {"actions", "orders"}
    BY <1>4 DEF FillBuy, FillSell, FillOrder, OversellRaises, Process
  <2>2. bar # NoBar /\ bar \in Bar /\ MaxExecutableQty(bar.volume) > 0
    BY <1>1, <2>1, BarType DEF IsFilled
  <2>3. session \in 1 .. NumSessions
    BY <2>1 DEF PhaseInv
  <2>4. fill.inst = o.inst
    BY DEF FillOf
  <2>5. QED
    BY <1>1, <2>2, <2>3, <2>4, FillType
<1>5. CASE FillBuy(o)
  <2>1. /\ acct' = ApplyBuyFill(acct, fill) /\ totalFees' = totalFees + fill.fees
        /\ error' = error /\ o.side = "buy"
    BY <1>5 DEF FillBuy, FillOrder
  <2> HIDE DEF fill
  <2>2. fill.fees \in Int /\ fill.qty \in Nat
    BY <1>4, <1>5 DEF Fill
  <2>3. /\ acct' \in Account
        /\ acct'.lots[o.inst].qty = acct.lots[o.inst].qty + fill.qty
        /\ \A j \in Instruments \ {o.inst} : acct'.lots[j] = acct.lots[j]
    BY <1>2, <1>4, <1>5, <2>1, BuyFillAccount
  <2>4. QED
    BY <1>2, <1>4, <1>5, <2>1, <2>2, <2>3
<1>6. CASE FillSell(o)
  <2>1. /\ acct' = ApplySellFill(acct, fill) /\ totalFees' = totalFees + fill.fees
        /\ error' = error /\ o.side = "sell"
        /\ CanSell(acct, o.inst, fill.qty)
    BY <1>6 DEF FillSell, FillOrder, FillOf
  <2> HIDE DEF fill
  <2>2. fill.fees \in Int
    BY <1>4, <1>6 DEF Fill
  <2>3. /\ acct' \in Account
        /\ \A j \in Instruments \ {o.inst} : acct'.lots[j] = acct.lots[j]
    BY <1>2, <1>4, <1>6, <2>1, SellFillAccount
  <2>4. QED
    BY <1>2, <1>4, <1>6, <2>1, <2>2, <2>3
<1>7. CASE OversellRaises(o)
  <2>1. /\ acct' = SellCashLeg(acct, fill) /\ totalFees' = totalFees
        /\ error' = o /\ phase' = "failed" /\ o.side = "sell"
        /\ ~CanSell(acct, o.inst, fill.qty)
    BY <1>7 DEF OversellRaises
  <2> HIDE DEF fill
  <2>2. acct' \in Account /\ acct'.lots = acct.lots
    BY <1>2, <1>4, <1>7, <2>1, SellCashAccount
  <2>3. o.qty > acct.lots[o.inst].qty
    <3>1. fill.qty \in Int /\ fill.qty <= o.qty
      BY <1>4, <1>7 DEF Fill
    <3>2. acct.lots[o.inst].qty < fill.qty
      BY <1>2, <2>1, <3>1 DEF CanSell
    <3>3. QED
      BY <1>1, <1>2, <3>1, <3>2
  <2>4. QED
    BY <1>2, <1>4, <1>7, <2>1, <2>2, <2>3
<1>8. QED
  BY <1>3, <1>5, <1>6, <1>7 DEF OrderStep

-----------------------------------------------------------------------------
(* The invariant holds initially.                                          *)

LEMMA NewAccountType == NewAccount \in Account
<1>1. [i \in Instruments |-> [qty |-> 0, cost |-> 0]] \in [Instruments -> Lot]
  BY DEF Lot
<1>2. [t \in TransactionType |-> 0] \in [TransactionType -> Int]
  OBVIOUS
<1>3. InitialCash \in Int
  BY InitialCashAssumption
<1>4. QED
  BY <1>1, <1>2, <1>3 DEF NewAccount, Account

LEMMA InitInv == Init => IInv
<1> SUFFICES ASSUME Init PROVE IInv
  OBVIOUS
<1>1. \A i \in Instruments : acct.lots[i].qty = 0
  BY DEF Init, NewAccount
<1>2. TypeOK
  <2>1. acct \in Account
    BY NewAccountType DEF Init
  <2>2. session \in 0 .. NumSessions /\ equity \in Int /\ phase \in Phase
    BY SessionsAssumption, InitialCashAssumption DEF Init, Phase
  <2>3. /\ bars \in [Instruments -> BarValues \cup {NoBar}]
        /\ lastKnown \in [Instruments -> Nat] /\ marks \in [Instruments -> Int]
    BY DEF Init, NoPrice
  <2>4. QED
    BY <2>1, <2>2, <2>3 DEF Init, TypeOK
<1>3. PhaseInv
  BY DEF Init, PhaseInv
<1>4. OutstandingInv /\ TrailInv /\ AttemptsInv /\ KeptInv
  BY DEF Init, OutstandingInv, Outstanding, TrailInv, AttemptsInv, KeptInv
<1>5. FillsInv
  BY DEF Init, FillsInv, OneFillPerOrder, FilledAtFirstExecutableOpen
<1>6. PriceInv
  BY <1>1 DEF PriceInv
<1>7. SalesInv
  BY DEF Init, SalesInv, FailsOnlyOnStaleSale
<1>8. QED
  BY <1>2, <1>3, <1>4, <1>5, <1>6, <1>7 DEF IInv

-----------------------------------------------------------------------------
(* Every step preserves the types.                                         *)

LEMMA TypeStep ==
    ASSUME TypeOK, PhaseInv, [Next]_vars
    PROVE  TypeOK' /\ PhaseInv'
<1>1. ASSUME NEW b \in [Instruments -> BarValues \cup {NoBar}], OpenSession(b)
      PROVE  TypeOK' /\ PhaseInv'
  <2>1. session' \in 1 .. NumSessions /\ phase' = "actions" /\ remaining' = {}
    BY <1>1, SessionsAssumption DEF OpenSession, TypeOK, PhaseInv, orderVars, OpenPhases
  <2>2. TypeOK'
    BY <1>1, <2>1 DEF OpenSession, TypeOK, Phase, orderVars, markVars
  <2>3. PhaseInv'
    BY <1>1, <2>1 DEF OpenSession, PhaseInv, OpenPhases
  <2>4. QED
    BY <2>2, <2>3
<1>2. ASSUME NEW i \in Instruments, ActionStep(i)
      PROVE  TypeOK' /\ PhaseInv'
  <2>1. TypeOK'
    BY <1>2, ActionShape DEF TypeOK, orderVars, markVars
  <2>2. PhaseInv'
    BY <1>2, ActionShape DEF PhaseInv, orderVars, OpenPhases
  <2>3. QED
    BY <2>1, <2>2
<1>3. ASSUME NEW o \in pending, OrderStep(o)
      PROVE  TypeOK' /\ PhaseInv'
  <2>1. /\ phase \in {"actions", "orders"} /\ phase' \in {"orders", "failed"}
        /\ pending' = pending \ {o}
        /\ UNCHANGED <<session, bars, actionLog, markVars>>
    BY <1>3, OrderShape
  <2>2. PICK u \in Order : ProcessedAs(o, u)
    BY <1>3, OrderShape
  <2>3. session \in 1 .. NumSessions
    BY <2>1 DEF PhaseInv
  <2>4. attempts' \subseteq Attempt
    BY <2>2, <2>3, AttemptType DEF ProcessedAs, TypeOK
  <2>5. remaining' \subseteq Order /\ fills' \subseteq Fill
    BY <2>2 DEF ProcessedAs, TypeOK
  <2>6. /\ acct' \in Account /\ totalFees' \in Int
        /\ error' = error \/ (error' = o /\ phase' = "failed")
    BY <1>3, OrderAccount
  <2>7. error' \in Order \cup {NoError} /\ pending' \subseteq Order
    BY <2>1, <2>6 DEF TypeOK
  <2>8. TypeOK'
    BY <2>1, <2>4, <2>5, <2>6, <2>7 DEF TypeOK, Phase, markVars
  <2>9. PhaseInv'
    BY <2>1, <2>3, <2>6 DEF PhaseInv, OpenPhases
  <2>10. QED
    BY <2>8, <2>9
<1>4. CASE EndOpen
  <2>1. equity' \in Int
    BY <1>4 DEF EndOpen, TypeOK, Account
  <2>2. TypeOK'
    BY <1>4, <2>1 DEF EndOpen, TypeOK, Phase, marketVars
  <2>3. PhaseInv'
    BY <1>4 DEF EndOpen, PhaseInv, OpenPhases, marketVars
  <2>4. QED
    BY <2>2, <2>3
<1>5. ASSUME NEW i \in Instruments, MarkPosition(i)
      PROVE  TypeOK' /\ PhaseInv'
  <2> DEFINE value == MarketValue(acct.lots[i], CloseOf(i), lastKnown[i])
  <2>1. value \in Int
    <3>1. acct.lots[i] \in Lot /\ lastKnown[i] \in Nat
      BY DEF TypeOK, Account
    <3>2. CloseOf(i) \in Nat
      BY BarType DEF CloseOf, NoPrice, Bar
    <3>3. MarkPrice(acct.lots[i], CloseOf(i), lastKnown[i]) \in Nat
      BY <3>1, <3>2 DEF MarkPrice, Lot
    <3>4. acct.lots[i].qty * MarkPrice(acct.lots[i], CloseOf(i), lastKnown[i]) \in Int
      BY <3>1, <3>3, ProductType DEF Lot
    <3>5. QED
      BY <3>4, CashType DEF MarketValue
  <2>2. /\ marks' = [marks EXCEPT ![i] = value] /\ equity' = equity + value
        /\ unmarked' = unmarked \ {i}
        /\ UNCHANGED <<marketVars, phase, orderVars, lastKnown, acct, totalFees, error>>
    BY <1>5 DEF MarkPosition
  <2> HIDE DEF value
  <2>3. TypeOK'
    BY <2>1, <2>2 DEF TypeOK, marketVars, orderVars
  <2>4. PhaseInv'
    BY <2>2 DEF PhaseInv, marketVars, orderVars, OpenPhases
  <2>5. QED
    BY <2>3, <2>4
<1>6. CASE EndClose
  <2>1. \A i \in Instruments : bars[i] # NoBar => bars[i].close \in Nat
    BY BarType DEF Bar
  <2>2. lastKnown' \in [Instruments -> Nat]
    BY <1>6, <2>1 DEF EndClose, TypeOK
  <2>3. phase' \in {"rebalance", "next", "done"} /\ phase = "marking"
    BY <1>6 DEF EndClose, AfterSession
  <2>4. TypeOK'
    BY <1>6, <2>2, <2>3 DEF EndClose, TypeOK, Phase, marketVars, orderVars
  <2>5. PhaseInv'
    BY <1>6, <2>3 DEF EndClose, PhaseInv, marketVars, orderVars, OpenPhases
  <2>6. QED
    BY <2>4, <2>5
<1>7. ASSUME NEW w \in TargetWeights, Rebalance(w)
      PROVE  TypeOK' /\ PhaseInv'
  <2>1. phase = "rebalance" /\ phase' \in {"next", "done"} /\ session \in 1 .. NumSessions
    BY <1>7 DEF Rebalance, AfterSession, PhaseInv
  <2>2. Plan(session, equity, w, acct.lots, bars) \subseteq Order
    BY <2>1, PlanType
  <2>3. TypeOK'
    BY <1>7, <2>1, <2>2 DEF Rebalance, TypeOK, Phase, marketVars, markVars
  <2>4. PhaseInv'
    BY <1>7, <2>1 DEF Rebalance, PhaseInv, marketVars, OpenPhases
  <2>5. QED
    BY <2>3, <2>4
<1>8. CASE UNCHANGED vars
  BY <1>8 DEF vars, TypeOK, PhaseInv
<1>9. QED
  BY <1>1, <1>2, <1>3, <1>4, <1>5, <1>6, <1>7, <1>8 DEF Next, ActionStep, OrderStep

(* Every variable keeps its type in every behaviour: whatever the market   *)
(* does, quantities held stay natural numbers, cash and fees stay whole    *)
(* ticks and every planned, attempted and filled order is well formed.     *)
THEOREM TypeCorrect == Spec => []TypeOK
<1>1. Init => TypeOK /\ PhaseInv
  BY InitInv DEF IInv
<1>2. TypeOK /\ PhaseInv /\ [Next]_vars => (TypeOK /\ PhaseInv)'
  BY TypeStep
<1>3. QED
  BY <1>1, <1>2, PTL DEF Spec

-----------------------------------------------------------------------------
(* The order books: outstanding orders, attempts and fills.                *)

BooksInv ==
    /\ OutstandingInv
    /\ TrailInv
    /\ AttemptsInv
    /\ KeptInv
    /\ FillsInv

LEMMA QuietStep ==
    ASSUME BooksInv, UNCHANGED <<session, orderVars>>,
           phase' \in OpenPhases <=> phase \in OpenPhases,
           phase \notin {"next", "done"} \/ phase' = phase
    PROVE  BooksInv'
<1> USE DEF BooksInv, orderVars
<1>1. OutstandingInv'
  BY DEF OutstandingInv, Outstanding
<1>2. TrailInv'
  BY DEF TrailInv, Outstanding, LastTried
<1>3. AttemptsInv' /\ KeptInv'
  BY DEF AttemptsInv, KeptInv
<1>4. FillsInv'
  BY DEF FillsInv, OneFillPerOrder, FilledAtFirstExecutableOpen
<1>5. QED
  BY <1>1, <1>2, <1>3, <1>4

LEMMA OpenBooks ==
    ASSUME TypeOK, PhaseInv, BooksInv, NEW b, OpenSession(b)
    PROVE  BooksInv'
<1> USE DEF BooksInv
<1>1. /\ session \in Int /\ session' = session + 1
      /\ phase = "next" /\ phase' = "actions" /\ remaining = {}
      /\ UNCHANGED orderVars
  BY DEF OpenSession, TypeOK, PhaseInv, OpenPhases
<1>2. \A o \in Outstanding : o.created \in Int
  BY DEF TypeOK, Outstanding, Order
<1>3. \A o \in Outstanding' : o \in Outstanding /\ LastTried(o)' = LastTried(o)
  BY <1>1 DEF Outstanding, LastTried, OpenPhases, orderVars
<1>4. OutstandingInv'
  BY <1>1, <1>2, <1>3 DEF OutstandingInv, orderVars
<1>5. TrailInv'
  BY <1>1, <1>3 DEF TrailInv, orderVars
<1>6. \A a \in attempts : a.at \in Int
  BY DEF TypeOK, Attempt
<1>7. AttemptsInv' /\ KeptInv'
  BY <1>1, <1>6 DEF AttemptsInv, KeptInv, orderVars
<1>8. \A f \in fills : f.at \in Int
  BY DEF TypeOK, Fill
<1>9. FillsInv'
  BY <1>1, <1>8 DEF FillsInv, OneFillPerOrder, FilledAtFirstExecutableOpen, orderVars
<1>10. QED
  BY <1>4, <1>5, <1>7, <1>9

LEMMA ProcessBooks ==
    ASSUME TypeOK, PhaseInv, BooksInv, NEW o \in pending, OrderStep(o)
    PROVE  BooksInv'
<1> USE DEF BooksInv
<1>1. /\ phase \in OpenPhases /\ phase' \in OpenPhases
      /\ phase \notin {"next", "done"} /\ phase' \notin {"next", "done"}
      /\ pending' = pending \ {o} /\ session' = session
      /\ session \in 1 .. NumSessions
  BY OrderShape DEF OpenPhases, PhaseInv
<1>2. PICK u \in Order : ProcessedAs(o, u)
  BY OrderShape
<1> DEFINE new == AttemptOf(u)
<1>3. /\ new.created = o.created /\ new.inst = o.inst /\ new.side = o.side
      /\ new.qty = o.qty /\ new.state = u.state /\ new.at = session
      /\ SameOrder(new, o) /\ SameOrder(u, o)
  BY <1>2 DEF ProcessedAs, AttemptOf, SameOrder
<1>4. attempts' = attempts \cup {new}
  BY <1>2 DEF ProcessedAs
<1> HIDE DEF new
<1>5. /\ o \in Order /\ o \in Outstanding /\ o.created \in Int /\ o.created < session
      /\ session \in Int /\ LastTried(o) = session - 1
  BY <1>1 DEF TypeOK, Outstanding, OutstandingInv, LastTried, Order
<1>6. \A p \in Outstanding' : p = u \/ (p \in Outstanding /\ ~SameOrder(p, o))
  BY <1>1, <1>2, <1>5 DEF Outstanding, ProcessedAs, OutstandingInv
<1>7. u \in Outstanding' => u.state = "submitted" /\ u \in remaining'
  <2>1. CASE u.state = "submitted"
    BY <1>2, <2>1 DEF ProcessedAs
  <2>2. CASE u.state # "submitted"
    <3>1. remaining' = remaining
      BY <1>2, <2>2 DEF ProcessedAs
    <3>2. u \notin pending'
      BY <1>1, <1>3, <1>5 DEF OutstandingInv, Outstanding
    <3>3. u \notin remaining
      BY <1>3, <1>5 DEF OutstandingInv, Outstanding
    <3>4. QED
      BY <3>1, <3>2, <3>3 DEF Outstanding
  <2>3. QED
    BY <2>1, <2>2
<1>8. OutstandingInv'
  <2>1. \A p \in Outstanding' : p.created < session
    BY <1>1, <1>2, <1>5, <1>6 DEF OutstandingInv, ProcessedAs
  <2>2. \A p, q \in Outstanding' : SameOrder(p, q) => p = q
    BY <1>3, <1>6 DEF OutstandingInv, SameOrder
  <2>3. pending' \cap remaining' = {}
    <3>1. remaining' \subseteq remaining \cup {u}
      BY <1>2 DEF ProcessedAs
    <3>2. u \notin pending'
      BY <1>1, <1>3, <1>5 DEF OutstandingInv, Outstanding
    <3>3. QED
      BY <1>1, <3>1, <3>2 DEF OutstandingInv
  <2>4. \A p \in Outstanding' : p.created \in Int
    BY <1>2, <1>6 DEF TypeOK, Outstanding, Order
  <2>5. QED
    BY <1>1, <1>5, <2>1, <2>2, <2>3, <2>4 DEF OutstandingInv
<1>9. \A p \in Outstanding : ~SameOrder(p, o) => LastTried(p)' = LastTried(p) \/ p \notin Outstanding'
  <2> SUFFICES ASSUME NEW p \in Outstanding, ~SameOrder(p, o), p \in Outstanding'
               PROVE  LastTried(p)' = LastTried(p)
    OBVIOUS
  <2>1. p # o /\ p # u
    BY <1>3 DEF SameOrder
  <2>2. p \in pending' <=> p \in pending
    BY <1>1, <2>1
  <2>3. QED
    BY <1>1, <2>2 DEF LastTried
<1>10. TrailInv'
  <2> SUFFICES ASSUME NEW p \in Outstanding'
               PROVE  /\ \A s \in p.created + 1 .. LastTried(p)' :
                            \E a \in attempts' :
                               SameOrder(a, p) /\ a.at = s /\ a.state = "submitted"
                      /\ \A a \in attempts' :
                            SameOrder(a, p) =>
                               /\ a.side = p.side /\ a.qty = p.qty
                               /\ a.state = "submitted"
                               /\ a.at <= LastTried(p)'
    BY DEF TrailInv
  <2>1. CASE p # u
    <3>1. p \in Outstanding /\ ~SameOrder(p, o) /\ LastTried(p)' = LastTried(p)
      BY <1>6, <1>9, <2>1
    <3>2. ~SameOrder(new, p)
      BY <1>3, <3>1 DEF SameOrder
    <3>3. QED
      BY <1>4, <3>1, <3>2 DEF TrailInv
  <2>2. CASE p = u
    <3>1. u.state = "submitted" /\ u \in remaining' /\ u \notin pending'
      BY <1>1, <1>3, <1>5, <1>7, <2>2 DEF OutstandingInv, Outstanding
    <3>2. LastTried(p)' = session
      BY <1>1, <2>2, <3>1 DEF LastTried
    <3>3. p.created = o.created /\ p.side = o.side /\ p.qty = o.qty
      BY <1>2, <2>2 DEF ProcessedAs
    <3>4. \A a : SameOrder(a, p) <=> SameOrder(a, o)
      BY <1>2, <2>2 DEF ProcessedAs, SameOrder
    <3>5. ASSUME NEW s \in o.created + 1 .. session
          PROVE  \E a \in attempts' : SameOrder(a, o) /\ a.at = s /\ a.state = "submitted"
      <4>1. CASE s = session
        BY <1>3, <1>4, <3>1, <4>1
      <4>2. CASE s # session
        <5>1. s \in o.created + 1 .. LastTried(o)
          BY <1>5, <4>2
        <5>2. QED
          BY <1>4, <1>5, <5>1 DEF TrailInv
      <4>3. QED
        BY <4>1, <4>2
    <3>6. ASSUME NEW a \in attempts', SameOrder(a, o)
          PROVE  /\ a.side = o.side /\ a.qty = o.qty
                 /\ a.state = "submitted" /\ a.at <= session
      <4>1. CASE a = new
        BY <1>3, <1>5, <3>1, <4>1
      <4>2. CASE a \in attempts
        <5>1. a.at \in Int
          BY <4>2 DEF TypeOK, Attempt
        <5>2. QED
          BY <1>5, <3>6, <4>2, <5>1 DEF TrailInv
      <4>3. QED
        BY <1>4, <4>1, <4>2
    <3>7. QED
      BY <3>2, <3>3, <3>4, <3>5, <3>6
  <2>3. QED
    BY <2>1, <2>2
<1>11. u.state \in {"submitted", "rejected", "filled", "partially_filled"}
  BY <1>2 DEF ProcessedAs
<1>12. \A a \in attempts : SameOrder(a, o) =>
          /\ a.side = o.side /\ a.qty = o.qty /\ a.state = "submitted"
          /\ a.at \in Int /\ a.at < session
  BY <1>5 DEF TrailInv, TypeOK, Attempt
<1>13. AttemptsInv'
  <2>1. OrderStateTransitions["submitted"] =
           {"partially_filled", "filled", "cancelled", "rejected"}
    BY DEF OrderStateTransitions, OrderState
  <2>2. \A a \in attempts' :
           /\ a.created < a.at /\ a.at <= session
           /\ a.state \in {"submitted"} \cup OrderStateTransitions["submitted"]
    BY <1>3, <1>4, <1>5, <1>11, <2>1 DEF AttemptsInv
  <2>3. ASSUME NEW a \in attempts', NEW b \in attempts', SameOrder(a, b)
        PROVE  /\ a.side = b.side /\ a.qty = b.qty
               /\ a.at < b.at => a.state = "submitted"
               /\ a.at = b.at => a = b
    <3>1. CASE a \in attempts /\ b \in attempts
      BY <2>3, <3>1 DEF AttemptsInv
    <3>2. CASE a \in attempts /\ b = new
      <4>1. SameOrder(a, o)
        BY <1>3, <2>3, <3>2 DEF SameOrder
      <4>2. QED
        BY <1>3, <1>5, <1>12, <3>2, <4>1
    <3>3. CASE a = new /\ b \in attempts
      <4>1. SameOrder(b, o)
        BY <1>3, <2>3, <3>3 DEF SameOrder
      <4>2. QED
        BY <1>3, <1>5, <1>12, <3>3, <4>1
    <3>4. CASE a = new /\ b = new
      BY <1>3, <1>5, <3>4
    <3>5. QED
      BY <1>4, <3>1, <3>2, <3>3, <3>4
  <2>4. QED
    BY <1>1, <2>2, <2>3 DEF AttemptsInv
<1>14. KeptInv'
  <2> SUFFICES ASSUME NEW a \in attempts', a.at = session, a.state = "submitted"
               PROVE  \E p \in remaining' : SameOrder(a, p)
    BY <1>1 DEF KeptInv
  <2>1. CASE a \in attempts
    BY <1>1, <1>2, <2>1 DEF KeptInv, ProcessedAs
  <2>2. CASE a = new
    <3>1. u.state = "submitted"
      BY <1>3, <2>2
    <3>2. u \in remaining' /\ SameOrder(new, u)
      BY <1>2, <1>3, <3>1 DEF ProcessedAs, SameOrder
    <3>3. QED
      BY <2>2, <3>2
  <2>3. QED
    BY <1>4, <2>1, <2>2
<1>15. FillsInv'
  <2>1. \A p \in pending' \cup remaining' : p = u \/ (p \in Outstanding /\ ~SameOrder(p, o))
    BY <1>6 DEF Outstanding
  <2>2. \A f \in fills : ~SameOrder(f, o)
    BY <1>5 DEF FillsInv, OneFillPerOrder, Outstanding
  <2>3. \A f \in fills : ~SameOrder(f, u)
    BY <1>3, <2>2 DEF SameOrder
  <2>4. CASE fills' = fills
    <3>1. OneFillPerOrder'
      BY <1>4, <2>1, <2>3, <2>4 DEF FillsInv, OneFillPerOrder, Outstanding
    <3>2. FilledAtFirstExecutableOpen'
      BY <1>4, <2>4 DEF FillsInv, FilledAtFirstExecutableOpen
    <3>3. QED
      BY <1>1, <2>4, <3>1, <3>2 DEF FillsInv
  <2>5. CASE fills' # fills
    <3>1. PICK g \in Fill :
             /\ SameOrder(g, o) /\ g.side = o.side /\ g.at = session
             /\ g.qty <= o.qty
             /\ u.state = IF g.qty = o.qty THEN "filled" ELSE "partially_filled"
             /\ fills' = fills \cup {g}
      BY <1>2, <2>5 DEF ProcessedAs
    <3>2. remaining' = remaining /\ u \notin Outstanding'
      BY <1>2, <1>7, <2>5, <3>1 DEF ProcessedAs
    <3>3. \A p \in pending' \cup remaining' : p \in Outstanding /\ ~SameOrder(p, o)
      BY <2>1, <3>2 DEF Outstanding
    <3>4. ASSUME NEW f \in fills
          PROVE  /\ \A h \in fills' : SameOrder(f, h) => f = h
                 /\ \A p \in pending' \cup remaining' : ~SameOrder(f, p)
                 /\ \E a \in attempts' :
                       /\ SameOrder(a, f) /\ a.at = f.at /\ a.side = f.side
                       /\ f.qty <= a.qty
                       /\ a.state = IF f.qty = a.qty THEN "filled" ELSE "partially_filled"
      <4>1. ~SameOrder(f, g)
        BY <2>2, <3>1 DEF SameOrder
      <4>2. \A h \in fills' : SameOrder(f, h) => f = h
        BY <3>1, <4>1 DEF FillsInv, OneFillPerOrder
      <4>3. \A p \in pending' \cup remaining' : ~SameOrder(f, p)
        BY <3>3 DEF FillsInv, OneFillPerOrder, Outstanding
      <4>4. QED
        BY <1>4, <4>2, <4>3 DEF FillsInv, OneFillPerOrder
    <3>5. /\ \A h \in fills' : SameOrder(g, h) => g = h
          /\ \A p \in pending' \cup remaining' : ~SameOrder(g, p)
          /\ \E a \in attempts' :
                /\ SameOrder(a, g) /\ a.at = g.at /\ a.side = g.side
                /\ g.qty <= a.qty
                /\ a.state = IF g.qty = a.qty THEN "filled" ELSE "partially_filled"
      <4>1. \A h \in fills' : SameOrder(g, h) => g = h
        BY <2>2, <3>1 DEF SameOrder
      <4>2. \A p \in pending' \cup remaining' : ~SameOrder(g, p)
        BY <3>1, <3>3 DEF SameOrder
      <4>3. /\ SameOrder(new, g) /\ new.at = g.at /\ new.side = g.side
            /\ g.qty <= new.qty
            /\ new.state = IF g.qty = new.qty THEN "filled" ELSE "partially_filled"
        BY <1>3, <3>1 DEF SameOrder
      <4>4. QED
        BY <1>4, <4>1, <4>2, <4>3
    <3>6. OneFillPerOrder'
      BY <3>1, <3>4, <3>5 DEF OneFillPerOrder
    <3>7. g.created = o.created /\ g.created < g.at
      BY <1>5, <3>1 DEF SameOrder
    <3>8. ASSUME NEW s \in g.created + 1 .. g.at - 1
          PROVE  \E a \in attempts' : SameOrder(a, g) /\ a.at = s /\ a.state = "submitted"
      <4>1. s \in o.created + 1 .. LastTried(o)
        BY <1>5, <3>1, <3>7
      <4>2. PICK a \in attempts : SameOrder(a, o) /\ a.at = s /\ a.state = "submitted"
        BY <1>5, <4>1 DEF TrailInv
      <4>3. SameOrder(a, g)
        BY <3>1, <4>2 DEF SameOrder
      <4>4. QED
        BY <1>4, <4>2, <4>3
    <3>9. FilledAtFirstExecutableOpen'
      BY <1>4, <3>1, <3>7, <3>8 DEF FillsInv, FilledAtFirstExecutableOpen
    <3>10. QED
      BY <1>1, <1>5, <3>1, <3>6, <3>9 DEF FillsInv
  <2>6. QED
    BY <2>4, <2>5
<1>16. QED
  BY <1>8, <1>10, <1>13, <1>14, <1>15

LEMMA EndOpenBooks ==
    ASSUME TypeOK, PhaseInv, BooksInv, EndOpen
    PROVE  BooksInv'
<1> USE DEF BooksInv
<1>1. /\ phase \in {"actions", "orders"} /\ phase' = "marking"
      /\ pending = {} /\ pending' = remaining /\ remaining' = {}
      /\ UNCHANGED <<session, attempts, fills>>
  BY DEF EndOpen, marketVars
<1>2. Outstanding' = Outstanding
  BY <1>1 DEF Outstanding
<1>3. \A o \in Outstanding : LastTried(o) = session /\ LastTried(o)' = session
  BY <1>1 DEF Outstanding, LastTried, OpenPhases
<1>4. OutstandingInv'
  BY <1>1, <1>2 DEF OutstandingInv
<1>5. TrailInv'
  BY <1>1, <1>2, <1>3 DEF TrailInv
<1>6. AttemptsInv' /\ KeptInv'
  BY <1>1 DEF AttemptsInv, KeptInv, OpenPhases
<1>7. FillsInv'
  BY <1>1 DEF FillsInv, OneFillPerOrder, FilledAtFirstExecutableOpen
<1>8. QED
  BY <1>4, <1>5, <1>6, <1>7

LEMMA RebalanceBooks ==
    ASSUME TypeOK, PhaseInv, BooksInv, NEW w \in TargetWeights, Rebalance(w)
    PROVE  BooksInv'
<1> USE DEF BooksInv
<1> DEFINE planned == Plan(session, equity, w, acct.lots, bars)
<1>1. /\ phase = "rebalance" /\ phase' \in {"next", "done"} /\ remaining = {}
      /\ session \in 1 .. NumSessions
      /\ pending' = pending \cup planned
      /\ UNCHANGED <<session, remaining, attempts, fills>>
  BY DEF Rebalance, AfterSession, PhaseInv, OpenPhases, marketVars
<1>2. \A o \in planned :
         /\ o \in Order /\ o.created = session /\ o.state = "created"
         /\ \E i \in Instruments :
               o = PlannedOrder(i, session, equity, w[i], acct.lots[i], bars[i])
  BY <1>1, PlanType
<1>3. \A o, p \in planned : SameOrder(o, p) => o = p
  BY <1>2 DEF PlannedOrder, SameOrder
<1> HIDE DEF planned
<1>4. Outstanding = pending /\ Outstanding' = pending \cup planned
  BY <1>1 DEF Outstanding
<1>5. \A o \in Outstanding : o.created \in Int /\ o.created < session
  BY <1>1, <1>4 DEF OutstandingInv, TypeOK, Order
<1>6. \A o \in Outstanding, p \in planned : ~SameOrder(o, p) /\ ~SameOrder(p, o)
  BY <1>1, <1>2, <1>5 DEF SameOrder
<1>7. OutstandingInv'
  <2>1. \A o \in Outstanding' : o.created <= session /\ (o.created = session => o.state = "created")
    BY <1>1, <1>2, <1>4, <1>5
  <2>2. \A o, p \in Outstanding' : SameOrder(o, p) => o = p
    BY <1>3, <1>4, <1>6 DEF OutstandingInv
  <2>3. QED
    BY <1>1, <2>1, <2>2 DEF OutstandingInv
<1>8. \A o \in Outstanding' : LastTried(o)' = session
  BY <1>1 DEF LastTried, OpenPhases
<1>9. \A o \in Outstanding : LastTried(o) = session
  BY <1>1 DEF LastTried, OpenPhases
<1>10. \A a \in attempts, o \in planned : ~SameOrder(a, o)
  <2>1. \A a \in attempts : a.created \in Int /\ a.at \in Int /\ a.created < session
    BY <1>1 DEF AttemptsInv, TypeOK, Attempt
  <2>2. QED
    BY <1>1, <1>2, <2>1 DEF SameOrder
<1>11. \A o \in planned : o.created + 1 .. session = {}
  BY <1>1, <1>2
<1>12. TrailInv'
  <2> SUFFICES ASSUME NEW o \in Outstanding'
               PROVE  /\ \A s \in o.created + 1 .. session :
                            \E a \in attempts :
                               SameOrder(a, o) /\ a.at = s /\ a.state = "submitted"
                      /\ \A a \in attempts :
                            SameOrder(a, o) =>
                               /\ a.side = o.side /\ a.qty = o.qty
                               /\ a.state = "submitted"
                               /\ a.at <= session
    BY <1>1, <1>8 DEF TrailInv
  <2>1. CASE o \in planned
    BY <1>10, <1>11, <2>1
  <2>2. CASE o \in Outstanding
    BY <1>9, <2>2 DEF TrailInv
  <2>3. QED
    BY <1>4, <2>1, <2>2
<1>13. AttemptsInv' /\ KeptInv'
  BY <1>1 DEF AttemptsInv, KeptInv, OpenPhases
<1>14. \A f \in fills, o \in planned : ~SameOrder(f, o)
  <2>1. \A f \in fills : f.created \in Int /\ f.at \in Int /\ f.created < session
    BY <1>1 DEF FillsInv, FilledAtFirstExecutableOpen, TypeOK, Fill
  <2>2. QED
    BY <1>1, <1>2, <2>1 DEF SameOrder
<1>15. FillsInv'
  BY <1>1, <1>14 DEF FillsInv, OneFillPerOrder, FilledAtFirstExecutableOpen
<1>16. QED
  BY <1>7, <1>12, <1>13, <1>15

LEMMA BooksStep ==
    ASSUME TypeOK, PhaseInv, BooksInv, [Next]_vars
    PROVE  BooksInv'
<1>1. ASSUME NEW b \in [Instruments -> BarValues \cup {NoBar}], OpenSession(b)
      PROVE  BooksInv'
  BY <1>1, OpenBooks
<1>2. ASSUME NEW i \in Instruments, ActionStep(i)
      PROVE  BooksInv'
  <2>1. UNCHANGED <<session, phase, orderVars>>
    BY <1>2, ActionShape
  <2>2. QED
    BY <2>1, QuietStep
<1>3. ASSUME NEW o \in pending, OrderStep(o)
      PROVE  BooksInv'
  BY <1>3, ProcessBooks
<1>4. CASE EndOpen
  BY <1>4, EndOpenBooks
<1>5. ASSUME NEW i \in Instruments, MarkPosition(i)
      PROVE  BooksInv'
  <2>1. UNCHANGED <<session, phase, orderVars>>
    BY <1>5 DEF MarkPosition, marketVars
  <2>2. QED
    BY <2>1, QuietStep
<1>6. CASE EndClose
  <2>1. /\ UNCHANGED <<session, orderVars>>
        /\ phase = "marking" /\ phase' \in {"rebalance", "next", "done"}
    BY <1>6 DEF EndClose, AfterSession, marketVars
  <2>2. QED
    BY <2>1, QuietStep DEF OpenPhases
<1>7. ASSUME NEW w \in TargetWeights, Rebalance(w)
      PROVE  BooksInv'
  BY <1>7, RebalanceBooks
<1>8. CASE UNCHANGED vars
  <2>1. UNCHANGED <<session, phase, orderVars>>
    BY <1>8 DEF vars, orderVars
  <2>2. QED
    BY <2>1, QuietStep
<1>9. QED
  BY <1>1, <1>2, <1>3, <1>4, <1>5, <1>6, <1>7, <1>8 DEF Next, ActionStep, OrderStep

-----------------------------------------------------------------------------
(* The prices of what is held.                                             *)

LEMMA PriceStep ==
    ASSUME TypeOK, PhaseInv, PriceInv, [Next]_vars
    PROVE  PriceInv'
<1>1. ASSUME NEW b \in [Instruments -> BarValues \cup {NoBar}], OpenSession(b)
      PROVE  PriceInv'
  BY <1>1 DEF OpenSession, PriceInv, markVars
<1>2. ASSUME NEW i \in Instruments, ActionStep(i)
      PROVE  PriceInv'
  <2>1. /\ acct.lots[i].qty > 0
        /\ \A j \in Instruments \ {i} : acct'.lots[j] = acct.lots[j]
        /\ UNCHANGED <<phase, bars, lastKnown>>
    BY <1>2, ActionShape DEF markVars
  <2>2. QED
    BY <2>1 DEF PriceInv
<1>3. ASSUME NEW o \in pending, OrderStep(o)
      PROVE  PriceInv'
  <2>1. /\ phase \in {"actions", "orders"} /\ phase' \in {"orders", "failed"}
        /\ UNCHANGED <<bars, lastKnown>>
    BY <1>3, OrderShape DEF markVars
  <2>2. /\ \A j \in Instruments \ {o.inst} : acct'.lots[j] = acct.lots[j]
        /\ bars[o.inst] = NoBar => acct' = acct
    BY <1>3, OrderAccount
  <2>3. QED
    BY <2>1, <2>2 DEF PriceInv
<1>4. CASE EndOpen
  BY <1>4 DEF EndOpen, PriceInv, marketVars
<1>5. ASSUME NEW i \in Instruments, MarkPosition(i)
      PROVE  PriceInv'
  BY <1>5 DEF MarkPosition, PriceInv, marketVars
<1>6. CASE EndClose
  <2>1. \A i \in Instruments : bars[i] # NoBar => bars[i].close > NoPrice
    BY BarType DEF Bar, NoPrice
  <2>2. \A i \in Instruments : lastKnown'[i] =
           IF bars[i] = NoBar THEN lastKnown[i] ELSE bars[i].close
    BY <1>6 DEF EndClose
  <2>3. phase = "marking" /\ acct' = acct
    BY <1>6 DEF EndClose
  <2>4. QED
    BY <2>1, <2>2, <2>3 DEF PriceInv
<1>7. ASSUME NEW w \in TargetWeights, Rebalance(w)
      PROVE  PriceInv'
  BY <1>7 DEF Rebalance, PriceInv, markVars, marketVars
<1>8. CASE UNCHANGED vars
  BY <1>8 DEF vars, PriceInv
<1>9. QED
  BY <1>1, <1>2, <1>3, <1>4, <1>5, <1>6, <1>7, <1>8 DEF Next, ActionStep, OrderStep

-----------------------------------------------------------------------------
(* Sales that can be delivered.                                            *)

(* A sale that an open has handed back was carried over.                   *)
LEMMA TriedSale ==
    ASSUME TypeOK, TrailInv, NEW o \in Outstanding, NEW p,
           o.side = "sell", p.inst = o.inst, o.created < LastTried(o)
    PROVE  SaleCarriedOver(p)
<1>1. o.created \in Int /\ LastTried(o) \in Int
  BY DEF TypeOK, Outstanding, Order, LastTried
<1>2. LastTried(o) \in o.created + 1 .. LastTried(o)
  BY <1>1
<1>3. PICK a \in attempts : SameOrder(a, o) /\ a.state = "submitted"
  BY <1>2 DEF TrailInv
<1>4. a.side = "sell"
  BY <1>3 DEF TrailInv
<1>5. QED
  BY <1>3, <1>4 DEF SaleCarriedOver, SameOrder

LEMMA SalesStep ==
    ASSUME TypeOK, PhaseInv, BooksInv, SalesInv, [Next]_vars
    PROVE  SalesInv'
<1>1. ASSUME NEW b \in [Instruments -> BarValues \cup {NoBar}], OpenSession(b)
      PROVE  SalesInv'
  BY <1>1 DEF OpenSession, SalesInv, FailsOnlyOnStaleSale, ActionSincePlanned,
              SaleCarriedOver, orderVars
<1>2. ASSUME NEW i \in Instruments, ActionStep(i)
      PROVE  SalesInv'
  <2>1. /\ phase = "actions"
        /\ \A j \in Instruments \ {i} : acct'.lots[j] = acct.lots[j]
        /\ UNCHANGED <<pending, attempts, error>>
    BY <1>2, ActionShape DEF orderVars
  <2>2. PICK x \in Action :
           x.inst = i /\ x.at = session /\ actionLog' = actionLog \cup {x}
    BY <1>2, ActionShape
  <2>3. error' = NoError
    BY <2>1 DEF PhaseInv
  <2>4. ASSUME NEW o \in pending, o.side = "sell"
        PROVE  \/ o.qty <= acct'.lots[o.inst].qty
               \/ ActionSincePlanned(o)'
               \/ SaleCarriedOver(o)'
    <3>1. CASE o.inst = i
      <4>1. o.created < session
        BY <2>1 DEF BooksInv, OutstandingInv, Outstanding
      <4>2. QED
        BY <2>2, <3>1, <4>1 DEF ActionSincePlanned
    <3>2. CASE o.inst # i
      <4>1. o.inst \in Instruments
        BY DEF TypeOK, Order
      <4>2. QED
        BY <2>1, <2>2, <2>4, <3>2, <4>1
           DEF SalesInv, ActionSincePlanned, SaleCarriedOver
    <3>3. QED
      BY <3>1, <3>2
  <2>5. QED
    BY <2>1, <2>3, <2>4 DEF SalesInv, FailsOnlyOnStaleSale
<1>3. ASSUME NEW o \in pending, OrderStep(o)
      PROVE  SalesInv'
  <2>1. /\ phase \in {"actions", "orders"} /\ pending' = pending \ {o}
        /\ attempts \subseteq attempts'
        /\ UNCHANGED <<session, actionLog>>
    BY <1>3, OrderShape DEF ProcessedAs
  <2>2. error = NoError
    BY <2>1 DEF PhaseInv
  <2>3. \A p : /\ ActionSincePlanned(p) => ActionSincePlanned(p)'
               /\ SaleCarriedOver(p) => SaleCarriedOver(p)'
    BY <2>1 DEF ActionSincePlanned, SaleCarriedOver
  <2>4. ASSUME NEW p \in pending', p.side = "sell"
        PROVE  \/ p.qty <= acct'.lots[p.inst].qty
               \/ ActionSincePlanned(p)'
               \/ SaleCarriedOver(p)'
    <3>1. p \in pending /\ p # o /\ p.inst \in Instruments /\ o.inst \in Instruments
      BY <2>1 DEF TypeOK, Order
    <3>2. /\ p.qty \in Int /\ acct.lots[p.inst].qty \in Int
          /\ acct'.lots[p.inst].qty \in Int
      BY <1>3, <3>1, OrderAccount DEF TypeOK, Order, Account, Lot
    <3>3. CASE acct'.lots[p.inst].qty >= acct.lots[p.inst].qty
      BY <2>3, <2>4, <3>1, <3>2, <3>3 DEF SalesInv
    <3>4. CASE acct'.lots[p.inst].qty < acct.lots[p.inst].qty
      <4>1. p.inst = o.inst
        BY <1>3, <3>1, <3>2, <3>4, OrderAccount
      <4>2. o.side = "sell"
        <5>1. o.side # "buy"
          BY <1>3, <3>2, <3>4, <4>1, OrderAccount
        <5>2. QED
          BY <5>1 DEF TypeOK, Order, OrderSide
      <4>3. /\ p \in Outstanding /\ o \in Outstanding
            /\ p.created < session /\ o.created < session
            /\ p.created \in Int /\ o.created \in Int /\ session \in Int
        BY <2>1, <3>1 DEF BooksInv, OutstandingInv, Outstanding, TypeOK, Order
      <4>4. LastTried(p) = session - 1 /\ LastTried(o) = session - 1
        BY <2>1, <3>1 DEF LastTried, OpenPhases
      <4>5. p.created # o.created
        BY <3>1, <4>1, <4>3 DEF BooksInv, OutstandingInv, SameOrder
      <4>6. p.created < LastTried(p) \/ o.created < LastTried(o)
        BY <4>3, <4>4, <4>5
      <4>7. SaleCarriedOver(p)
        BY <2>4, <4>1, <4>2, <4>3, <4>6, TriedSale DEF BooksInv
      <4>8. QED
        BY <2>3, <4>7
    <3>5. QED
      BY <3>2, <3>3, <3>4
  <2>5. FailsOnlyOnStaleSale'
    <3>1. CASE error' = error
      BY <2>2, <3>1 DEF FailsOnlyOnStaleSale
    <3>2. CASE error' = o /\ o.side = "sell" /\ o.qty > acct.lots[o.inst].qty
      <4>1. o.qty \in Int /\ acct.lots[o.inst].qty \in Int
        BY DEF TypeOK, Order, Account, Lot
      <4>2. ActionSincePlanned(o) \/ SaleCarriedOver(o)
        BY <3>2, <4>1 DEF SalesInv
      <4>3. ActionSincePlanned(o)' \/ SaleCarriedOver(o)'
        BY <2>3, <4>2
      <4>4. QED
        BY <3>2, <4>3 DEF FailsOnlyOnStaleSale, ActionSincePlanned, SaleCarriedOver
    <3>3. QED
      BY <1>3, <3>1, <3>2, OrderAccount
  <2>6. QED
    BY <2>4, <2>5 DEF SalesInv
<1>4. CASE EndOpen
  <2>1. /\ phase \in {"actions", "orders"} /\ pending = {} /\ pending' = remaining
        /\ UNCHANGED <<session, attempts, actionLog, error>>
    BY <1>4 DEF EndOpen, marketVars
  <2>2. error' = NoError
    BY <2>1 DEF PhaseInv
  <2>3. ASSUME NEW o \in remaining, o.side = "sell"
        PROVE  SaleCarriedOver(o)'
    <3>1. o \in Outstanding /\ o.created < session /\ LastTried(o) = session
      BY <2>1 DEF BooksInv, OutstandingInv, Outstanding, LastTried
    <3>2. SaleCarriedOver(o)
      BY <2>3, <3>1, TriedSale DEF BooksInv
    <3>3. QED
      BY <2>1, <3>2 DEF SaleCarriedOver
  <2>4. QED
    BY <2>1, <2>2, <2>3 DEF SalesInv, FailsOnlyOnStaleSale
<1>5. ASSUME NEW i \in Instruments, MarkPosition(i)
      PROVE  SalesInv'
  BY <1>5 DEF MarkPosition, SalesInv, FailsOnlyOnStaleSale, ActionSincePlanned,
              SaleCarriedOver, marketVars, orderVars
<1>6. CASE EndClose
  BY <1>6 DEF EndClose, SalesInv, FailsOnlyOnStaleSale, ActionSincePlanned,
              SaleCarriedOver, marketVars, orderVars
<1>7. ASSUME NEW w \in TargetWeights, Rebalance(w)
      PROVE  SalesInv'
  <2>1. /\ phase = "rebalance" /\ session \in 1 .. NumSessions
        /\ pending' = pending \cup Plan(session, equity, w, acct.lots, bars)
        /\ UNCHANGED <<session, attempts, actionLog, acct, error>>
    BY <1>7 DEF Rebalance, PhaseInv, marketVars
  <2>2. \A o \in Plan(session, equity, w, acct.lots, bars) :
           o.side = "sell" => o.qty <= acct.lots[o.inst].qty
    BY <2>1, PlanType
  <2>3. QED
    BY <2>1, <2>2 DEF SalesInv, FailsOnlyOnStaleSale, ActionSincePlanned, SaleCarriedOver
<1>8. CASE UNCHANGED vars
  BY <1>8 DEF vars, SalesInv, FailsOnlyOnStaleSale, ActionSincePlanned, SaleCarriedOver
<1>9. QED
  BY <1>1, <1>2, <1>3, <1>4, <1>5, <1>6, <1>7, <1>8 DEF Next, ActionStep, OrderStep

-----------------------------------------------------------------------------
(* The inductive invariant and what follows from it.                       *)

(* The inductive invariant holds in every reachable state.                 *)
THEOREM Invariance == Spec => []IInv
<1>1. Init => IInv
  BY InitInv
<1>2. IInv /\ [Next]_vars => IInv'
  <2> SUFFICES ASSUME IInv, [Next]_vars PROVE IInv'
    OBVIOUS
  <2>1. TypeOK /\ PhaseInv /\ BooksInv /\ PriceInv /\ SalesInv
    BY DEF IInv, BooksInv
  <2>2. TypeOK' /\ PhaseInv'
    BY <2>1, TypeStep
  <2>3. BooksInv'
    BY <2>1, BooksStep
  <2>4. PriceInv' /\ SalesInv'
    BY <2>1, PriceStep, SalesStep
  <2>5. QED
    BY <2>2, <2>3, <2>4 DEF IInv, BooksInv
<1>3. QED
  BY <1>1, <1>2, PTL DEF Spec

(* No order is filled twice, over any interleaving of carry-over and       *)
(* re-planning, in any market.  (engine.py: pending_orders, all_fills)     *)
THEOREM FilledOnce == Spec => []OneFillPerOrder
<1>1. IInv => OneFillPerOrder
  BY DEF IInv, FillsInv
<1>2. QED
  BY <1>1, Invariance, PTL

(* No order is filled at or before the close it was planned at, and none   *)
(* is filled late without having been handed back at each open between.    *)
(* (engine.py, clock.py: next-executable-open semantics)                   *)
THEOREM NoLookAhead == Spec => []FilledAtFirstExecutableOpen
<1>1. IInv => FilledAtFirstExecutableOpen
  BY DEF IInv, FillsInv
<1>2. QED
  BY <1>1, Invariance, PTL

(* Every order's attempts are a path of the life cycle, and the pending    *)
(* orders are those the last open handed back and the newly planned ones.  *)
(* (engine.py: all_orders, remaining_pending; domain/orders.py)            *)
THEOREM LifeCycle == Spec => []AttemptsFollowLifeCycle
<1>1. IInv => AttemptsFollowLifeCycle
  <2> SUFFICES ASSUME IInv PROVE AttemptsFollowLifeCycle
    OBVIOUS
  <2> USE DEF IInv
  <2>1. ASSUME NEW a \in attempts, NEW b \in attempts, SameOrder(a, b)
        PROVE  /\ a.side = b.side /\ a.qty = b.qty
               /\ a.at < b.at =>
                     /\ a.state = "submitted"
                     /\ b.state \in {"submitted"} \cup OrderStateTransitions["submitted"]
               /\ a.at = b.at => a = b
    BY <2>1 DEF AttemptsInv
  <2>2. ASSUME NEW o \in pending, phase \in {"marking", "rebalance", "next", "done"}
        PROVE  IF o.created = session
               THEN o.state = "created" /\ \A a \in attempts : ~SameOrder(a, o)
               ELSE \E a \in attempts :
                       SameOrder(a, o) /\ a.at = session /\ a.state = "submitted"
    <3>1. /\ o \in Outstanding /\ LastTried(o) = session
          /\ o.created \in Int /\ session \in Int /\ o.created <= session
      BY <2>2 DEF Outstanding, LastTried, OpenPhases, OutstandingInv, TypeOK, Order
    <3>2. CASE o.created = session
      <4>1. \A a \in attempts : SameOrder(a, o) => a.at <= session /\ a.created < a.at
        BY <3>1 DEF TrailInv, AttemptsInv
      <4>2. \A a \in attempts : a.at \in Int
        BY DEF TypeOK, Attempt
      <4>3. \A a \in attempts : ~SameOrder(a, o)
        BY <3>1, <3>2, <4>1, <4>2 DEF SameOrder
      <4>4. QED
        BY <3>1, <3>2, <4>3 DEF OutstandingInv
    <3>3. CASE o.created # session
      <4>1. session \in o.created + 1 .. LastTried(o)
        BY <3>1, <3>3
      <4>2. QED
        BY <3>1, <3>3, <4>1 DEF TrailInv
    <3>4. QED
      BY <3>2, <3>3
  <2>3. ASSUME NEW a \in attempts, phase \in {"marking", "rebalance", "next", "done"},
               a.at = session, a.state = "submitted"
        PROVE  \E o \in pending : SameOrder(a, o)
    BY <2>3 DEF KeptInv, OpenPhases
  <2>4. QED
    BY <2>1, <2>2, <2>3 DEF AttemptsFollowLifeCycle
<1>2. QED
  BY <1>1, Invariance, PTL

(* A position is never marked at its cost: whatever is held was observed.  *)
(* (marking.py; engine.py: last_known_prices)                              *)
THEOREM AlwaysPriced == Spec => []NeverMarkedAtCost
<1>1. IInv => NeverMarkedAtCost
  <2> SUFFICES ASSUME IInv, phase = "marking", NEW i \in unmarked,
                      acct.lots[i].qty > 0
               PROVE  CloseOf(i) > NoPrice \/ lastKnown[i] > NoPrice
    BY DEF NeverMarkedAtCost
  <2>1. TypeOK /\ i \in Instruments
    BY DEF IInv, TypeOK
  <2>2. CASE bars[i] # NoBar
    BY <2>1, <2>2, BarType DEF CloseOf, Bar, NoPrice
  <2>3. CASE bars[i] = NoBar
    BY <2>1, <2>3 DEF IInv, PriceInv
  <2>4. QED
    BY <2>2, <2>3
<1>2. QED
  BY <1>1, Invariance, PTL

(* A run breaks on a sale only after a corporate action or a carried-over  *)
(* sale made the planned quantity stale.  (ledger.py: apply_sell)          *)
THEOREM FailureExplained == Spec => []FailsOnlyOnStaleSale
<1>1. IInv => FailsOnlyOnStaleSale
  BY DEF IInv, SalesInv
<1>2. QED
  BY <1>1, Invariance, PTL

-----------------------------------------------------------------------------
(* Markets without corporate actions in which no order is deferred.        *)

LiquidMarket == MaxActions = 0 /\ \A b \in BarValues : ~IsDeferred(b)

NothingGoesStale == actionLog = {} /\ \A a \in attempts : a.state # "submitted"

(* In such a market no attempt leaves an order submitted.                  *)
LEMMA LiquidStep ==
    ASSUME LiquidMarket, IInv, NothingGoesStale, [Next]_vars
    PROVE  NothingGoesStale'
<1> USE DEF NothingGoesStale
<1>1. bars \in [Instruments -> BarValues \cup {NoBar}] /\ pending \subseteq Order
  BY DEF IInv, TypeOK
<1>2. ASSUME NEW o \in pending, RejectOrder(o) PROVE NothingGoesStale'
  <2>1. Rejected(o).state = "rejected"
    BY <1>1 DEF Rejected, Active, Order
  <2> QED
    BY <1>2, <2>1 DEF RejectOrder, Process, AttemptOf, marketVars
<1>3. ASSUME NEW o \in pending, DeferOrder(o) PROVE FALSE
  <2>1. o.inst \in Instruments
    BY <1>1 DEF Order
  <2> QED
    BY <1>1, <1>3, <2>1 DEF DeferOrder, IsDeferred, LiquidMarket
<1>4. ASSUME NEW o \in pending, FillBuy(o) \/ FillSell(o) \/ OversellRaises(o)
      PROVE  NothingGoesStale'
  <2>1. Filled(o, bars[o.inst]).state \in {"filled", "partially_filled"}
    BY <1>1 DEF Filled, Active, Order
  <2>2. Process(o, Filled(o, bars[o.inst])) /\ UNCHANGED actionLog
    BY <1>4 DEF FillBuy, FillSell, FillOrder, OversellRaises, marketVars
  <2> QED
    BY <2>1, <2>2 DEF Process, AttemptOf
<1>5. ASSUME NEW type, NEW i, NEW newAcct, ApplyAction(type, i, newAcct) PROVE FALSE
  <2>1. Cardinality(actionLog) < 0
    BY <1>5 DEF ApplyAction, LiquidMarket
  <2>2. Cardinality({}) = 0
    BY FS_EmptySet
  <2> QED
    BY <2>1, <2>2
<1>6. ASSUME UNCHANGED <<actionLog, attempts>> PROVE NothingGoesStale'
  BY <1>6
<1>7. ASSUME NEW i \in Instruments,
             \/ \E ratio \in SplitRatios : Split(i, ratio)
             \/ \E amount \in DividendAmounts : Dividend(i, amount)
             \/ \E price \in DelistingAmounts : Delisting(i, price)
      PROVE  FALSE
  BY <1>5, <1>7 DEF Split, Dividend, Delisting
<1> QED
  BY <1>2, <1>3, <1>4, <1>6, <1>7
     DEF Next, OpenSession, MarkPosition, EndOpen, EndClose, Rebalance, marketVars, orderVars, vars

(* Where no corporate action happens and every bar that trades trades      *)
(* enough to fill some of an order, no sale asks for more than is held, so *)
(* no run breaks.  (orders.py: plan; ledger.py: apply_sell)                *)
THEOREM LiquidRunsDoNotBreak == ASSUME LiquidMarket PROVE Spec => []NoOversell
<1>1. Init => NothingGoesStale
  BY DEF Init, NothingGoesStale
<1>2. IInv /\ NothingGoesStale /\ [Next]_vars => NothingGoesStale'
  BY LiquidStep
<1>3. IInv /\ NothingGoesStale => NoOversell
  BY DEF IInv, SalesInv, FailsOnlyOnStaleSale, NothingGoesStale, NoOversell,
         ActionSincePlanned, SaleCarriedOver
<1> QED
  BY <1>1, <1>2, <1>3, Invariance, PTL DEF Spec

-----------------------------------------------------------------------------
(* Sums over finite sets, by the least counterexample.                     *)

(* A set of naturals that is not empty has a least element.               *)
LEMMA LeastNat ==
    ASSUME NEW B, B \subseteq Nat, B # {}
    PROVE  \E n \in B : \A m \in B : ~(m < n)
<1>1. PICK n \in B : \A m \in B : ~(<<m, n>> \in OpToRel(<, Nat))
  BY WFMin, NatLessThanWellFounded
<1> QED
  BY <1>1 DEF OpToRel

(* What holds of a finite set as soon as it holds of the set without any   *)
(* one of its elements holds of all its subsets.  G is what it holds of.   *)
LEMMA BySubsets ==
    ASSUME NEW S, IsFiniteSet(S), NEW G,
           \A T \in SUBSET S : (\A x \in T : T \ {x} \in G) => T \in G
    PROVE  \A T \in SUBSET S : T \in G
<1> DEFINE B == {n \in Nat : \E T \in SUBSET S : T \notin G /\ Cardinality(T) = n}
<1>1. B = {}
  <2> SUFFICES ASSUME B # {} PROVE FALSE
    OBVIOUS
  <2>1. PICK n \in B : \A m \in B : ~(m < n)
    <3>1. B \subseteq Nat
      OBVIOUS
    <3> HIDE DEF B
    <3> QED
      BY <3>1, LeastNat
  <2>2. PICK T \in SUBSET S : T \notin G /\ Cardinality(T) = n
    OBVIOUS
  <2>3. PICK x \in T : T \ {x} \notin G
    BY <2>2
  <2>4. IsFiniteSet(T)
    BY FS_Subset
  <2>5. /\ Cardinality(T \ {x}) = n - 1 /\ Cardinality(T \ {x}) \in Nat
        /\ T \ {x} \in SUBSET S
    BY <2>2, <2>4, FS_RemoveElement, FS_CardinalityType
  <2>6. n - 1 \in B /\ n - 1 < n
    BY <2>3, <2>5
  <2> HIDE DEF B
  <2> QED
    BY <2>1, <2>6
<1>2. \A T \in SUBSET S : Cardinality(T) \in Nat
  BY FS_Subset, FS_CardinalityType
<1> QED
  BY <1>1, <1>2

(* What holds of 0 and of the successor of all it holds of, holds of all   *)
(* naturals.                                                               *)
LEMMA BySteps ==
    ASSUME NEW G, 0 \in G, \A n \in Nat : n \in G => n + 1 \in G
    PROVE  \A n \in Nat : n \in G
<1> SUFFICES ASSUME Nat \ G # {} PROVE FALSE
  OBVIOUS
<1>1. PICK n \in Nat \ G : \A m \in Nat \ G : ~(m < n)
  <2>1. Nat \ G \subseteq Nat
    OBVIOUS
  <2> QED
    BY <2>1, LeastNat
<1>2. n - 1 \in Nat /\ n - 1 < n /\ (n - 1) + 1 = n
  BY <1>1
<1>3. n - 1 \in G
  BY <1>1, <1>2
<1> QED
  BY <1>1, <1>2, <1>3

(* The function behind a sum: of each set, the element taken with what the *)
(* rest comes to.                                                          *)
Some(T) == CHOOSE x \in T : TRUE
SumStep(f, g, T) == IF T = {} THEN 0 ELSE f[Some(T)] + g[T \ {Some(T)}]
Sums(f, S) == CHOOSE g : g = [T \in SUBSET S |-> SumStep(f, g, T)]
IsSums(f, S, g) == g = [T \in SUBSET S |-> SumStep(f, g, T)]

LEMMA SomeIsIn == ASSUME NEW T, T # {} PROVE Some(T) \in T
BY DEF Some

(* There is such a function for the subsets of a finite set.               *)
LEMMA SumsExist ==
    ASSUME NEW S, IsFiniteSet(S)
    PROVE  \A f : \E g : IsSums(f, S, g)
<1> TAKE f
<1> DEFINE Upto(n, g) ==
               \A T \in SUBSET S : Cardinality(T) < n => g[T] = SumStep(f, g, T)
           Has(n) == \E g : g = [T \in SUBSET S |-> g[T]] /\ Upto(n, g)
           G == {n \in Nat : Has(n)}
<1>1. \A T \in SUBSET S : Cardinality(T) \in Nat
  BY FS_Subset, FS_CardinalityType
<1>2. ASSUME NEW n \in Nat, Has(n) PROVE Has(n + 1)
  <2>1. PICK g : g = [T \in SUBSET S |-> g[T]] /\ Upto(n, g)
    BY <1>2
  <2> DEFINE h == [T \in SUBSET S |-> IF Cardinality(T) = n THEN SumStep(f, g, T)
                                     ELSE g[T]]
  <2>2. ASSUME NEW T \in SUBSET S, Cardinality(T) < n + 1 PROVE h[T] = SumStep(f, h, T)
    <3>1. h[T] = SumStep(f, g, T)
      <4>1. CASE Cardinality(T) = n
        BY <4>1
      <4>2. CASE Cardinality(T) < n
        <5>1. g[T] = SumStep(f, g, T)
          BY <2>1, <4>2
        <5>2. h[T] = g[T]
          BY <1>1, <4>2
        <5> QED
          BY <5>1, <5>2
      <4> QED
        BY <1>1, <2>2, <4>1, <4>2
    <3>2. CASE T = {}
      BY <3>1, <3>2 DEF SumStep
    <3>3. CASE T # {}
      <4> DEFINE U == T \ {Some(T)}
      <4>1. Some(T) \in T /\ IsFiniteSet(T)
        BY <3>3, SomeIsIn, FS_Subset
      <4>2. Cardinality(U) = Cardinality(T) - 1 /\ U \in SUBSET S
        BY <4>1, FS_RemoveElement
      <4>3. h[U] = g[U]
        BY <1>1, <2>2, <4>2
      <4> QED
        BY <3>1, <3>3, <4>3 DEF SumStep
    <3> QED
      BY <3>2, <3>3
  <2>3. h = [T \in SUBSET S |-> h[T]]
    OBVIOUS
  <2> HIDE DEF h
  <2> QED
    BY <2>2, <2>3
<1>3. Has(0)
  <2> DEFINE z == [T \in SUBSET S |-> 0]
  <2>1. z = [T \in SUBSET S |-> z[T]]
    OBVIOUS
  <2>2. Upto(0, z)
    BY <1>1
  <2> HIDE DEF z, Upto
  <2> QED
    BY <2>1, <2>2
<1>4. \A n \in Nat : n \in G
  <2>1. 0 \in G /\ \A n \in Nat : n \in G => n + 1 \in G
    <3> HIDE DEF Has
    <3> QED
      BY <1>2, <1>3
  <2> HIDE DEF G
  <2> QED
    BY <2>1, BySteps
<1>5. Cardinality(S) + 1 \in Nat
  BY FS_CardinalityType
<1>6. PICK g : g = [T \in SUBSET S |-> g[T]] /\ Upto(Cardinality(S) + 1, g)
  <2> HIDE DEF Upto
  <2> QED
    BY <1>4, <1>5
<1>7. ASSUME NEW T \in SUBSET S PROVE g[T] = SumStep(f, g, T)
  <2>1. IsFiniteSet(T) /\ Cardinality(T) <= Cardinality(S)
    BY FS_Subset
  <2>2. Cardinality(T) < Cardinality(S) + 1
    BY <2>1, FS_CardinalityType
  <2> QED
    BY <1>6, <2>2
<1> QED
  BY <1>6, <1>7 DEF IsSums

(* It is integer if what is summed up is.                                  *)
LEMMA SumsAreInts ==
    ASSUME NEW S, IsFiniteSet(S), NEW f, \A x \in S : f[x] \in Int, NEW g, IsSums(f, S, g)
    PROVE  \A T \in SUBSET S : g[T] = SumStep(f, g, T) /\ g[T] \in Int
<1> DEFINE G == {T \in SUBSET S : g[T] \in Int}
<1>1. \A T \in SUBSET S : g[T] = SumStep(f, g, T)
  BY DEF IsSums
<1>2. ASSUME NEW T \in SUBSET S, \A x \in T : T \ {x} \in G PROVE T \in G
  <2>1. CASE T = {}
    <3>1. g[T] = 0
      BY <1>1, <2>1 DEF SumStep
    <3> QED
      BY <3>1
  <2>2. CASE T # {}
    <3>1. Some(T) \in T /\ g[T \ {Some(T)}] \in Int
      BY <1>2, <2>2, SomeIsIn
    <3>2. g[T] = f[Some(T)] + g[T \ {Some(T)}]
      BY <1>1, <2>2 DEF SumStep
    <3> QED
      BY <3>1, <3>2
  <2> QED
    BY <2>1, <2>2
<1>3. \A T \in SUBSET S : T \in G
  <2> HIDE DEF G
  <2> QED
    BY <1>2, BySubsets
<1> QED
  BY <1>1, <1>3

(* It is the one that Total evaluates.                                     *)
LEMMA TotalIsSums ==
    ASSUME NEW S, IsFiniteSet(S), NEW f, \A x \in S : f[x] \in Int
    PROVE  \E g : IsSums(f, S, g) /\ Total(f, S) = g[S]
<1>1. Total(f, S) = Sums(f, S)[S]
  BY DEF Total, MapThenSumSet, MapThenFoldSet, Sums, SumStep, Some
<1>2. IsSums(f, S, Sums(f, S))
  BY SumsExist DEF Sums, IsSums
<1> QED
  BY <1>1, <1>2

(* Those of a set and of a subset of it agree on the subset.               *)
LEMMA SumsAgree ==
    ASSUME NEW S, IsFiniteSet(S), NEW f, NEW T \in SUBSET S,
           NEW g, IsSums(f, S, g), NEW h, IsSums(f, T, h)
    PROVE  h[T] = g[T]
<1> DEFINE G == {U \in SUBSET T : h[U] = g[U]}
<1>1. /\ \A U \in SUBSET S : g[U] = SumStep(f, g, U)
      /\ \A U \in SUBSET T : h[U] = SumStep(f, h, U)
  BY DEF IsSums
<1>2. ASSUME NEW U \in SUBSET T, \A x \in U : U \ {x} \in G PROVE U \in G
  <2>1. CASE U = {}
    BY <1>1, <2>1 DEF SumStep
  <2>2. CASE U # {}
    <3>1. h[U \ {Some(U)}] = g[U \ {Some(U)}]
      BY <1>2, <2>2, SomeIsIn
    <3> QED
      BY <1>1, <2>2, <3>1 DEF SumStep
  <2> QED
    BY <2>1, <2>2
<1>3. IsFiniteSet(T)
  BY FS_Subset
<1>4. \A U \in SUBSET T : U \in G
  <2> HIDE DEF G
  <2> QED
    BY <1>2, <1>3, BySubsets
<1> QED
  BY <1>4

(* A sum is an integer; it is that of the rest and any one element.        *)
LEMMA TotalFacts ==
    ASSUME NEW S, IsFiniteSet(S), NEW f, \A x \in S : f[x] \in Int
    PROVE  /\ Total(f, S) \in Int
           /\ S = {} => Total(f, S) = 0
           /\ \A x \in S : Total(f, S) = f[x] + Total(f, S \ {x})
<1>1. PICK g : IsSums(f, S, g) /\ Total(f, S) = g[S]
  BY TotalIsSums
<1>2. \A T \in SUBSET S : g[T] = SumStep(f, g, T) /\ g[T] \in Int
  BY <1>1, SumsAreInts
<1>3. \A T \in SUBSET S : Total(f, T) = g[T]
  <2> SUFFICES ASSUME NEW T \in SUBSET S PROVE Total(f, T) = g[T]
    OBVIOUS
  <2>1. PICK h : IsSums(f, T, h) /\ Total(f, T) = h[T]
    BY FS_Subset, TotalIsSums
  <2> QED
    BY <1>1, <2>1, SumsAgree
<1> DEFINE G == {T \in SUBSET S : \A x \in T : g[T] = f[x] + g[T \ {x}]}
<1>4. ASSUME NEW T \in SUBSET S, \A x \in T : T \ {x} \in G PROVE T \in G
  <2> SUFFICES ASSUME NEW x \in T PROVE g[T] = f[x] + g[T \ {x}]
    OBVIOUS
  <2> DEFINE y == Some(T)
  <2>1. y \in T /\ g[T] = f[y] + g[T \ {y}]
    BY <1>2, SomeIsIn DEF SumStep
  <2>2. CASE x = y
    BY <2>1, <2>2
  <2>3. CASE x # y
    <3>1. g[T \ {y}] = f[x] + g[(T \ {y}) \ {x}]
      BY <1>4, <2>1, <2>3
    <3>2. g[T \ {x}] = f[y] + g[(T \ {x}) \ {y}]
      BY <1>4, <2>1, <2>3
    <3>3. (T \ {x}) \ {y} = (T \ {y}) \ {x}
      OBVIOUS
    <3>4. /\ f[x] \in Int /\ f[y] \in Int
          /\ g[(T \ {x}) \ {y}] \in Int
      BY <1>2, <2>1
    <3> DEFINE r == g[(T \ {x}) \ {y}]
    <3> HIDE DEF y, G
    <3>5. g[T \ {y}] = f[x] + r
      BY <3>1, <3>3
    <3>6. r \in Int /\ g[T \ {x}] = f[y] + r
      BY <3>2, <3>4
    <3> HIDE DEF r
    <3>7. f[y] + (f[x] + r) = f[x] + (f[y] + r)
      BY <3>4, <3>6
    <3> QED
      BY <2>1, <3>5, <3>6, <3>7
  <2> QED
    BY <2>2, <2>3
<1>5. \A T \in SUBSET S : T \in G
  <2> HIDE DEF G
  <2> QED
    BY <1>4, BySubsets
<1>6. \A x \in S : g[S] = f[x] + g[S \ {x}]
  BY <1>5
<1>7. S = {} => g[S] = 0
  BY <1>2 DEF SumStep
<1> QED
  BY <1>2, <1>3, <1>6, <1>7

(* Two functions that agree have one sum.                                  *)
LEMMA TotalCongruence ==
    ASSUME NEW S, IsFiniteSet(S), NEW f, NEW g, \A x \in S : f[x] \in Int /\ f[x] = g[x]
    PROVE  Total(f, S) = Total(g, S)
<1> DEFINE G == {T \in SUBSET S : Total(f, T) = Total(g, T)}
<1>1. ASSUME NEW T \in SUBSET S, \A x \in T : T \ {x} \in G PROVE T \in G
  <2>1. /\ IsFiniteSet(T) /\ \A x \in T : f[x] \in Int
        /\ \A x \in T : g[x] \in Int
    BY FS_Subset
  <2>2. /\ T = {} => Total(f, T) = 0
        /\ \A x \in T : Total(f, T) = f[x] + Total(f, T \ {x})
    BY <2>1, TotalFacts
  <2>3. /\ T = {} => Total(g, T) = 0
        /\ \A x \in T : Total(g, T) = g[x] + Total(g, T \ {x})
    BY <2>1, TotalFacts
  <2>4. CASE T = {}
    BY <2>2, <2>3, <2>4
  <2>5. CASE T # {}
    <3>1. PICK x \in T : Total(f, T \ {x}) = Total(g, T \ {x})
      BY <1>1, <2>5
    <3> QED
      BY <2>2, <2>3, <3>1
  <2> QED
    BY <2>4, <2>5
<1>2. \A T \in SUBSET S : T \in G
  <2> HIDE DEF G
  <2> QED
    BY <1>1, BySubsets
<1> QED
  BY <1>2

-----------------------------------------------------------------------------
(* Double entry.                                                           *)

(* Rounding misses by half a unit at the most.                             *)
LEMMA RoundingError ==
    ASSUME NEW n \in Int, NEW d \in Nat \ {0}
    PROVE  \E e \in Int : d * RoundHalfEven(n, d) = n + e /\ 2 * e <= d /\ -d <= 2 * e
<1> DEFINE q == n \div d
           m == n % d
           r == RoundHalfEven(n, d)
<1>1. q \in Int /\ m \in 0 .. d - 1 /\ n = d * q + m
  OBVIOUS
<1>2. r = IF 2 * m < d \/ (2 * m = d /\ q % 2 = 0) THEN q ELSE q + 1
  BY DEF RoundHalfEven
<1> HIDE DEF q, m, r
<1>3. d * q \in Int /\ d * (q + 1) = d * q + d
  BY <1>1
<1>4. CASE r = q /\ 2 * m <= d
  <2>1. d * r = n + (-m) /\ -m \in Int
    BY <1>1, <1>3, <1>4
  <2> QED
    BY <1>1, <1>4, <2>1 DEF r
<1>5. CASE r = q + 1 /\ 2 * m >= d
  <2>1. d * r = n + (d - m) /\ d - m \in Int /\ 2 * (d - m) <= d /\ -d <= 2 * (d - m)
    BY <1>1, <1>3, <1>5
  <2> QED
    BY <2>1 DEF r
<1>6. 2 * m < d \/ 2 * m = d \/ 2 * m > d
  BY <1>1
<1> QED
  BY <1>1, <1>2, <1>4, <1>5, <1>6

(* So does the conversion of a product to cash ticks.                      *)
LEMMA CashError ==
    ASSUME NEW x \in Int
    PROVE  \E e \in Int : Scale * Cash(x) = x + e /\ 2 * e <= Scale /\ -Scale <= 2 * e
BY ScaleType, RoundingError DEF Cash

(* What a lot contributes to the book value, and to the rounding of a step.*)
Worth(lot) == lot.qty * lot.cost
Slack(old, new) == IF old = new THEN 0 ELSE new.qty + new.cost + 2

(* The books of two accounts that differ in one lot differ by its worth.   *)
LEMMA BooksDiffer ==
    ASSUME NEW a \in Account, NEW b \in Account, NEW i \in Instruments,
           \A j \in Instruments \ {i} : b.lots[j] = a.lots[j]
    PROVE  /\ BookValue(a) \in Int /\ BookValue(b) \in Int
           /\ BookValue(b) - BookValue(a) = Worth(b.lots[i]) - Worth(a.lots[i])
           /\ RoundingOf(a, b) = 2 * Scale + Slack(a.lots[i], b.lots[i])
<1> DEFINE v == [j \in Instruments |-> a.lots[j].qty * a.lots[j].cost]
           w == [j \in Instruments |-> b.lots[j].qty * b.lots[j].cost]
           f == [j \in Instruments |-> b.lots[j].qty + b.lots[j].cost + 2]
           changed == {j \in Instruments : a.lots[j] # b.lots[j]}
<1>1. IsFiniteSet(Instruments)
  BY InstrumentsAssumption, FS_Interval
<1>2. \A j \in Instruments : /\ a.lots[j] \in Lot /\ b.lots[j] \in Lot
                             /\ v[j] \in Int /\ w[j] \in Int /\ f[j] \in Int
  BY ProductType DEF Account, Lot
<1>3. v[i] = Worth(a.lots[i]) /\ w[i] = Worth(b.lots[i])
  BY DEF Worth
<1>4. \A j \in Instruments \ {i} : v[j] = w[j]
  OBVIOUS
<1>5. /\ BookValue(a) = Total(v, Instruments) /\ BookValue(b) = Total(w, Instruments)
      /\ RoundingOf(a, b) = 2 * Scale + Total(f, changed)
  BY DEF BookValue, RoundingOf
<1>6. f[i] = b.lots[i].qty + b.lots[i].cost + 2
  OBVIOUS
<1>7. changed = IF a.lots[i] = b.lots[i] THEN {} ELSE {i}
  OBVIOUS
<1> HIDE DEF v, w, f, changed
<1>8. IsFiniteSet(Instruments \ {i}) /\ IsFiniteSet({i}) /\ IsFiniteSet({})
  BY <1>1, FS_Subset, FS_EmptySet, FS_Singleton
<1>9. Total(v, Instruments \ {i}) = Total(w, Instruments \ {i})
  BY <1>2, <1>4, <1>8, TotalCongruence
<1>10. Total(v, Instruments \ {i}) \in Int
  BY <1>2, <1>8, TotalFacts
<1>11. /\ Total(v, Instruments) = v[i] + Total(v, Instruments \ {i})
       /\ Total(w, Instruments) = w[i] + Total(w, Instruments \ {i})
  BY <1>1, <1>2, TotalFacts
<1>12. Total(f, {}) = 0 /\ Total(f, {i}) = f[i] + Total(f, {i} \ {i})
  BY <1>2, <1>8, TotalFacts
<1>13. Total(f, changed) = Slack(a.lots[i], b.lots[i])
  <2>1. {i} \ {i} = {} /\ f[i] \in Int
    BY <1>2
  <2>2. Total(f, {i}) = f[i] + Total(f, {})
    BY <1>12, <2>1
  <2>3. Total(f, {i}) = f[i]
    BY <1>12, <2>1, <2>2
  <2>4. CASE a.lots[i] = b.lots[i]
    BY <1>7, <1>12, <2>4 DEF Slack
  <2>5. CASE a.lots[i] # b.lots[i]
    BY <1>6, <1>7, <2>3, <2>5 DEF Slack
  <2> QED
    BY <2>4, <2>5
<1> QED
  BY <1>2, <1>3, <1>5, <1>9, <1>10, <1>11, <1>13

(* A step is balanced if what it is out by is rounding.                    *)
LEMMA BalancedIf ==
    ASSUME NEW a \in Account, NEW b \in Account, NEW i \in Instruments,
           \A j \in Instruments \ {i} : b.lots[j] = a.lots[j],
           NEW before \in Int, NEW after \in Int, NEW e \in Int,
           Scale * b.cash - Scale * a.cash + Worth(b.lots[i]) - Worth(a.lots[i])
               = Scale * (b.realized - a.realized)
                   + Scale * (b.flow["dividend_payment"] - a.flow["dividend_payment"])
                   - Scale * (after - before) + e,
           2 * e <= 2 * Scale + Slack(a.lots[i], b.lots[i]),
           -(2 * Scale + Slack(a.lots[i], b.lots[i])) <= 2 * e
    PROVE  2 * Abs(Drift(b, after) - Drift(a, before)) <= RoundingOf(a, b)
<1> DEFINE s == Scale
           da == a.flow["dividend_payment"]
           db == b.flow["dividend_payment"]
<1>1. s \in Int /\ InitialCash \in Int
  BY ScaleType, InitialCashAssumption
<1>2. /\ a.cash \in Int /\ b.cash \in Int /\ a.realized \in Int /\ b.realized \in Int
      /\ da \in Int /\ db \in Int
  BY DEF Account, TransactionType
<1>3. Worth(a.lots[i]) \in Int /\ Worth(b.lots[i]) \in Int
  BY ProductType DEF Account, Lot, Worth
<1>4. /\ BookValue(a) \in Int /\ BookValue(b) \in Int
      /\ BookValue(b) - BookValue(a) = Worth(b.lots[i]) - Worth(a.lots[i])
      /\ RoundingOf(a, b) = 2 * s + Slack(a.lots[i], b.lots[i])
  BY BooksDiffer
<1>5. /\ Drift(a, before) = s * a.cash + BookValue(a) - s * (InitialCash + a.realized + da - before)
      /\ Drift(b, after) = s * b.cash + BookValue(b) - s * (InitialCash + b.realized + db - after)
  BY DEF Drift
<1> HIDE DEF s, da, db
<1>6. /\ s * (InitialCash + a.realized + da - before)
            = s * InitialCash + s * a.realized + s * da - s * before
      /\ s * (InitialCash + b.realized + db - after)
            = s * InitialCash + s * b.realized + s * db - s * after
      /\ s * (b.realized - a.realized) = s * b.realized - s * a.realized
      /\ s * (db - da) = s * db - s * da
      /\ s * (after - before) = s * after - s * before
  BY <1>1, <1>2
<1>7. /\ s * InitialCash \in Int /\ s * a.realized \in Int /\ s * b.realized \in Int
      /\ s * da \in Int /\ s * db \in Int /\ s * before \in Int /\ s * after \in Int
      /\ s * a.cash \in Int /\ s * b.cash \in Int
  BY <1>1, <1>2
<1>8. s * b.cash - s * a.cash + Worth(b.lots[i]) - Worth(a.lots[i])
          = s * (b.realized - a.realized) + s * (db - da) - s * (after - before) + e
  BY DEF s, da, db
<1>9. Drift(b, after) - Drift(a, before) = e
  BY <1>3, <1>4, <1>5, <1>6, <1>7, <1>8
<1>10. 2 * e <= RoundingOf(a, b) /\ -RoundingOf(a, b) <= 2 * e /\ RoundingOf(a, b) \in Int
  <2>1. Slack(a.lots[i], b.lots[i]) \in Int
    BY DEF Slack, Account, Lot
  <2> QED
    BY <1>1, <1>4, <2>1 DEF s
<1> QED
  BY <1>9, <1>10 DEF Abs

(* A record in the cash ledger changes the cash and one flow.              *)
LEMMA RecordLegs ==
    ASSUME NEW a \in Account, NEW t \in TransactionType, NEW x \in Int
    PROVE  LET b == Record(a, t, x)
           IN  /\ b.cash = a.cash + x /\ b.realized = a.realized /\ b.lots = a.lots
               /\ \A u \in TransactionType : b.flow[u] = IF u = t THEN a.flow[u] + x ELSE a.flow[u]
<1>1. a.cash + x \in Int /\ a.flow[t] + x \in Int
  BY DEF Account
<1>2. SUFFICES ASSUME NEW y \in Int, NEW z \in Int, y = a.cash + x, z = a.flow[t] + x
               PROVE  LET b == [a EXCEPT !.cash = y, !.flow[t] = z]
                      IN  /\ b.cash = y /\ b.realized = a.realized /\ b.lots = a.lots
                          /\ \A u \in TransactionType : b.flow[u] = IF u = t THEN z ELSE a.flow[u]
  BY <1>1 DEF Record
<1> QED
  BY DEF Account

(* The position leg of a buy changes the lot alone.                        *)
LEMMA BuyLeg ==
    ASSUME NEW a \in Account, NEW i \in Instruments, NEW q \in Nat \ {0}, NEW p \in Nat
    PROVE  LET b == ApplyBuy(a, i, q, p)
           IN  /\ b.cash = a.cash /\ b.realized = a.realized /\ b.flow = a.flow
               /\ b.lots[i].qty = a.lots[i].qty + q
               /\ b.lots[i].cost = IF a.lots[i].qty = 0 THEN p
                                   ELSE RoundHalfEven(a.lots[i].qty * a.lots[i].cost + q * p,
                                                      a.lots[i].qty + q)
<1> DEFINE lot  == a.lots[i]
           new  == lot.qty + q
           cost == IF lot.qty = 0 THEN p ELSE RoundHalfEven(lot.qty * lot.cost + q * p, new)
<1>1. ApplyBuy(a, i, q, p) = [a EXCEPT !.lots[i] = [qty |-> new, cost |-> cost]]
  BY DEF ApplyBuy
<1> HIDE DEF new, cost
<1>2. LET b == [a EXCEPT !.lots[i] = [qty |-> new, cost |-> cost]]
      IN  /\ b.cash = a.cash /\ b.realized = a.realized /\ b.flow = a.flow
          /\ b.lots[i].qty = new /\ b.lots[i].cost = cost
  BY DEF Account
<1> QED
  BY <1>1, <1>2 DEF new, cost

(* A buy moves its price into the book and its fee out of the cash.        *)
LEMMA BuyIsBalanced ==
    ASSUME NEW a \in Account, NEW f \in Fill, f.price \in Nat, NEW fees \in Int
    PROVE  LET b == ApplyBuyFill(a, f)
           IN  2 * Abs(Drift(b, fees + f.fees) - Drift(a, fees)) <= RoundingOf(a, b)
<1> DEFINE i == f.inst
           b == ApplyBuyFill(a, f)
           old == a.lots[i]
           new == b.lots[i]
<1>1. i \in Instruments /\ f.qty \in Nat \ {0} /\ f.fees \in Int
  BY DEF Fill
<1>2. b \in Account /\ \A j \in Instruments \ {i} : b.lots[j] = a.lots[j]
  BY BuyFillAccount
<1>3. /\ b.cash = a.cash - BuyOutflow(f) /\ b.realized = a.realized
      /\ b.flow["dividend_payment"] = a.flow["dividend_payment"]
      /\ new.qty = old.qty + f.qty
      /\ new.cost = IF old.qty = 0 THEN f.price
                    ELSE RoundHalfEven(old.qty * old.cost + f.qty * f.price, old.qty + f.qty)
  <2> DEFINE leg == BuyCashLeg(a, f)
             x == -BuyOutflow(f)
  <2>1. f.qty * f.price + f.fees * Scale \in Int
    BY <1>1, ScaleType, ProductType
  <2>2. x \in Int /\ BuyOutflow(f) \in Int
    BY <2>1, CashType DEF BuyOutflow
  <2>3. leg = Record(a, "buy_fill", x)
    BY DEF BuyCashLeg
  <2>4. {"buy_fill", "dividend_payment"} \subseteq TransactionType
    BY DEF TransactionType
  <2>5. b = ApplyBuy(leg, i, f.qty, f.price)
    BY DEF ApplyBuyFill
  <2>6. a.cash + x = a.cash - BuyOutflow(f)
    BY <2>2 DEF Account
  <2> HIDE DEF leg, x, b
  <2>7. /\ leg \in Account /\ leg.cash = a.cash + x /\ leg.realized = a.realized
        /\ leg.lots = a.lots
        /\ leg.flow["dividend_payment"] = a.flow["dividend_payment"]
    <3>1. "buy_fill" \in TransactionType /\ "buy_fill" # "dividend_payment"
      BY <2>4
    <3>2. Record(a, "buy_fill", x) \in Account
      BY <2>2, <3>1, RecordAccount
    <3>3. LET r == Record(a, "buy_fill", x)
          IN  /\ r.cash = a.cash + x /\ r.realized = a.realized /\ r.lots = a.lots
              /\ \A u \in TransactionType :
                    r.flow[u] = IF u = "buy_fill" THEN a.flow[u] + x ELSE a.flow[u]
      BY <2>2, <3>1, RecordLegs
    <3> QED
      BY <2>3, <2>4, <3>1, <3>2, <3>3
  <2>8. /\ b.cash = leg.cash /\ b.realized = leg.realized /\ b.flow = leg.flow
        /\ new.qty = leg.lots[i].qty + f.qty
        /\ new.cost = IF leg.lots[i].qty = 0 THEN f.price
                      ELSE RoundHalfEven(leg.lots[i].qty * leg.lots[i].cost + f.qty * f.price,
                                         leg.lots[i].qty + f.qty)
    <3> DEFINE q == f.qty
               p == f.price
    <3>1. i \in Instruments /\ q \in Nat \ {0} /\ p \in Nat /\ leg \in Account
      BY <1>1, <2>7 DEF Fill
    <3> HIDE DEF q, p, i
    <3>2. LET d == ApplyBuy(leg, i, q, p)
          IN  /\ d.cash = leg.cash /\ d.realized = leg.realized /\ d.flow = leg.flow
              /\ d.lots[i].qty = leg.lots[i].qty + q
              /\ d.lots[i].cost = IF leg.lots[i].qty = 0 THEN p
                                  ELSE RoundHalfEven(leg.lots[i].qty * leg.lots[i].cost + q * p,
                                                     leg.lots[i].qty + q)
      BY <3>1, BuyLeg, ZenonT(60)
    <3>3. b = ApplyBuy(leg, i, q, p)
      BY <2>5 DEF q, p
    <3> QED
      BY <3>2, <3>3 DEF q, p
  <2> QED
    BY <2>6, <2>7, <2>8
<1> HIDE DEF b
<1>4. /\ old.qty \in Nat /\ old.cost \in Nat /\ new.qty \in Nat /\ new.cost \in Nat
      /\ a.cash \in Int /\ b.cash \in Int
      /\ a.realized \in Int /\ a.flow["dividend_payment"] \in Int
  BY <1>1, <1>2 DEF Account, Lot, TransactionType
<1> DEFINE paid == f.qty * f.price
           s == Scale
           out == BuyOutflow(f)
<1>5. paid \in Nat /\ s \in Nat \ {0} /\ Worth(old) \in Nat /\ s * f.fees \in Int /\ f.fees * s \in Int
  BY <1>1, <1>4, ScaleType, ProductType DEF Worth
<1>6. PICK e1 \in Int : s * out = paid + f.fees * s + e1 /\ 2 * e1 <= s /\ -s <= 2 * e1
  <2> DEFINE x == paid + f.fees * s
  <2>1. out = Cash(x)
    BY DEF BuyOutflow
  <2>2. x \in Int
    BY <1>5
  <2> HIDE DEF x, out
  <2>3. \E e \in Int : s * out = x + e /\ 2 * e <= s /\ -s <= 2 * e
    BY <2>1, <2>2, CashError
  <2> QED
    BY <2>3 DEF x
<1>7. out \in Int
  BY <1>5, CashType DEF BuyOutflow
<1> HIDE DEF old, new, paid, s, out
<1>8. \E e2 \in Int : /\ Worth(new) = Worth(old) + paid + e2
                      /\ 2 * e2 <= new.qty /\ -new.qty <= 2 * e2
  <2>1. CASE old.qty = 0
    <3>1. Worth(old) = 0
      BY <1>4, <2>1 DEF Worth
    <3>2. Worth(new) = paid
      BY <1>1, <1>3, <2>1 DEF Worth, paid, old, new
    <3> QED
      BY <1>4, <1>5, <3>1, <3>2
  <2>2. CASE old.qty # 0
    <3>1. new.qty \in Nat \ {0} /\ Worth(old) + paid \in Int
      BY <1>1, <1>3, <1>4, <1>5 DEF old, new
    <3>2. new.cost = RoundHalfEven(Worth(old) + paid, new.qty)
      BY <1>3, <2>2 DEF Worth, paid, old, new
    <3>3. PICK e \in Int : /\ new.qty * new.cost = Worth(old) + paid + e
                           /\ 2 * e <= new.qty /\ -new.qty <= 2 * e
      BY <3>1, <3>2, RoundingError
    <3> QED
      BY <3>3 DEF Worth
  <2> QED
    BY <2>1, <2>2
<1>9. PICK e2 \in Int : /\ Worth(new) = Worth(old) + paid + e2
                        /\ 2 * e2 <= new.qty /\ -new.qty <= 2 * e2
  BY <1>8
<1> DEFINE e == e2 - e1
<1>10. old # new
  <2>1. new.qty = old.qty + f.qty /\ old.qty \in Nat
    BY <1>3, <1>4 DEF old, new
  <2> QED
    BY <1>1, <2>1
<1>11. Slack(old, new) = new.qty + new.cost + 2
  BY <1>10 DEF Slack
<1>12. s * b.cash = s * a.cash - s * out
  <2>1. b.cash = a.cash - out
    BY <1>3 DEF out
  <2> QED
    BY <1>4, <1>5, <1>7, <2>1
<1>13. /\ s * (b.realized - a.realized) = 0
       /\ s * (b.flow["dividend_payment"] - a.flow["dividend_payment"]) = 0
       /\ s * ((fees + f.fees) - fees) = s * f.fees
       /\ s * f.fees = f.fees * s
  <2>1. b.realized - a.realized = 0 /\ b.flow["dividend_payment"] - a.flow["dividend_payment"] = 0
    BY <1>3, <1>4
  <2>2. (fees + f.fees) - fees = f.fees
    BY <1>1
  <2> QED
    BY <1>1, <1>5, <2>1, <2>2
<1>14. s * a.cash \in Int /\ s * out \in Int
  BY <1>4, <1>5, <1>7
<1>15. s * b.cash - s * a.cash + Worth(new) - Worth(old)
           = s * (b.realized - a.realized)
               + s * (b.flow["dividend_payment"] - a.flow["dividend_payment"])
               - s * ((fees + f.fees) - fees) + e
  BY <1>5, <1>6, <1>9, <1>12, <1>13, <1>14
<1>16. /\ e \in Int /\ fees + f.fees \in Int
       /\ 2 * e <= 2 * s + Slack(old, new) /\ -(2 * s + Slack(old, new)) <= 2 * e
  BY <1>1, <1>4, <1>5, <1>6, <1>9, <1>11
<1> HIDE DEF e
<1>17. 2 * Abs(Drift(b, fees + f.fees) - Drift(a, fees)) <= RoundingOf(a, b)
  BY <1>1, <1>2, <1>15, <1>16, BalancedIf DEF s, old, new
<1> QED
  BY <1>17 DEF b

(* The position leg of a sale takes the cost of what is sold off the book  *)
(* and realizes the difference to the price.                               *)
LEMMA SellLeg ==
    ASSUME NEW a \in Account, NEW i \in Instruments, NEW q \in Nat, NEW p \in Int,
           CanSell(a, i, q)
    PROVE  LET b == ApplySell(a, i, q, p)
           IN  /\ b.cash = a.cash /\ b.flow = a.flow
               /\ b.realized = a.realized + Cash((p - a.lots[i].cost) * q)
               /\ Worth(b.lots[i]) = Worth(a.lots[i]) - q * a.lots[i].cost
<1> DEFINE lot  == a.lots[i]
           left == lot.qty - q
           cost == IF left = 0 THEN 0 ELSE lot.cost
           gain == Cash((p - lot.cost) * q)
           b    == ApplySell(a, i, q, p)
<1>1. b = [a EXCEPT !.lots[i] = [qty |-> left, cost |-> cost], !.realized = @ + gain]
  BY DEF ApplySell
<1>2. lot.qty \in Nat /\ lot.cost \in Nat /\ left \in Nat
  BY DEF Account, Lot, CanSell
<1>3. left * cost = lot.qty * lot.cost - q * lot.cost
  <2>1. CASE left = 0
    <3>1. cost = 0 /\ lot.qty = q
      BY <1>2, <2>1
    <3> HIDE DEF cost, lot
    <3>2. left * cost = 0 /\ lot.qty * lot.cost = q * lot.cost
      BY <1>2, <3>1
    <3> QED
      BY <1>2, <3>2
  <2>2. CASE left # 0
    <3>1. cost = lot.cost
      BY <2>2
    <3> HIDE DEF cost, lot
    <3> QED
      BY <1>2, <3>1
  <2> QED
    BY <2>1, <2>2
<1> HIDE DEF left, cost, gain, b
<1>4. /\ b.cash = a.cash /\ b.flow = a.flow /\ b.realized = a.realized + gain
      /\ b.lots[i].qty = left /\ b.lots[i].cost = cost
  BY <1>1 DEF Account
<1>5. Worth(b.lots[i]) = left * cost
  BY <1>4 DEF Worth
<1> QED
  BY <1>3, <1>4, <1>5 DEF Worth, gain, b

(* What a sale takes in and what it realizes, both rounded.                *)
SaleIsRounded(q, p, c, x) ==
    \E e \in Int : /\ Scale * Cash(q * p - x) + x = Scale * Cash((p - c) * q) + q * c + e
                   /\ 2 * e <= 2 * Scale /\ -(2 * Scale) <= 2 * e

(* The two roundings of a sale come to a cash tick at the most.            *)
LEMMA SaleRounds ==
    ASSUME NEW q \in Nat, NEW p \in Int, NEW c \in Nat, NEW x \in Int
    PROVE  SaleIsRounded(q, p, c, x)
<1> DEFINE m == q * p - x
           n == (p - c) * q
<1>1. m \in Int /\ n \in Int /\ q * c \in Int /\ q * p \in Int /\ n = q * p - q * c
  OBVIOUS
<1>2. PICK e1 \in Int : Scale * Cash(m) = m + e1 /\ 2 * e1 <= Scale /\ -Scale <= 2 * e1
  BY <1>1, CashError
<1>3. PICK e2 \in Int : Scale * Cash(n) = n + e2 /\ 2 * e2 <= Scale /\ -Scale <= 2 * e2
  BY <1>1, CashError
<1> HIDE DEF m, n
<1>4. m + x = q * p
  BY <1>1 DEF m
<1> DEFINE e == e1 - e2
<1>5. /\ Scale * Cash(m) + x = Scale * Cash(n) + q * c + e
      /\ e \in Int /\ 2 * e <= 2 * Scale /\ -(2 * Scale) <= 2 * e
  BY <1>1, <1>2, <1>3, <1>4, ScaleType
<1> QED
  BY <1>5 DEF m, n, SaleIsRounded

(* A sale moves its cost out of the book, the rest of its price into the   *)
(* result and its fee out of the cash.                                     *)
LEMMA SellIsBalanced ==
    ASSUME NEW a \in Account, NEW f \in Fill, CanSell(a, f.inst, f.qty), NEW fees \in Int
    PROVE  LET b == ApplySellFill(a, f)
           IN  2 * Abs(Drift(b, fees + f.fees) - Drift(a, fees)) <= RoundingOf(a, b)
<1> DEFINE i == f.inst
           b == ApplySellFill(a, f)
           old == a.lots[i]
           new == b.lots[i]
           x == SellInflow(f)
           gain == Cash((f.price - old.cost) * f.qty)
           s == Scale
<1>1. /\ i \in Instruments /\ f.qty \in Nat \ {0} /\ f.fees \in Int /\ f.price \in Int
      /\ s \in Nat \ {0} /\ f.fees * s \in Int
  BY ScaleType DEF Fill
<1>2. b \in Account /\ \A j \in Instruments \ {i} : b.lots[j] = a.lots[j]
  BY SellFillAccount
<1>3. old.qty \in Nat /\ old.cost \in Nat
  BY <1>1 DEF Account, Lot
<1>4. x \in Int /\ gain \in Int
  <2>1. f.qty * f.price - f.fees * Scale \in Int /\ (f.price - old.cost) * f.qty \in Int
    BY <1>1, <1>3
  <2> QED
    BY <2>1, CashType DEF SellInflow
<1>5. /\ b.cash = a.cash + x /\ b.realized = a.realized + gain
      /\ b.flow["dividend_payment"] = a.flow["dividend_payment"]
      /\ Worth(new) = Worth(old) - f.qty * old.cost
  <2> DEFINE leg == SellCashLeg(a, f)
  <2>1. "sell_fill" \in TransactionType /\ "dividend_payment" \in TransactionType
        /\ "sell_fill" # "dividend_payment"
    BY DEF TransactionType
  <2>2. leg = Record(a, "sell_fill", x) /\ b = ApplySell(leg, i, f.qty, f.price)
    BY DEF SellCashLeg, ApplySellFill
  <2>3. leg \in Account /\ leg.lots = a.lots
    BY SellCashAccount
  <2> HIDE DEF leg, x, b
  <2>4. LET r == Record(a, "sell_fill", x)
        IN  /\ r.cash = a.cash + x /\ r.realized = a.realized /\ r.lots = a.lots
            /\ \A u \in TransactionType :
                  r.flow[u] = IF u = "sell_fill" THEN a.flow[u] + x ELSE a.flow[u]
    BY <1>4, <2>1, RecordLegs
  <2>5. /\ leg.cash = a.cash + x /\ leg.realized = a.realized
        /\ leg.flow["dividend_payment"] = a.flow["dividend_payment"]
    BY <2>1, <2>2, <2>4
  <2>6. CanSell(leg, i, f.qty)
    BY <2>3 DEF CanSell
  <2>7. /\ b.cash = leg.cash /\ b.flow = leg.flow
        /\ b.realized = leg.realized + Cash((f.price - leg.lots[i].cost) * f.qty)
        /\ Worth(b.lots[i]) = Worth(leg.lots[i]) - f.qty * leg.lots[i].cost
    BY <1>1, <2>2, <2>3, <2>6, SellLeg
  <2> QED
    BY <2>3, <2>5, <2>7
<1>6. PICK e \in Int : /\ s * x + f.fees * s = s * gain + f.qty * old.cost + e
                       /\ 2 * e <= 2 * s /\ -(2 * s) <= 2 * e
  <2> DEFINE c == old.cost
             y == f.fees * s
             q == f.qty
             p == f.price
  <2>1. x = Cash(q * p - y) /\ gain = Cash((p - c) * q)
    BY DEF SellInflow
  <2>2. q \in Nat /\ p \in Int /\ c \in Nat /\ y \in Int
    BY <1>1, <1>3
  <2> HIDE DEF c, y, q, p, x, gain
  <2>3. SaleIsRounded(q, p, c, y)
    BY <2>2, SaleRounds
  <2>4. \E e \in Int : /\ s * x + y = s * gain + q * c + e
                       /\ 2 * e <= 2 * s /\ -(2 * s) <= 2 * e
    BY <2>1, <2>3 DEF SaleIsRounded
  <2> QED
    BY <2>4 DEF c, y, q
<1> DEFINE k == f.qty * old.cost
<1> HIDE DEF b, x, gain, s
<1>7. /\ a.cash \in Int /\ a.realized \in Int /\ a.flow["dividend_payment"] \in Int
      /\ new.qty \in Nat /\ new.cost \in Nat
  BY <1>1, <1>2 DEF Account, TransactionType, Lot
<1> HIDE DEF old, new
<1>8. Worth(old) \in Int /\ f.qty * old.cost \in Int
  BY <1>1, <1>3, ProductType DEF Worth
<1>9. /\ s * b.cash = s * a.cash + s * x /\ s * (b.realized - a.realized) = s * gain
      /\ s * (b.flow["dividend_payment"] - a.flow["dividend_payment"]) = 0
      /\ s * ((fees + f.fees) - fees) = f.fees * s
  <2>1. b.realized - a.realized = gain /\ b.flow["dividend_payment"] - a.flow["dividend_payment"] = 0
    BY <1>4, <1>5, <1>7
  <2>2. (fees + f.fees) - fees = f.fees
    BY <1>1
  <2> QED
    BY <1>1, <1>4, <1>5, <1>7, <2>1, <2>2
<1>10. s * a.cash \in Int /\ s * x \in Int /\ s * gain \in Int
  BY <1>1, <1>4, <1>7
<1>11. s * b.cash - s * a.cash + Worth(new) - Worth(old)
           = s * (b.realized - a.realized)
               + s * (b.flow["dividend_payment"] - a.flow["dividend_payment"])
               - s * ((fees + f.fees) - fees) + e
  <2>1. Worth(new) = Worth(old) - k /\ s * x + f.fees * s = s * gain + k + e /\ k \in Int
    BY <1>5, <1>6, <1>8 DEF old, new
  <2> DEFINE A == s * a.cash
             X == s * x
             G == s * gain
             F == f.fees * s
             B == s * b.cash
             R == s * (b.realized - a.realized)
             D == s * (b.flow["dividend_payment"] - a.flow["dividend_payment"])
             P == s * ((fees + f.fees) - fees)
  <2>2. B = A + X /\ R = G /\ D = 0 /\ P = F /\ X + F = G + k + e
    BY <1>9, <2>1
  <2>3. A \in Int /\ X \in Int /\ G \in Int /\ F \in Int
    BY <1>1, <1>10
  <2> HIDE DEF k, A, X, G, F, B, R, D, P
  <2>4. B - A + Worth(new) - Worth(old) = R + D - P + e
    BY <1>8, <2>1, <2>2, <2>3
  <2> QED
    BY <2>4 DEF A, B, R, D, P
<1>12. /\ fees + f.fees \in Int
       /\ 2 * e <= 2 * s + Slack(old, new) /\ -(2 * s + Slack(old, new)) <= 2 * e
  <2>1. Slack(old, new) \in Nat
    BY <1>7 DEF Slack
  <2> QED
    BY <1>1, <1>6, <2>1
<1>13. 2 * Abs(Drift(b, fees + f.fees) - Drift(a, fees)) <= RoundingOf(a, b)
  BY <1>1, <1>2, <1>11, <1>12, BalancedIf DEF s, old, new
<1> QED
  BY <1>13 DEF b

(* Products with a common factor compare as the other factors do.          *)
LEMMA FactorUp ==
    ASSUME NEW k \in Nat, NEW x \in Int, NEW y \in Int, x <= y
    PROVE  k * x <= k * y
<1>1. k * (y - x) \in Nat
  OBVIOUS
<1>2. k * (y - x) = k * y - k * x
  OBVIOUS
<1> QED
  BY <1>1, <1>2

LEMMA FactorDown ==
    ASSUME NEW k \in Nat \ {0}, NEW x \in Int, NEW y \in Int, k * x <= k * y
    PROVE  x <= y
<1>1. SUFFICES ASSUME y + 1 <= x PROVE FALSE
  OBVIOUS
<1>2. k * (y + 1) <= k * x
  BY <1>1, FactorUp
<1>3. k * (y + 1) = k * y + k
  OBVIOUS
<1> QED
  BY <1>2, <1>3

(* Twice an amount within the rounding of a lot's quantity and its cost.   *)
Within(x, r) == 2 * x <= r /\ -r <= 2 * x

(* A split changes the worth of a lot by the rounding of its quantity and  *)
(* of its cost: q shares at c become p shares at b, n for d.               *)
LEMMA SplitRounds ==
    ASSUME NEW q \in Nat, NEW c \in Nat, NEW p \in Nat, NEW b \in Nat,
           NEW n \in Nat \ {0}, NEW d \in Nat \ {0}, NEW e1 \in Int, NEW e2 \in Int,
           d * p = q * n + e1, 2 * e1 <= d, -d <= 2 * e1,
           n * b = c * d + e2, 2 * e2 <= n, -n <= 2 * e2
    PROVE  Within(p * b - q * c, p + b + 2)
<1> DEFINE k == d * n
           x == p * b - q * c
<1>1. k \in Nat \ {0} /\ x \in Int /\ d * p \in Nat /\ n * b \in Nat /\ e1 * e2 \in Int
  BY ProductType
<1>2. k * x = (d * p) * e2 + (n * b) * e1 - e1 * e2
  <2>1. k * x = (d * p) * (n * b) - (q * n) * (c * d)
    OBVIOUS
  <2>2. q * n = d * p - e1 /\ c * d = n * b - e2 /\ q * n \in Int /\ c * d \in Int
    OBVIOUS
  <2> DEFINE A == d * p
             B == n * b
  <2>3. (q * n) * (c * d) = (A - e1) * (B - e2)
    BY <2>2
  <2> HIDE DEF A, B
  <2>4. (A - e1) * (B - e2) = A * B - A * e2 - B * e1 + e1 * e2 /\ A * B \in Int /\ A * e2 \in Int
        /\ B * e1 \in Int
    BY <1>1 DEF A, B
  <2>5. k * x = A * B - (q * n) * (c * d)
    BY <2>1 DEF A, B
  <2> HIDE DEF k, x
  <2>6. k * x = A * e2 + B * e1 - e1 * e2
    BY <1>1, <2>3, <2>4, <2>5
  <2> QED
    BY <2>6 DEF A, B
<1>3. Within((d * p) * e2, k * p)
  <2>1. (d * p) * (2 * e2) <= (d * p) * n /\ (d * p) * (-n) <= (d * p) * (2 * e2)
    BY <1>1, FactorUp
  <2>2. /\ (d * p) * (2 * e2) = 2 * ((d * p) * e2)
        /\ (d * p) * n = k * p /\ (d * p) * (-n) = -(k * p)
    OBVIOUS
  <2> QED
    BY <2>1, <2>2 DEF Within
<1>4. Within((n * b) * e1, k * b)
  <2>1. (n * b) * (2 * e1) <= (n * b) * d /\ (n * b) * (-d) <= (n * b) * (2 * e1)
    BY <1>1, FactorUp
  <2>2. /\ (n * b) * (2 * e1) = 2 * ((n * b) * e1)
        /\ (n * b) * d = k * b /\ (n * b) * (-d) = -(k * b)
    OBVIOUS
  <2> QED
    BY <2>1, <2>2 DEF Within
<1>5. Within(e1 * e2, k)
  <2> DEFINE u == IF e1 < 0 THEN -e1 ELSE e1
             v == IF e2 < 0 THEN -e2 ELSE e2
  <2>1. u \in Nat /\ v \in Nat /\ u <= d /\ 2 * v <= n
    OBVIOUS
  <2>2. u * v = e1 * e2 \/ u * v = -(e1 * e2)
    OBVIOUS
  <2> HIDE DEF u, v
  <2>3. u * (2 * v) <= u * n /\ n * u <= n * d
    BY <2>1, FactorUp
  <2>4. u * (2 * v) = 2 * (u * v) /\ n * u = u * n /\ n * d = k /\ u * v \in Nat
    BY <2>1
  <2> HIDE DEF k
  <2>5. 2 * (u * v) <= k /\ u * n \in Int
    BY <2>1, <2>3, <2>4
  <2> QED
    BY <1>1, <2>2, <2>4, <2>5 DEF Within
<1> DEFINE r == p + b + 2
<1>6. k * r = k * p + k * b + 2 * k /\ k * (2 * x) = 2 * (k * x) /\ k * (-r) = -(k * r)
  OBVIOUS
<1>7. k * (2 * x) <= k * r /\ k * (-r) <= k * (2 * x)
  <2> DEFINE A == (d * p) * e2
             B == (n * b) * e1
             E == e1 * e2
             P == k * p
             R == k * b
             X == k * x
             K == k * r
  <2>1. A \in Int /\ B \in Int /\ E \in Int /\ P \in Int /\ R \in Int /\ X \in Int /\ K \in Int
    BY <1>1
  <2>2. X = A + B - E /\ K = P + R + 2 * k
    BY <1>2, <1>6
  <2>3. Within(A, P) /\ Within(B, R) /\ Within(E, k)
    BY <1>3, <1>4, <1>5
  <2> HIDE DEF A, B, E, P, R, X, K, k
  <2>4. 2 * X <= K /\ -K <= 2 * X
    BY <1>1, <2>1, <2>2, <2>3 DEF Within
  <2> QED
    BY <1>6, <2>4 DEF X, K
<1>8. r \in Int /\ -r \in Int /\ 2 * x \in Int
  BY <1>1
<1> HIDE DEF k, r, x
<1>9. 2 * x <= r /\ -r <= 2 * x
  BY <1>1, <1>7, <1>8, FactorDown
<1> QED
  BY <1>9 DEF Within, r, x

(* A split leaves cash, result and flows alone, and changes the worth of   *)
(* its lot by rounding only.                                               *)
LEMMA SplitIsBalanced ==
    ASSUME NEW a \in Account, NEW i \in Instruments,
           NEW n \in Nat \ {0}, NEW d \in Nat \ {0}, NEW fees \in Int
    PROVE  LET b == ApplySplit(a, i, n, d)
           IN  2 * Abs(Drift(b, fees) - Drift(a, fees)) <= RoundingOf(a, b)
<1> DEFINE old == a.lots[i]
           qty == RoundHalfEven(old.qty * n, d)
           cost == RoundHalfEven(old.cost * d, n)
           b == ApplySplit(a, i, n, d)
           new == b.lots[i]
           e == Worth(new) - Worth(old)
<1>1. b = [a EXCEPT !.lots[i] = [qty |-> qty, cost |-> cost]]
  BY DEF ApplySplit
<1>2. old.qty \in Nat /\ old.cost \in Nat
  BY DEF Account, Lot
<1>3. b \in Account /\ \A j \in Instruments \ {i} : b.lots[j] = a.lots[j]
  BY SplitAccount
<1>4. old.qty * n \in Nat /\ old.cost * d \in Nat
  BY <1>2, ProductType
<1>5. qty \in Nat /\ cost \in Nat
  BY <1>4, RoundNat
<1>6. /\ \E z \in Int : d * qty = old.qty * n + z /\ 2 * z <= d /\ -d <= 2 * z
      /\ \E z \in Int : n * cost = old.cost * d + z /\ 2 * z <= n /\ -n <= 2 * z
  <2> DEFINE x == old.qty * n
             y == old.cost * d
  <2>1. x \in Int /\ y \in Int
    BY <1>4
  <2> HIDE DEF x, y
  <2>2. /\ \E z \in Int : d * RoundHalfEven(x, d) = x + z /\ 2 * z <= d /\ -d <= 2 * z
        /\ \E z \in Int : n * RoundHalfEven(y, n) = y + z /\ 2 * z <= n /\ -n <= 2 * z
    BY <2>1, RoundingError
  <2> QED
    BY <2>2 DEF x, y
<1>7. PICK e1 \in Int, e2 \in Int :
          /\ d * qty = old.qty * n + e1 /\ 2 * e1 <= d /\ -d <= 2 * e1
          /\ n * cost = old.cost * d + e2 /\ 2 * e2 <= n /\ -n <= 2 * e2
  BY <1>6
<1> HIDE DEF b, qty, cost
<1>8. /\ b.cash = a.cash /\ b.realized = a.realized /\ b.flow = a.flow
      /\ new.qty = qty /\ new.cost = cost
  BY <1>1 DEF Account
<1> HIDE DEF old
<1>9. Within(qty * cost - old.qty * old.cost, qty + cost + 2)
  BY <1>2, <1>5, <1>7, SplitRounds
<1>10. /\ Worth(new) = qty * cost /\ Worth(old) = old.qty * old.cost
       /\ Worth(new) \in Int /\ Worth(old) \in Int
  BY <1>2, <1>5, <1>8, ProductType DEF Worth
<1>11. /\ e \in Int
       /\ 2 * e <= 2 * Scale + Slack(old, new) /\ -(2 * Scale + Slack(old, new)) <= 2 * e
  <2>1. CASE old = new
    BY <1>10, <2>1, ScaleType DEF Slack
  <2>2. CASE old # new
    <3>1. Slack(old, new) = qty + cost + 2
      BY <1>8, <2>2 DEF Slack
    <3> QED
      BY <1>5, <1>9, <1>10, <3>1, ScaleType DEF Within
  <2> QED
    BY <2>1, <2>2
<1>12. /\ b.realized - a.realized = 0 /\ fees - fees = 0
       /\ b.flow["dividend_payment"] - a.flow["dividend_payment"] = 0
       /\ a.cash \in Int
  BY <1>8 DEF Account, TransactionType
<1>13. /\ Scale * (b.realized - a.realized) = 0 /\ Scale * (fees - fees) = 0
       /\ Scale * (b.flow["dividend_payment"] - a.flow["dividend_payment"]) = 0
       /\ Scale * b.cash - Scale * a.cash = 0 /\ Scale * b.cash \in Int
  BY <1>8, <1>12, ScaleType
<1>14. Scale * b.cash - Scale * a.cash + Worth(new) - Worth(old)
           = Scale * (b.realized - a.realized)
               + Scale * (b.flow["dividend_payment"] - a.flow["dividend_payment"])
               - Scale * (fees - fees) + e
  BY <1>8, <1>10, <1>13
<1> HIDE DEF e
<1>15. 2 * Abs(Drift(b, fees) - Drift(a, fees)) <= RoundingOf(a, b)
  BY <1>3, <1>11, <1>14, BalancedIf DEF old, new
<1> QED
  BY <1>15 DEF b

(* A dividend raises the cash and its flow by the same amount.             *)
LEMMA DividendIsBalanced ==
    ASSUME NEW a \in Account, NEW i \in Instruments, NEW x \in Nat, NEW fees \in Int
    PROVE  LET b == PayDividend(a, i, x)
           IN  2 * Abs(Drift(b, fees) - Drift(a, fees)) <= RoundingOf(a, b)
<1> DEFINE b == PayDividend(a, i, x)
           y == Cash(a.lots[i].qty * x)
           s == Scale
<1>1. b \in Account /\ b.lots = a.lots
  BY DividendAccount
<1>2. y \in Int
  BY CashType, ProductType DEF Account, Lot
<1>3. "dividend_payment" \in TransactionType
  BY DEF TransactionType
<1>4. b = Record(a, "dividend_payment", y)
  BY DEF PayDividend
<1> HIDE DEF y, b, s
<1>5. LET r == Record(a, "dividend_payment", y)
      IN  /\ r.cash = a.cash + y /\ r.realized = a.realized /\ r.lots = a.lots
          /\ \A u \in TransactionType :
                r.flow[u] = IF u = "dividend_payment" THEN a.flow[u] + y ELSE a.flow[u]
  BY <1>2, <1>3, RecordLegs
<1>6. /\ b.cash = a.cash + y /\ b.realized = a.realized
      /\ b.flow["dividend_payment"] = a.flow["dividend_payment"] + y
  BY <1>3, <1>4, <1>5
<1>7. /\ a.cash \in Int /\ a.realized \in Int /\ a.flow["dividend_payment"] \in Int
      /\ Worth(a.lots[i]) \in Int /\ s \in Nat
  BY <1>3, ScaleType, ProductType DEF Account, Lot, Worth, s
<1>8. /\ b.realized - a.realized = 0 /\ fees - fees = 0
      /\ b.flow["dividend_payment"] - a.flow["dividend_payment"] = y
  BY <1>2, <1>6, <1>7
<1>9. /\ s * (b.realized - a.realized) = 0 /\ s * (fees - fees) = 0
      /\ s * (b.flow["dividend_payment"] - a.flow["dividend_payment"]) = s * y
      /\ s * b.cash = s * a.cash + s * y /\ s * y \in Int /\ s * a.cash \in Int
  BY <1>2, <1>6, <1>7, <1>8
<1>10. s * b.cash - s * a.cash + Worth(b.lots[i]) - Worth(a.lots[i])
           = s * (b.realized - a.realized)
               + s * (b.flow["dividend_payment"] - a.flow["dividend_payment"])
               - s * (fees - fees) + 0
  BY <1>1, <1>7, <1>9
<1>11. Slack(a.lots[i], b.lots[i]) = 0
  BY <1>1 DEF Slack
<1>12. 2 * 0 <= 2 * s + Slack(a.lots[i], b.lots[i]) /\ -(2 * s + Slack(a.lots[i], b.lots[i])) <= 2 * 0
  BY <1>7, <1>11
<1>13. 2 * Abs(Drift(b, fees) - Drift(a, fees)) <= RoundingOf(a, b)
  BY <1>1, <1>10, <1>12, BalancedIf DEF s
<1> QED
  BY <1>13 DEF b

(* A delisting sells the whole lot at the terminal value; nothing is       *)
(* credited only where there is nothing to credit.                         *)
LEMMA DelistingIsBalanced ==
    ASSUME NEW a \in Account, NEW i \in Instruments, NEW x \in Nat, NEW fees \in Int
    PROVE  LET b == SettleDelisting(a, i, x)
           IN  2 * Abs(Drift(b, fees) - Drift(a, fees)) <= RoundingOf(a, b)
<1> DEFINE b == SettleDelisting(a, i, x)
           old == a.lots[i]
           new == b.lots[i]
           q == old.qty
           credit == Cash(q * x)
           gain == Cash((x - old.cost) * q)
           s == Scale
           k == q * old.cost
<1>1. old.qty \in Nat /\ old.cost \in Nat /\ s \in Nat
  BY ScaleType DEF Account, Lot
<1>2. b \in Account /\ \A j \in Instruments \ {i} : b.lots[j] = a.lots[j]
  BY DelistingAccount
<1>3. credit \in Nat /\ gain \in Int /\ k \in Int
  <2>1. q * x \in Nat /\ (x - old.cost) * q \in Int
    BY <1>1, ProductType
  <2> HIDE DEF old, q
  <2>2. Cash(q * x) \in Nat
    BY <2>1, ScaleType, RoundNat DEF Cash
  <2> QED
    BY <1>1, <2>1, <2>2, CashType, ProductType DEF q
<1>4. /\ b.cash = a.cash + credit /\ b.realized = a.realized + gain
      /\ b.flow["dividend_payment"] = a.flow["dividend_payment"]
      /\ Worth(new) = Worth(old) - k
  <2> DEFINE sold == ApplySell(a, i, q, x)
             r == Record(sold, "delisting_settlement", credit)
  <2>1. "delisting_settlement" \in TransactionType /\ "dividend_payment" \in TransactionType
        /\ "delisting_settlement" # "dividend_payment"
    BY DEF TransactionType
  <2>2. b = IF credit > 0 THEN r ELSE sold
    BY DEF SettleDelisting
  <2>3. CanSell(a, i, q) /\ q \in Nat /\ x \in Int
    BY <1>1 DEF CanSell
  <2>4. sold \in Account
    BY <2>3, SellAccount
  <2>5. /\ sold.cash = a.cash /\ sold.flow = a.flow /\ sold.realized = a.realized + gain
        /\ Worth(sold.lots[i]) = Worth(old) - k
    BY <2>3, SellLeg
  <2> HIDE DEF sold, credit, gain, b
  <2>6. /\ r.cash = sold.cash + credit /\ r.realized = sold.realized /\ r.lots = sold.lots
        /\ r.flow["dividend_payment"] = sold.flow["dividend_payment"]
    BY <1>3, <2>1, <2>4, RecordLegs
  <2>7. a.cash \in Int
    BY DEF Account
  <2> QED
    BY <1>3, <2>2, <2>5, <2>6, <2>7
<1>5. PICK e \in Int : s * credit = s * gain + k + e /\ 2 * e <= 2 * s /\ -(2 * s) <= 2 * e
  <2> DEFINE c == old.cost
  <2> HIDE DEF old
  <2>1. SaleIsRounded(q, x, c, 0)
    BY <1>1, SaleRounds
  <2>2. q * x - 0 = q * x
    BY <1>1
  <2> DEFINE S == Scale * Cash(q * x)
  <2>3. S \in Int
    BY <1>1, <1>3
  <2> HIDE DEF q, c
  <2>4. \E e \in Int : /\ S + 0 = Scale * Cash((x - c) * q) + q * c + e
                       /\ 2 * e <= 2 * Scale /\ -(2 * Scale) <= 2 * e
    BY <2>1, <2>2 DEF SaleIsRounded
  <2>5. S + 0 = S
    BY <2>3
  <2> QED
    BY <2>4, <2>5 DEF S, q, c
<1> HIDE DEF b, credit, gain, s, k
<1>6. /\ a.cash \in Int /\ a.realized \in Int /\ a.flow["dividend_payment"] \in Int
      /\ new.qty \in Nat /\ new.cost \in Nat
  BY <1>2 DEF Account, TransactionType, Lot
<1>7. Worth(old) \in Int
  BY <1>1, ProductType DEF Worth
<1> HIDE DEF old, new, q
<1>8. /\ s * b.cash = s * a.cash + s * credit /\ s * (b.realized - a.realized) = s * gain
      /\ s * (b.flow["dividend_payment"] - a.flow["dividend_payment"]) = 0
      /\ s * (fees - fees) = 0
      /\ s * a.cash \in Int /\ s * credit \in Int /\ s * gain \in Int
  <2>1. /\ b.realized - a.realized = gain /\ fees - fees = 0
        /\ b.flow["dividend_payment"] - a.flow["dividend_payment"] = 0
    BY <1>3, <1>4, <1>6
  <2> QED
    BY <1>1, <1>3, <1>4, <1>6, <2>1
<1>9. s * b.cash - s * a.cash + Worth(new) - Worth(old)
          = s * (b.realized - a.realized)
              + s * (b.flow["dividend_payment"] - a.flow["dividend_payment"])
              - s * (fees - fees) + e
  <2> DEFINE B == s * b.cash
             R == s * (b.realized - a.realized)
             D == s * (b.flow["dividend_payment"] - a.flow["dividend_payment"])
             P == s * (fees - fees)
             A == s * a.cash
             X == s * credit
             G == s * gain
  <2>1. /\ B = A + X /\ R = G /\ D = 0 /\ P = 0 /\ X = G + k + e
        /\ A \in Int /\ X \in Int /\ G \in Int
    BY <1>5, <1>8
  <2> HIDE DEF B, R, D, P, A, X, G
  <2>2. B - A + Worth(new) - Worth(old) = R + D - P + e
    BY <1>3, <1>4, <1>7, <2>1
  <2> QED
    BY <2>2 DEF A, B, R, D, P
<1>10. 2 * e <= 2 * s + Slack(old, new) /\ -(2 * s + Slack(old, new)) <= 2 * e
  <2>1. Slack(old, new) \in Nat
    BY <1>6 DEF Slack
  <2> QED
    BY <1>1, <1>5, <2>1
<1>11. 2 * Abs(Drift(b, fees) - Drift(a, fees)) <= RoundingOf(a, b)
  BY <1>2, <1>9, <1>10, BalancedIf DEF s, old, new
<1> QED
  BY <1>11 DEF b

(* Every corporate action is balanced; it leaves the fees alone.           *)
LEMMA ActionIsBalanced ==
    ASSUME TypeOK, NEW i \in Instruments, ActionStep(i)
    PROVE  Balanced
<1>1. acct \in Account /\ totalFees \in Int
  BY DEF TypeOK
<1>2. totalFees' = totalFees
  BY DEF ActionStep, Split, Dividend, Delisting, ApplyAction
<1>3. ASSUME NEW ratio \in SplitRatios, Split(i, ratio)
      PROVE  Balanced
  <2> DEFINE num == ratio[1]
             den == ratio[2]
  <2>1. num \in Nat \ {0} /\ den \in Nat \ {0}
    BY ActionsAssumption
  <2>2. acct' = ApplySplit(acct, i, num, den)
    BY <1>3 DEF Split, ApplyAction
  <2> HIDE DEF num, den
  <2> QED
    BY <1>1, <1>2, <2>1, <2>2, SplitIsBalanced DEF Balanced
<1>4. ASSUME NEW amount \in DividendAmounts, Dividend(i, amount)
      PROVE  Balanced
  <2>1. amount \in Nat /\ acct' = PayDividend(acct, i, amount)
    BY <1>4, ActionsAssumption DEF Dividend, ApplyAction
  <2> QED
    BY <1>1, <1>2, <2>1, DividendIsBalanced DEF Balanced
<1>5. ASSUME NEW price \in DelistingAmounts, Delisting(i, price)
      PROVE  Balanced
  <2>1. price \in Nat /\ acct' = SettleDelisting(acct, i, price)
    BY <1>5, ActionsAssumption DEF Delisting, ApplyAction
  <2> QED
    BY <1>1, <1>2, <2>1, DelistingIsBalanced DEF Balanced
<1> QED
  BY <1>3, <1>4, <1>5 DEF ActionStep

(* Every order that does not raise is balanced, with the fees it costs.    *)
LEMMA OrderIsBalanced ==
    ASSUME TypeOK, PhaseInv, NEW o \in pending, OrderStep(o), error' = NoError,
           ~UNCHANGED <<acct, totalFees>>
    PROVE  Balanced
<1> DEFINE bar == bars[o.inst]
           fill == FillOf(o, bar, session)
<1>1. o \in Order /\ o.inst \in Instruments
  BY DEF TypeOK, Order
<1>2. acct \in Account /\ totalFees \in Int
  BY DEF TypeOK
<1>3. FillBuy(o) \/ FillSell(o)
  <2>1. ~OversellRaises(o)
    BY <1>1 DEF OversellRaises, Order, NoError
  <2> QED
    BY <2>1 DEF OrderStep, RejectOrder, DeferOrder
<1>4. fill \in Fill /\ fill.inst = o.inst /\ (o.side = "buy" => fill.price \in Nat)
  <2>1. IsFilled(bar) /\ phase \in {"actions", "orders"}
    BY <1>3 DEF FillBuy, FillSell, FillOrder, Process
  <2>2. bar \in Bar /\ MaxExecutableQty(bar.volume) > 0
    BY <1>1, <2>1, BarType DEF IsFilled
  <2>3. session \in 1 .. NumSessions
    BY <2>1 DEF PhaseInv
  <2>4. fill.inst = o.inst
    BY DEF FillOf
  <2> QED
    BY <1>1, <2>2, <2>3, <2>4, FillType
<1>5. totalFees' = totalFees + fill.fees
  BY <1>3 DEF FillBuy, FillSell, FillOrder
<1>6. CASE FillBuy(o)
  <2>1. acct' = ApplyBuyFill(acct, fill) /\ fill.price \in Nat
    BY <1>4, <1>6 DEF FillBuy, FillOrder
  <2> HIDE DEF fill
  <2> QED
    BY <1>2, <1>4, <1>5, <2>1, BuyIsBalanced DEF Balanced
<1>7. CASE FillSell(o)
  <2>1. acct' = ApplySellFill(acct, fill) /\ CanSell(acct, fill.inst, fill.qty)
    BY <1>4, <1>7 DEF FillSell, FillOrder, FillOf
  <2> HIDE DEF fill
  <2> QED
    BY <1>2, <1>4, <1>5, <2>1, SellIsBalanced DEF Balanced
<1> QED
  BY <1>3, <1>6, <1>7

(* Every step that moves cash moves positions, result or dividends by the  *)
(* same value, up to the rounding of that one step.                        *)
(* (accounting.py: apply_fill; ledger.py; corporate_actions.py)            *)
THEOREM BooksBalance == Spec => DoubleEntry
<1>1. ASSUME IInv, [Next]_vars
      PROVE  [error' = NoError => Balanced]_<<acct, totalFees>>
  <2>1. SUFFICES ASSUME Next, error' = NoError, ~UNCHANGED <<acct, totalFees>>
                 PROVE  Balanced
    BY <1>1 DEF vars
  <2>2. TypeOK /\ PhaseInv
    BY <1>1 DEF IInv
  <2>3. (\E i \in Instruments : ActionStep(i)) \/ (\E o \in pending : OrderStep(o))
    BY <2>1 DEF Next, ActionStep, OrderStep, OpenSession, MarkPosition, EndOpen, EndClose,
                Rebalance
  <2> QED
    BY <2>1, <2>2, <2>3, ActionIsBalanced, OrderIsBalanced
<1> QED
  BY <1>1, Invariance, PTL DEF Spec, DoubleEntry

-----------------------------------------------------------------------------
(* Marking to market.                                                      *)

(* Without splits a corporate action leaves the lots alone or empties one. *)
LEMMA ActionKeepsLots ==
    ASSUME SplitRatios = {}, TypeOK, NEW i \in Instruments, ActionStep(i)
    PROVE  \A j \in Instruments : acct'.lots[j].qty > 0 => acct'.lots[j] = acct.lots[j]
<1>1. acct \in Account
  BY DEF TypeOK
<1>2. ASSUME NEW amount \in DividendAmounts, Dividend(i, amount)
      PROVE  acct'.lots = acct.lots
  <2>1. amount \in Nat /\ acct' = PayDividend(acct, i, amount)
    BY <1>2, ActionsAssumption DEF Dividend, ApplyAction
  <2> QED
    BY <1>1, <2>1, DividendAccount
<1>3. ASSUME NEW price \in DelistingAmounts, Delisting(i, price)
      PROVE  /\ acct'.lots[i].qty = 0
             /\ \A j \in Instruments \ {i} : acct'.lots[j] = acct.lots[j]
  <2>1. price \in Nat /\ acct' = SettleDelisting(acct, i, price)
    BY <1>3, ActionsAssumption DEF Delisting, ApplyAction
  <2> QED
    BY <1>1, <2>1, DelistingAccount
<1> QED
  BY <1>2, <1>3 DEF ActionStep

(* A position without a bar is marked at its last observed close.          *)
LEMMA MarkWithoutBar ==
    ASSUME TypeOK, PriceInv, phase = "marking", NEW i \in Instruments,
           acct.lots[i].qty > 0, bars[i] = NoBar
    PROVE  MarketValue(acct.lots[i], CloseOf(i), lastKnown[i]) = CarriedValue(i)
BY DEF PriceInv, CloseOf, NoPrice, MarkPrice, MarketValue, CarriedValue

(* With a bar it is marked at the close that becomes the last observed.    *)
LEMMA MarkWithBar ==
    ASSUME TypeOK, NEW i \in Instruments, bars[i] # NoBar
    PROVE  MarketValue(acct.lots[i], CloseOf(i), lastKnown[i])
               = Cash(acct.lots[i].qty * bars[i].close)
<1>1. bars[i].close > NoPrice
  BY BarType DEF Bar, NoPrice
<1> QED
  BY <1>1 DEF CloseOf, MarkPrice, MarketValue

(* Every step preserves what the marks are.                                *)
LEMMA MarksStep ==
    ASSUME SplitRatios = {}, TypeOK, PhaseInv, PriceInv, MarksInv, [Next]_vars
    PROVE  MarksInv'
<1>1. ASSUME NEW b \in [Instruments -> BarValues \cup {NoBar}], OpenSession(b)
      PROVE  MarksInv'
  BY <1>1 DEF OpenSession, MarksInv, CarriedValue, markVars, OpenPhases
<1>2. ASSUME NEW i \in Instruments, ActionStep(i)
      PROVE  MarksInv'
  <2>1. /\ \A j \in Instruments : acct'.lots[j].qty > 0 => acct'.lots[j] = acct.lots[j]
        /\ phase = "actions"
        /\ UNCHANGED <<phase, bars, lastKnown, marks, unmarked>>
    BY <1>2, ActionKeepsLots, ActionShape DEF markVars
  <2> QED
    BY <2>1 DEF MarksInv, CarriedValue, OpenPhases
<1>3. ASSUME NEW o \in pending, OrderStep(o)
      PROVE  MarksInv'
  <2>1. /\ phase \in {"actions", "orders"} /\ phase' \in {"orders", "failed"}
        /\ UNCHANGED <<bars, lastKnown, marks, unmarked>>
    BY <1>3, OrderShape DEF markVars
  <2>2. /\ \A j \in Instruments \ {o.inst} : acct'.lots[j] = acct.lots[j]
        /\ bars[o.inst] = NoBar => acct' = acct
    BY <1>3, OrderAccount
  <2>3. \A j \in Instruments : bars[j] = NoBar => acct'.lots[j] = acct.lots[j]
    BY <2>2
  <2> QED
    BY <2>1, <2>3 DEF MarksInv, CarriedValue, OpenPhases
<1>4. CASE EndOpen
  <2>1. phase \in {"actions", "orders"} /\ phase' = "marking" /\ unmarked' = Instruments
        /\ UNCHANGED <<bars, lastKnown, marks, acct>>
    BY <1>4 DEF EndOpen, marketVars
  <2> QED
    BY <2>1 DEF MarksInv, CarriedValue, OpenPhases
<1>5. ASSUME NEW i \in Instruments, MarkPosition(i)
      PROVE  MarksInv'
  <2>1. /\ marks' = [marks EXCEPT ![i] = MarketValue(acct.lots[i], CloseOf(i), lastKnown[i])]
        /\ phase = "marking" /\ unmarked' = unmarked \ {i}
        /\ UNCHANGED <<phase, bars, lastKnown, acct>>
        /\ marks \in [Instruments -> Int]
    BY <1>5 DEF MarkPosition, marketVars, TypeOK
  <2>2. /\ marks'[i] = MarketValue(acct.lots[i], CloseOf(i), lastKnown[i])
        /\ \A j \in Instruments \ {i} : marks'[j] = marks[j]
    BY <2>1
  <2>3. \A j \in Instruments : /\ CarriedValue(j)' = CarriedValue(j)
                               /\ MarketValue(acct.lots[j], CloseOf(j), lastKnown[j])'
                                     = MarketValue(acct.lots[j], CloseOf(j), lastKnown[j])
    BY <2>1 DEF CarriedValue, MarketValue, MarkPrice, CloseOf
  <2>4. i \notin unmarked' /\ \A j \in Instruments \ {i} : j \in unmarked' <=> j \in unmarked
    BY <2>1
  <2> QED
    BY <2>1, <2>2, <2>3, <2>4 DEF MarksInv, OpenPhases
<1>6. CASE EndClose
  <2>1. /\ phase = "marking" /\ unmarked = {} /\ phase' \in {"rebalance", "next", "done"}
        /\ UNCHANGED <<bars, marks, acct>>
        /\ \A j \in Instruments :
              lastKnown'[j] = IF bars[j] = NoBar THEN lastKnown[j] ELSE bars[j].close
    BY <1>6 DEF EndClose, marketVars, AfterSession
  <2>2. ASSUME NEW j \in Instruments, acct.lots[j].qty > 0
        PROVE  marks'[j] = CarriedValue(j)'
    <3>1. marks[j] = MarketValue(acct.lots[j], CloseOf(j), lastKnown[j])
      BY <2>1, <2>2 DEF MarksInv
    <3> QED
      BY <2>1, <2>2, <3>1, MarkWithoutBar, MarkWithBar DEF CarriedValue
  <2> QED
    BY <2>1, <2>2 DEF MarksInv, OpenPhases
<1>7. ASSUME NEW w \in TargetWeights, Rebalance(w)
      PROVE  MarksInv'
  <2>1. phase = "rebalance" /\ phase' \in {"next", "done"}
        /\ UNCHANGED <<bars, lastKnown, marks, acct>>
    BY <1>7 DEF Rebalance, AfterSession, marketVars, markVars
  <2> QED
    BY <2>1 DEF MarksInv, CarriedValue, OpenPhases
<1>8. CASE UNCHANGED vars
  BY <1>8 DEF vars, MarksInv, CarriedValue, MarketValue, CloseOf
<1> QED
  BY <1>1, <1>2, <1>3, <1>4, <1>5, <1>6, <1>7, <1>8 DEF Next, ActionStep, OrderStep

(* In a market without splits a position whose instrument has no bar keeps *)
(* its value through every close, whatever was deferred, paid out or       *)
(* delisted around it.  (marking.py; engine.py: last_known_prices)         *)
THEOREM PositionsAreCarried == ASSUME SplitRatios = {} PROVE Spec => CarriedAtSameValue
<1>1. Init => IInv /\ MarksInv
  <2>1. Init => \A i \in Instruments : acct.lots[i].qty = 0
    BY DEF Init, NewAccount
  <2> QED
    BY <2>1, InitInv DEF MarksInv
<1>2. IInv /\ MarksInv /\ [Next]_vars => MarksInv'
  BY MarksStep DEF IInv
<1>3. ASSUME IInv, MarksInv, [Next]_vars
      PROVE  [\A i \in Instruments :
                 marks'[i] # marks[i] => bars[i] # NoBar \/ acct.lots[i].qty = 0]_marks
  <2>1. SUFFICES ASSUME NEW i \in Instruments, marks'[i] # marks[i], bars[i] = NoBar,
                        acct.lots[i].qty # 0
                 PROVE  FALSE
    OBVIOUS
  <2>2. acct.lots[i].qty > 0 /\ TypeOK /\ PriceInv
    BY <1>3, <2>1 DEF IInv, TypeOK, Account, Lot
  <2>3. PICK j \in Instruments : MarkPosition(j)
    BY <1>3, <2>1 DEF Next, OpenSession, Split, Dividend, Delisting, ApplyAction, RejectOrder,
                      DeferOrder, FillBuy, FillSell, FillOrder, OversellRaises, EndOpen,
                      EndClose, Rebalance, markVars, vars
  <2>4. /\ marks' = [marks EXCEPT ![j] = MarketValue(acct.lots[j], CloseOf(j), lastKnown[j])]
        /\ phase = "marking" /\ j \in unmarked /\ marks \in [Instruments -> Int]
    BY <2>2, <2>3 DEF MarkPosition, TypeOK
  <2>5. i = j /\ marks'[i] = MarketValue(acct.lots[i], CloseOf(i), lastKnown[i])
    BY <2>1, <2>4
  <2>6. marks[i] = CarriedValue(i)
    BY <1>3, <2>1, <2>2, <2>4, <2>5 DEF MarksInv
  <2> QED
    BY <2>1, <2>2, <2>4, <2>5, <2>6, MarkWithoutBar
<1> QED
  BY <1>1, <1>2, <1>3, Invariance, PTL DEF Spec, CarriedAtSameValue
=============================================================================
