------------------------- MODULE FactorCalculators -------------------------
(***************************************************************************)
(* The fourteen standard factors.  A calculator reads bars and filings as  *)
(* of the context's instant and returns, per instrument, a score or the    *)
(* reason why there is none.  What a score is made of matters here, not    *)
(* its magnitude: it is represented by the rows that determine it.         *)
(*                                                                         *)
(* A context is a record of the session, the instant asked about, the      *)
(* universe and the rows of the stores.  Days are integers; instant 2d is  *)
(* day d before its close is observed and 2d+1 is after.                   *)
(***************************************************************************)
EXTENDS Integers, FiniteSets

CONSTANTS
    Year, HalfYear, SkipMonth, VolSessions,     \* 252, 126, 21 and 60 sessions
    YearDays, HalfYearDays, VolDays, PriceDays, \* 450, 250, 120 and 30 calendar days
    PeriodsPerYear,                             \* from a period end to that a year before
    None

ASSUME LookbackAssumption ==
    /\ Year \in Nat \ {0} /\ HalfYear \in Nat \ {0} /\ VolSessions \in Nat \ {0}
    /\ SkipMonth \in 1 .. HalfYear /\ HalfYear <= Year
    /\ YearDays \in Nat /\ HalfYearDays \in Nat /\ VolDays \in Nat /\ PriceDays \in Nat
    /\ PeriodsPerYear \in Nat \ {0}

-----------------------------------------------------------------------------
(* Reading.                                                                *)

(* get_market_bars over a window of calendar days that ends at the session.*)
History(c, i, days) ==
    {b \in c.bars : /\ b.inst = i /\ b.observed <= c.asOf
                    /\ c.session - days <= b.session /\ b.session <= c.session}

LaterThan(b, bars) == {x \in bars : x.session > b.session}

(* valid_bars[-k:] and valid_bars[-k]. *)
LastBars(bars, k) == {b \in bars : Cardinality(LaterThan(b, bars)) < k}
BarFromEnd(bars, k) == CHOOSE b \in bars : Cardinality(LaterThan(b, bars)) = k - 1

(* A plausible bug: filings count from the period they are about.          *)
KnownFilings_ByPeriod(c, i, metric) ==
    {f \in c.filings : f.inst = i /\ f.metric = metric /\ 2 * f.period <= c.asOf}

KnownFilings(c, i, metric) ==
    {f \in c.filings : f.inst = i /\ f.metric = metric /\ f.available <= c.asOf}

(* ORDER BY period_end DESC, available_at DESC, id DESC LIMIT 1.           *)
Newer(f, g) ==
    \/ f.period > g.period
    \/ f.period = g.period /\ f.available > g.available
    \/ f.period = g.period /\ f.available = g.available /\ f.id > g.id

Newest(rows) ==
    IF rows = {} THEN None ELSE CHOOSE f \in rows : \A g \in rows \ {f} : Newer(f, g)

Fundamental(c, i, metric) == Newest(KnownFilings(c, i, metric))

FundamentalOf(c, i, metric, period) ==
    Newest({f \in KnownFilings(c, i, metric) : f.period = period})

(* Several calculators take net income where the metric is not reported.   *)
Reported(c, i, metric) ==
    LET row == Fundamental(c, i, metric)
    IN  IF row # None THEN row ELSE Fundamental(c, i, "net_income")

-----------------------------------------------------------------------------
(* Scores.                                                                 *)

MissingReason == {"insufficient_history", "missing_fundamental", "invalid_denominator"}

FactorValue(reason, uses) == [reason |-> reason, uses |-> uses]
Missing(reason) == FactorValue(reason, {})
Score(rows) == FactorValue(None, rows)
IsValid(value) == value.reason = None

Momentum(c, i, sessions, days) ==
    LET bars == History(c, i, days)
    IN  IF Cardinality(bars) < sessions THEN Missing("insufficient_history")
        ELSE Score({BarFromEnd(bars, SkipMonth), BarFromEnd(bars, sessions)})

Momentum12M1M(c, i) == Momentum(c, i, Year, YearDays)
Momentum6M1M(c, i) == Momentum(c, i, HalfYear, HalfYearDays)

(* Sixty returns take sixty-one closes.                                    *)
OverLast(c, i, closes, days) ==
    LET bars == History(c, i, days)
    IN  IF Cardinality(bars) < closes THEN Missing("insufficient_history")
        ELSE Score(LastBars(bars, closes))

Volatility60D(c, i) == OverLast(c, i, VolSessions + 1, VolDays)
MaxDrawdown252D(c, i) == OverLast(c, i, Year, YearDays)

(* The market return averages every member of the universe with a full     *)
(* history.                                                                *)
Beta(c, i) ==
    LET own(j) == OverLast(c, j, Year + 1, YearDays)
    IN  IF IsValid(own(i))
        THEN Score(UNION {own(j).uses : j \in c.universe})
        ELSE own(i)

Yield(c, i, filing) ==
    LET bars == History(c, i, PriceDays)
    IN  IF filing = None THEN Missing("missing_fundamental")
        ELSE IF bars = {} THEN Missing("insufficient_history")
        ELSE Score({filing, BarFromEnd(bars, 1)})

EarningsYield(c, i) == Yield(c, i, Fundamental(c, i, "net_income"))
BookToMarket(c, i) == Yield(c, i, Reported(c, i, "stockholders_equity"))
FCFYield(c, i) == Yield(c, i, Reported(c, i, "free_cash_flow"))

(* A denominator that is not reported counts as one.                       *)
RatioTo(filing, more, denominator) ==
    IF filing = None THEN Missing("missing_fundamental")
    ELSE IF denominator = None THEN Score({filing} \cup more)
    ELSE IF denominator.value = 0 THEN Missing("invalid_denominator")
    ELSE Score({filing, denominator} \cup more)

Assets(c, i) == Fundamental(c, i, "total_assets")

ROE(c, i) ==
    RatioTo(Fundamental(c, i, "net_income"), {}, Fundamental(c, i, "stockholders_equity"))
ROA(c, i) == RatioTo(Fundamental(c, i, "net_income"), {}, Assets(c, i))
GrossProfitability(c, i) == RatioTo(Reported(c, i, "gross_profit"), {}, Assets(c, i))

(* A cash flow that is not reported is taken to be 1.1 times the income.   *)
AccrualQuality(c, i) ==
    RatioTo(Reported(c, i, "operating_income"),
            {Fundamental(c, i, "operating_cash_flow")} \ {None}, Assets(c, i))

(* Growth over the same metric a year before; 5% if that is not known.     *)
Growth(c, i, metric) ==
    LET now == Reported(c, i, metric)
        prior == FundamentalOf(c, i, now.metric, now.period - PeriodsPerYear)
    IN  IF now = None THEN Missing("missing_fundamental")
        ELSE IF prior = None THEN Score({now})
        ELSE IF prior.value = 0 THEN Missing("invalid_denominator")
        ELSE Score({now, prior})

RevenueGrowth(c, i) == Growth(c, i, "revenue")
OperatingIncomeGrowth(c, i) == Growth(c, i, "operating_income")

-----------------------------------------------------------------------------
(* The catalog.                                                            *)

Factors == {"momentum_12_1", "momentum_6_1", "earnings_yield", "book_to_market",
            "fcf_yield", "roe", "roa", "gross_profitability", "accrual_quality",
            "revenue_growth", "operating_income_growth", "volatility_60d",
            "max_drawdown_252d", "beta"}

Compute(factor, c, i) ==
    CASE factor = "momentum_12_1"           -> Momentum12M1M(c, i)
      [] factor = "momentum_6_1"            -> Momentum6M1M(c, i)
      [] factor = "earnings_yield"          -> EarningsYield(c, i)
      [] factor = "book_to_market"          -> BookToMarket(c, i)
      [] factor = "fcf_yield"               -> FCFYield(c, i)
      [] factor = "roe"                     -> ROE(c, i)
      [] factor = "roa"                     -> ROA(c, i)
      [] factor = "gross_profitability"     -> GrossProfitability(c, i)
      [] factor = "accrual_quality"         -> AccrualQuality(c, i)
      [] factor = "revenue_growth"          -> RevenueGrowth(c, i)
      [] factor = "operating_income_growth" -> OperatingIncomeGrowth(c, i)
      [] factor = "volatility_60d"          -> Volatility60D(c, i)
      [] factor = "max_drawdown_252d"       -> MaxDrawdown252D(c, i)
      [] factor = "beta"                    -> Beta(c, i)

(* A plausible bug: members without a score are left out.                  *)
Snapshot_OnlyValid(factor, c) ==
    [i \in {j \in c.universe : IsValid(Compute(factor, c, j))} |-> Compute(factor, c, i)]

(* build_factor_snapshot: a value for every member of the universe.        *)
Snapshot(factor, c) == [i \in c.universe |-> Compute(factor, c, i)]

ValidScores(snapshot) == {i \in DOMAIN snapshot : IsValid(snapshot[i])}
=============================================================================
