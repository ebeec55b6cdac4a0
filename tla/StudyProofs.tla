----------------------------- MODULE StudyProofs -----------------------------
(***************************************************************************)
(* Studies for any names, datasets, filings, requests and window sizes:    *)
(* the walk-forward splitter (quantlab/ml/walk_forward.py), what a factor  *)
(* score is made of (quantlab/factors/), and the panel, the comparison and *)
(* its control (application/factor_research.py and models.py).             *)
(***************************************************************************)
EXTENDS Study, FiniteSetTheorems, TLAPS

-----------------------------------------------------------------------------
(* Counting.                                                               *)

(* The elements a strict total order puts before s.                        *)
Before(S, R, s) == {x \in S : <<x, s>> \in R}

TotalOrder(S, R) ==
    /\ \A x \in S : <<x, x>> \notin R
    /\ \A x, y \in S : x # y => <<x, y>> \in R \/ <<y, x>> \in R
    /\ \A x, y, z \in S : <<x, y>> \in R /\ <<y, z>> \in R => <<x, z>> \in R

(* What comes first has fewer before it.                                   *)
LEMMA RankIncreases ==
    ASSUME NEW S, NEW R, IsFiniteSet(S), TotalOrder(S, R),
           NEW s \in S, NEW t \in S, <<s, t>> \in R
    PROVE  /\ Cardinality(Before(S, R, s)) \in Nat
           /\ Cardinality(Before(S, R, t)) \in Nat
           /\ Cardinality(Before(S, R, s)) < Cardinality(Before(S, R, t))
<1> DEFINE A == Before(S, R, s)
           B == Before(S, R, t)
<1>1. A \subseteq B /\ A # B
  BY DEF Before, TotalOrder
<1>2. IsFiniteSet(B) /\ IsFiniteSet(A)
  <2>1. A \in SUBSET S /\ B \in SUBSET S
    BY DEF Before
  <2> QED
    BY <2>1, FS_Subset
<1>3. Cardinality(A) <= Cardinality(B) /\ Cardinality(A) # Cardinality(B)
  <2>1. A \in SUBSET B
    BY <1>1
  <2> QED
    BY <1>1, <1>2, <2>1, FS_Subset
<1>4. Cardinality(A) \in Nat /\ Cardinality(B) \in Nat
  BY <1>2, FS_CardinalityType
<1> QED
  BY <1>3, <1>4

(* A finite strict total order has an element at each position, whatever   *)
(* the position is counted from (valid_bars[-k], sessions[k], LIMIT 1).    *)
LEMMA Enumeration ==
    ASSUME NEW S, NEW R, IsFiniteSet(S), TotalOrder(S, R),
           NEW k \in 0 .. Cardinality(S) - 1
    PROVE  \E s \in S : Cardinality(Before(S, R, s)) = k
<1> DEFINE n == Cardinality(S)
           rank == [s \in S |-> Cardinality(Before(S, R, s))]
<1>1. n \in Nat
  BY FS_CardinalityType
<1>2. rank \in [S -> 0 .. n - 1]
  <2> SUFFICES ASSUME NEW s \in S PROVE Cardinality(Before(S, R, s)) \in 0 .. n - 1
    OBVIOUS
  <2>1. Before(S, R, s) \in SUBSET (S \ {s})
    BY DEF Before, TotalOrder
  <2>2. IsFiniteSet(S \ {s}) /\ Cardinality(S \ {s}) = n - 1
    BY FS_RemoveElement
  <2>3. /\ IsFiniteSet(Before(S, R, s))
        /\ Cardinality(Before(S, R, s)) <= Cardinality(S \ {s})
    BY <2>1, <2>2, FS_Subset
  <2>4. Cardinality(Before(S, R, s)) \in Nat
    BY <2>3, FS_CardinalityType
  <2> QED
    BY <1>1, <2>2, <2>3, <2>4
<1>3. \A s, t \in S : s # t => rank[s] # rank[t]
  <2> SUFFICES ASSUME NEW s \in S, NEW t \in S, s # t PROVE rank[s] # rank[t]
    OBVIOUS
  <2>1. <<s, t>> \in R \/ <<t, s>> \in R
    BY DEF TotalOrder
  <2>2. CASE <<s, t>> \in R
    BY <2>2, RankIncreases
  <2>3. CASE <<t, s>> \in R
    BY <2>3, RankIncreases
  <2> QED
    BY <2>1, <2>2, <2>3
<1>4. rank \in Injection(S, 0 .. n - 1)
  BY <1>2, <1>3 DEF Injection, IsInjective
<1>5. IsFiniteSet(0 .. n - 1) /\ Cardinality(0 .. n - 1) = n
  BY <1>1, FS_Interval
<1>6. rank \in Surjection(S, 0 .. n - 1)
  BY <1>4, <1>5, FS_Injection
<1>7. PICK s \in S : rank[s] = k
  BY <1>6 DEF Surjection
<1> QED
  BY <1>7

-----------------------------------------------------------------------------
(* The splitter.                                                           *)

(* Every index of a fold names one of the n periods, and no fold is        *)
(* trained on less than min_train_sessions (split: the loop's bound and    *)
(* the length check before a fold is yielded).                             *)
THEOREM FoldsInRange ==
    ASSUME NEW n \in Nat, NEW t \in TestStarts(n)
    PROVE  /\ TrainIndices(t) \subseteq 0 .. n - 1
           /\ TestIndices(t) \subseteq 0 .. n - 1
           /\ TrainEnd(t) - TrainStart(t) >= MinTrain
<1>1. t \in Int /\ MinTrain + Purge <= t /\ t <= n - TestWindow
  BY WalkForwardAssumption DEF TestStarts
<1>2. TrainStart(t) \in Nat /\ TrainEnd(t) \in Nat /\ TrainEnd(t) <= t
  BY <1>1, WalkForwardAssumption DEF TrainStart, TrainEnd
<1>3. TrainIndices(t) \subseteq 0 .. n - 1
  BY <1>1, <1>2, WalkForwardAssumption DEF TrainIndices
<1>4. TestIndices(t) \subseteq 0 .. n - 1
  BY <1>1, WalkForwardAssumption DEF TestIndices
<1> QED
  BY <1>3, <1>4 DEF TestStarts

(* Between the last period a model is trained on and the first it is       *)
(* tested on lie at least purge_sessions others (split: "train_end =       *)
(* test_start - purge").  Study.TrainingLabelsResolveInTime rests          *)
(* on this distance.                                                       *)
THEOREM TrainEndsBeforeTest ==
    ASSUME NEW n \in Nat, NEW t \in TestStarts(n),
           NEW i \in TrainIndices(t), NEW j \in TestIndices(t)
    PROVE  i + Purge < j
<1>1. t \in Int
  BY WalkForwardAssumption DEF TestStarts
<1>2. i \in Int /\ i <= t - Purge - 1
  BY <1>1, WalkForwardAssumption DEF TrainIndices, TrainStart, TrainEnd
<1>3. j \in Int /\ t <= j
  BY <1>1, WalkForwardAssumption DEF TestIndices
<1> QED
  BY <1>1, <1>2, <1>3, WalkForwardAssumption

(* Multiples of a step that differ lie a step apart.                       *)
LEMMA MultiplesApart ==
    ASSUME NEW s \in Nat \ {0}, NEW p \in Nat, NEW q \in Nat, p < q
    PROVE  s * p + s <= s * q
<1>1. PICK d \in Nat : q = p + 1 + d
  <2>1. q - p - 1 \in Nat /\ q = p + 1 + (q - p - 1)
    OBVIOUS
  <2> QED
    BY <2>1
<1>2. s * q = s * p + s + s * d
  BY <1>1
<1>3. s * d \in Nat /\ s * p \in Nat
  OBVIOUS
<1> QED
  BY <1>2, <1>3

(* When the step is no shorter than the test window, no period is tested   *)
(* in two folds (split: "test_start += step"), so no period weighs twice   *)
(* in a mean over folds.  Study.TestedOnce rests on this; a                *)
(* configuration with a shorter step tests periods repeatedly.             *)
THEOREM TestBlocksDisjoint ==
    ASSUME NEW n \in Nat, StepSize >= TestWindow,
           NEW t \in TestStarts(n), NEW u \in TestStarts(n), t # u
    PROVE  TestIndices(t) \cap TestIndices(u) = {}
<1> DEFINE c == MinTrain + Purge
           Apart(a, b) == a + StepSize <= b
<1>1. /\ t \in Int /\ u \in Int /\ c \in Int /\ c <= t /\ c <= u
      /\ (t - c) % StepSize = 0 /\ (u - c) % StepSize = 0
  BY WalkForwardAssumption DEF TestStarts
<1>2. ASSUME NEW a \in Int, c <= a, (a - c) % StepSize = 0
      PROVE  \E p \in Nat : a - c = StepSize * p
  <2>1. a - c \in Nat /\ StepSize \in Nat \ {0}
    BY <1>1, <1>2, WalkForwardAssumption
  <2>2. PICK x \in Nat : x = a - c
    BY <2>1
  <2>3. x = StepSize * (x \div StepSize) + (x % StepSize) /\ x \div StepSize \in Nat
    BY <2>1
  <2>4. StepSize * (x \div StepSize) \in Nat
    BY <2>1, <2>3
  <2> QED
    BY <1>2, <2>2, <2>3, <2>4
<1>3. PICK p \in Nat : t - c = StepSize * p
  BY <1>1, <1>2
<1>4. PICK q \in Nat : u - c = StepSize * q
  BY <1>1, <1>2
<1>5. p # q
  BY <1>1, <1>3, <1>4
<1>6. Apart(t, u) \/ Apart(u, t)
  <2>1. CASE p < q
    <3>1. StepSize * p + StepSize <= StepSize * q
      BY <2>1, MultiplesApart, WalkForwardAssumption
    <3>2. StepSize * p \in Int /\ StepSize * q \in Int
      BY WalkForwardAssumption
    <3> QED
      BY <1>1, <1>3, <1>4, <3>1, <3>2, WalkForwardAssumption
  <2>2. CASE q < p
    <3>1. StepSize * q + StepSize <= StepSize * p
      BY <2>2, MultiplesApart, WalkForwardAssumption
    <3>2. StepSize * p \in Int /\ StepSize * q \in Int
      BY WalkForwardAssumption
    <3> QED
      BY <1>1, <1>3, <1>4, <3>1, <3>2, WalkForwardAssumption
  <2> QED
    BY <1>5, <2>1, <2>2
<1> QED
  BY <1>1, <1>6, WalkForwardAssumption DEF TestIndices

-----------------------------------------------------------------------------
(* What a score is made of.                                                *)

(* A context as the study makes them.                                      *)
ContextOK(c) ==
    /\ c.bars \in Datasets
    /\ c.filings \subseteq Filings /\ IsFiniteSet(c.filings)
    /\ c.universe = Instruments
    /\ c.session \in Nat /\ c.asOf \in Nat

(* The rows the world had seen at the context's instant.                   *)
KnownRows(c) ==
    {b \in c.bars : b.observed <= c.asOf} \cup {f \in c.filings : f.available <= c.asOf}

(* A value with a known reason, made of known rows.                        *)
SoundValue(value, c) ==
    value.reason \in MissingReason \cup {None} /\ value.uses \subseteq KnownRows(c)

(* A history is finite and has one bar a session, all of them observed.    *)
LEMMA HistoryKnown ==
    ASSUME NEW c, ContextOK(c), NEW i, NEW days \in Nat
    PROVE  /\ IsFiniteSet(History(c, i, days))
           /\ History(c, i, days) \subseteq KnownRows(c) \cap BarRecord
           /\ \A b, e \in History(c, i, days) : b.session = e.session => b = e
<1> DEFINE H == History(c, i, days)
           window == c.session - days .. c.session
           day == [b \in H |-> b.session]
<1>1. H \subseteq KnownRows(c) \cap BarRecord
  BY DatasetAssumption DEF History, KnownRows, ContextOK
<1>2. \A b, e \in H : b.session = e.session => b = e
  BY DatasetAssumption DEF History, ContextOK
<1>3. day \in [H -> window]
  <2> SUFFICES ASSUME NEW b \in H PROVE b.session \in window
    OBVIOUS
  <2>1. b.session \in Nat
    BY <1>1 DEF BarRecord
  <2> QED
    BY <2>1 DEF History, ContextOK
<1>4. day \in Injection(H, window)
  BY <1>2, <1>3 DEF Injection, IsInjective
<1>5. IsFiniteSet(window)
  <2> DEFINE first == c.session - days
             last == c.session
  <2>1. first \in Int /\ last \in Int
    BY DEF ContextOK
  <2>2. window = first .. last
    OBVIOUS
  <2> HIDE DEF first, last, window
  <2> QED
    BY <2>1, <2>2, FS_Interval
<1>6. IsFiniteSet(H)
  BY <1>4, <1>5, FS_Injection
<1> HIDE DEF H
<1> QED
  BY <1>1, <1>2, <1>6 DEF H

(* valid_bars[-k] is one of at least k bars.                               *)
LEMMA BarFromEndIsThere ==
    ASSUME NEW rows, rows \subseteq BarRecord, IsFiniteSet(rows),
           \A b, e \in rows : b.session = e.session => b = e,
           NEW k \in Nat \ {0}, k <= Cardinality(rows)
    PROVE  BarFromEnd(rows, k) \in rows
<1> DEFINE R == {x \in rows \X rows : x[1].session > x[2].session}
<1>0. \A b \in rows : b.session \in Nat
  BY DEF BarRecord
<1>1. TotalOrder(rows, R)
  BY <1>0 DEF TotalOrder
<1>2. Cardinality(rows) \in Nat
  BY FS_CardinalityType
<1>3. k - 1 \in 0 .. Cardinality(rows) - 1
  BY <1>2
<1>4. PICK b \in rows : Cardinality(Before(rows, R, b)) = k - 1
  BY <1>1, <1>3, Enumeration
<1>5. Before(rows, R, b) = LaterThan(b, rows)
  BY DEF Before, LaterThan
<1> QED
  BY <1>4, <1>5 DEF BarFromEnd

(* The newest of some filings is one of them.                              *)
LEMMA NewestIsThere ==
    ASSUME NEW rows, rows \subseteq Filings, IsFiniteSet(rows), rows # {}
    PROVE  Newest(rows) \in rows
<1> DEFINE R == {x \in rows \X rows : Newer(x[1], x[2])}
<1>1. \A f \in rows : f.period \in Int /\ f.available \in Nat /\ f.id \in Nat
  BY FilingAssumption DEF FilingRecord
<1>2. \A f, g \in rows : f # g => f.id # g.id
  BY FilingAssumption
<1>3. TotalOrder(rows, R)
  BY <1>1, <1>2 DEF TotalOrder, Newer
<1>4. Cardinality(rows) \in Nat /\ Cardinality(rows) # 0
  BY FS_CardinalityType, FS_EmptySet
<1>5. 0 \in 0 .. Cardinality(rows) - 1
  BY <1>4
<1>6. PICK f \in rows : Cardinality(Before(rows, R, f)) = 0
  BY <1>3, <1>5, Enumeration
<1>7. Before(rows, R, f) = {}
  <2>1. Before(rows, R, f) \in SUBSET rows
    BY DEF Before
  <2>2. IsFiniteSet(Before(rows, R, f))
    BY <2>1, FS_Subset
  <2> QED
    BY <1>6, <2>2, FS_EmptySet
<1>8. \A g \in rows \ {f} : Newer(f, g)
  BY <1>3, <1>7 DEF Before, TotalOrder
<1> QED
  BY <1>8 DEF Newest

(* A filing that is read was available.                                    *)
LEMMA FundamentalKnown ==
    ASSUME NEW c, ContextOK(c), NEW i, NEW metric, NEW period
    PROVE  /\ Fundamental(c, i, metric) # None => Fundamental(c, i, metric) \in KnownRows(c)
           /\ Reported(c, i, metric) # None => Reported(c, i, metric) \in KnownRows(c)
           /\ FundamentalOf(c, i, metric, period) # None
                 => FundamentalOf(c, i, metric, period) \in KnownRows(c)
<1>1. ASSUME NEW rows, rows \in SUBSET c.filings,
             \A f \in rows : f.available <= c.asOf, Newest(rows) # None
      PROVE  Newest(rows) \in KnownRows(c)
  <2>1. rows # {}
    BY <1>1 DEF Newest
  <2>2. IsFiniteSet(rows) /\ rows \subseteq Filings
    BY <1>1, FS_Subset DEF ContextOK
  <2>3. Newest(rows) \in rows
    BY <2>1, <2>2, NewestIsThere
  <2> QED
    BY <1>1, <2>3 DEF KnownRows
<1>2. ASSUME NEW m, Fundamental(c, i, m) # None
      PROVE  Fundamental(c, i, m) \in KnownRows(c)
  <2>1. KnownFilings(c, i, m) \in SUBSET c.filings
    BY DEF KnownFilings
  <2>2. \A f \in KnownFilings(c, i, m) : f.available <= c.asOf
    BY DEF KnownFilings
  <2> QED
    BY <1>1, <1>2, <2>1, <2>2 DEF Fundamental
<1>3. ASSUME FundamentalOf(c, i, metric, period) # None
      PROVE  FundamentalOf(c, i, metric, period) \in KnownRows(c)
  <2> DEFINE rows == {f \in KnownFilings(c, i, metric) : f.period = period}
  <2>1. rows \in SUBSET c.filings /\ \A f \in rows : f.available <= c.asOf
    BY DEF KnownFilings
  <2> QED
    BY <1>1, <1>3, <2>1 DEF FundamentalOf
<1> QED
  BY <1>2, <1>3 DEF Reported

(* The calculators by the way they read.                                   *)
LEMMA MomentumSound ==
    ASSUME NEW c, ContextOK(c), NEW i, NEW sessions \in Nat, SkipMonth <= sessions,
           NEW days \in Nat
    PROVE  SoundValue(Momentum(c, i, sessions, days), c)
<1> DEFINE H == History(c, i, days)
<1>1. /\ IsFiniteSet(H) /\ H \subseteq KnownRows(c) \cap BarRecord
      /\ \A b, e \in H : b.session = e.session => b = e
  BY HistoryKnown
<1>2. SkipMonth \in Nat \ {0} /\ sessions \in Nat \ {0}
  BY LookbackAssumption
<1>3. CASE Cardinality(H) < sessions
  BY <1>3 DEF Momentum, SoundValue, Missing, FactorValue, MissingReason
<1>4. CASE ~(Cardinality(H) < sessions)
  <2>1. Cardinality(H) \in Nat
    BY <1>1, FS_CardinalityType
  <2>2. SkipMonth <= Cardinality(H) /\ sessions <= Cardinality(H)
    BY <1>2, <1>4, <2>1
  <2>3. BarFromEnd(H, SkipMonth) \in H /\ BarFromEnd(H, sessions) \in H
    BY <1>1, <1>2, <2>2, BarFromEndIsThere
  <2>4. {BarFromEnd(H, SkipMonth), BarFromEnd(H, sessions)} \subseteq KnownRows(c)
    BY <1>1, <2>3
  <2> QED
    BY <1>4, <2>4 DEF Momentum, SoundValue, Score, FactorValue
<1> QED
  BY <1>3, <1>4

LEMMA OverLastSound ==
    ASSUME NEW c, ContextOK(c), NEW i, NEW closes, NEW days \in Nat
    PROVE  SoundValue(OverLast(c, i, closes, days), c)
<1>1. History(c, i, days) \subseteq KnownRows(c)
  BY HistoryKnown
<1>2. LastBars(History(c, i, days), closes) \subseteq KnownRows(c)
  BY <1>1 DEF LastBars
<1> QED
  BY <1>2 DEF OverLast, SoundValue, Missing, Score, FactorValue, MissingReason

LEMMA BetaSound ==
    ASSUME NEW c, ContextOK(c), NEW i
    PROVE  SoundValue(Beta(c, i), c)
<1> DEFINE own(j) == OverLast(c, j, Year + 1, YearDays)
<1>1. \A j : SoundValue(own(j), c)
  BY OverLastSound, LookbackAssumption
<1>2. UNION {own(j).uses : j \in c.universe} \subseteq KnownRows(c)
  BY <1>1 DEF SoundValue
<1> HIDE DEF own
<1>3. SoundValue(Score(UNION {own(j).uses : j \in c.universe}), c)
  BY <1>2 DEF SoundValue, Score, FactorValue
<1> QED
  BY <1>1, <1>3 DEF Beta, own

LEMMA YieldSound ==
    ASSUME NEW c, ContextOK(c), NEW i, NEW filing,
           filing # None => filing \in KnownRows(c)
    PROVE  SoundValue(Yield(c, i, filing), c)
<1> DEFINE H == History(c, i, PriceDays)
<1>1. CASE filing = None \/ H = {}
  BY <1>1 DEF Yield, SoundValue, Missing, FactorValue, MissingReason
<1>2. CASE filing # None /\ H # {}
  <2>1. /\ IsFiniteSet(H) /\ H \subseteq KnownRows(c) \cap BarRecord
        /\ \A b, e \in H : b.session = e.session => b = e
    BY HistoryKnown, LookbackAssumption
  <2>2. 1 <= Cardinality(H)
    BY <1>2, <2>1, FS_CardinalityType, FS_EmptySet
  <2>3. BarFromEnd(H, 1) \in H
    BY <2>1, <2>2, BarFromEndIsThere
  <2>4. {filing, BarFromEnd(H, 1)} \subseteq KnownRows(c)
    BY <1>2, <2>1, <2>3
  <2> QED
    BY <1>2, <2>4 DEF Yield, SoundValue, Score, FactorValue
<1> QED
  BY <1>1, <1>2

LEMMA RatioSound ==
    ASSUME NEW c, NEW filing, NEW more, NEW denominator,
           filing # None => filing \in KnownRows(c),
           denominator # None => denominator \in KnownRows(c),
           more \subseteq KnownRows(c)
    PROVE  SoundValue(RatioTo(filing, more, denominator), c)
<1>1. filing # None => {filing} \cup more \subseteq KnownRows(c)
  OBVIOUS
<1>2. filing # None /\ denominator # None
        => {filing, denominator} \cup more \subseteq KnownRows(c)
  OBVIOUS
<1> QED
  BY <1>1, <1>2 DEF RatioTo, SoundValue, Missing, Score, FactorValue, MissingReason

LEMMA GrowthSound ==
    ASSUME NEW c, ContextOK(c), NEW i, NEW metric
    PROVE  SoundValue(Growth(c, i, metric), c)
<1> DEFINE now == Reported(c, i, metric)
           prior == FundamentalOf(c, i, now.metric, now.period - PeriodsPerYear)
<1>1. now # None => {now} \subseteq KnownRows(c)
  BY FundamentalKnown
<1>2. prior # None => prior \in KnownRows(c)
  BY FundamentalKnown
<1>3. now # None /\ prior # None => {now, prior} \subseteq KnownRows(c)
  BY <1>1, <1>2
<1> QED
  BY <1>1, <1>3 DEF Growth, SoundValue, Missing, Score, FactorValue, MissingReason

(* Every factor of the catalog, for every name, is made of rows observed   *)
(* or available at the instant it is computed for, and of nothing else     *)
(* (factors/: compute; pit_facade.py: get_market_bars, get_fundamental).   *)
THEOREM ScoresUseKnownRows ==
    ASSUME NEW c, ContextOK(c), NEW factor \in Factors, NEW i
    PROVE  SoundValue(Compute(factor, c, i), c)
<1>1. /\ Year \in Nat /\ HalfYear \in Nat /\ YearDays \in Nat /\ HalfYearDays \in Nat
      /\ VolDays \in Nat /\ SkipMonth <= HalfYear /\ SkipMonth <= Year
  BY LookbackAssumption
<1>2. SoundValue(Momentum12M1M(c, i), c) /\ SoundValue(Momentum6M1M(c, i), c)
  BY <1>1, MomentumSound DEF Momentum12M1M, Momentum6M1M
<1>3. SoundValue(Volatility60D(c, i), c) /\ SoundValue(MaxDrawdown252D(c, i), c)
  BY <1>1, OverLastSound DEF Volatility60D, MaxDrawdown252D
<1>4. /\ SoundValue(EarningsYield(c, i), c) /\ SoundValue(BookToMarket(c, i), c)
      /\ SoundValue(FCFYield(c, i), c)
  BY YieldSound, FundamentalKnown DEF EarningsYield, BookToMarket, FCFYield
<1>5. /\ SoundValue(ROE(c, i), c) /\ SoundValue(ROA(c, i), c)
      /\ SoundValue(GrossProfitability(c, i), c)
  BY RatioSound, FundamentalKnown DEF ROE, ROA, GrossProfitability, Assets
<1>6. SoundValue(AccrualQuality(c, i), c)
  <2>1. {Fundamental(c, i, "operating_cash_flow")} \ {None} \subseteq KnownRows(c)
    BY FundamentalKnown
  <2> QED
    BY <2>1, RatioSound, FundamentalKnown DEF AccrualQuality, Assets
<1>7. SoundValue(RevenueGrowth(c, i), c) /\ SoundValue(OperatingIncomeGrowth(c, i), c)
  BY GrowthSound DEF RevenueGrowth, OperatingIncomeGrowth
<1>8. SoundValue(Beta(c, i), c)
  BY BetaSound
<1> QED
  BY <1>2, <1>3, <1>4, <1>5, <1>6, <1>7, <1>8 DEF Compute, Factors

-----------------------------------------------------------------------------
(* Positions in a calendar.                                                *)

LEMMA IndexMonotone ==
    ASSUME NEW sessions, sessions \subseteq Nat, IsFiniteSet(sessions),
           NEW a \in Nat, NEW b \in Nat
    PROVE  /\ IndexOf(a, sessions) \in Nat
           /\ a <= b => IndexOf(a, sessions) <= IndexOf(b, sessions)
           /\ a \in sessions /\ a < b => IndexOf(a, sessions) < IndexOf(b, sessions)
<1> DEFINE A == {e \in sessions : e < a}
           B == {e \in sessions : e < b}
<1>0. \A e \in sessions : e \in Nat
  OBVIOUS
<1>1. IsFiniteSet(A) /\ IsFiniteSet(B)
  <2>1. A \in SUBSET sessions /\ B \in SUBSET sessions
    OBVIOUS
  <2> QED
    BY <2>1, FS_Subset
<1>2. Cardinality(A) \in Nat /\ Cardinality(B) \in Nat
  BY <1>1, FS_CardinalityType
<1>3. ASSUME a <= b PROVE Cardinality(A) <= Cardinality(B)
  <2>1. \A e \in A : e \in B
    BY <1>0, <1>3
  <2>2. A \in SUBSET B
    BY <2>1
  <2> QED
    BY <1>1, <2>2, FS_Subset
<1>4. ASSUME a \in sessions, a < b PROVE Cardinality(A) < Cardinality(B)
  <2>1. \A e \in A : e \in B
    BY <1>0, <1>4
  <2>2. a \in B /\ a \notin A
    BY <1>0, <1>4
  <2>3. A \in SUBSET B /\ A # B
    BY <2>1, <2>2
  <2> QED
    BY <1>1, <1>2, <2>3, FS_Subset
<1> QED
  BY <1>2, <1>3, <1>4 DEF IndexOf

LEMMA SessionAtIsThere ==
    ASSUME NEW sessions, sessions \subseteq Nat, IsFiniteSet(sessions),
           NEW k \in Nat, k < Cardinality(sessions)
    PROVE  /\ SessionAt(k, sessions) \in sessions
           /\ IndexOf(SessionAt(k, sessions), sessions) = k
<1> DEFINE R == {x \in sessions \X sessions : x[1] < x[2]}
<1>1. TotalOrder(sessions, R)
  BY DEF TotalOrder
<1>2. Cardinality(sessions) \in Nat
  BY FS_CardinalityType
<1>3. k \in 0 .. Cardinality(sessions) - 1
  BY <1>2
<1>4. PICK d \in sessions : Cardinality(Before(sessions, R, d)) = k
  BY <1>1, <1>3, Enumeration
<1>5. Before(sessions, R, d) = {e \in sessions : e < d}
  BY DEF Before
<1>6. IndexOf(d, sessions) = k
  BY <1>4, <1>5 DEF IndexOf
<1> QED
  BY <1>6 DEF SessionAt

LEMMA SessionsAreFinite ==
    ASSUME NEW dataset \in Datasets, NEW r \in Requests
    PROVE  /\ SessionsOf(dataset, r) \subseteq Nat
           /\ IsFiniteSet(SessionsOf(dataset, r))
<1>1. r.from \in Nat /\ r.to \in Nat
  BY RequestAssumption
<1>2. \A b \in dataset : b.session \in Nat
  BY DatasetAssumption DEF BarRecord
<1>3. SessionsOf(dataset, r) \in SUBSET (r.from .. r.to)
  BY <1>1, <1>2 DEF SessionsOf
<1>4. IsFiniteSet(r.from .. r.to)
  <2> DEFINE first == r.from
             last == r.to
  <2>1. first \in Int /\ last \in Int
    BY <1>1
  <2> HIDE DEF first, last
  <2>2. IsFiniteSet(first .. last)
    BY <2>1, FS_Interval
  <2> QED
    BY <2>2 DEF first, last
<1> QED
  BY <1>1, <1>3, <1>4, FS_Subset

(* A return is entered one session after the score and left "horizon"      *)
(* sessions later.                                                         *)
ReturnSound(d, returns, sessions, horizon) ==
    returns.names # {} =>
        /\ HasExit(d, sessions, horizon)
        /\ returns.entry \in sessions /\ returns.exit \in sessions
        /\ IndexOf(returns.entry, sessions) = IndexOf(d, sessions) + 1
        /\ IndexOf(returns.exit, sessions) = IndexOf(d, sessions) + 1 + horizon

LEMMA ReturnsAreSound ==
    ASSUME NEW sessions, sessions \subseteq Nat, IsFiniteSet(sessions),
           NEW d \in sessions, NEW horizon \in Nat \ {0}
    PROVE  ReturnSound(d, Returns(d, sessions, horizon), sessions, horizon)
<1>1. IndexOf(d, sessions) \in Nat /\ Cardinality(sessions) \in Nat
  BY IndexMonotone, FS_CardinalityType
<1>2. CASE HasExit(d, sessions, horizon)
  <2> DEFINE k == EntryIndex(d, sessions)
             returns == Returns(d, sessions, horizon)
  <2>1. /\ k \in Nat /\ k + horizon \in Nat /\ k = IndexOf(d, sessions) + 1
        /\ k < Cardinality(sessions) /\ k + horizon < Cardinality(sessions)
    BY <1>1, <1>2 DEF EntryIndex, HasExit
  <2> HIDE DEF k
  <2>2. /\ SessionAt(k, sessions) \in sessions
        /\ IndexOf(SessionAt(k, sessions), sessions) = k
    BY <1>1, <2>1, SessionAtIsThere
  <2>3. /\ SessionAt(k + horizon, sessions) \in sessions
        /\ IndexOf(SessionAt(k + horizon, sessions), sessions) = k + horizon
    BY <1>1, <2>1, SessionAtIsThere
  <2>4. /\ returns.entry = SessionAt(k, sessions)
        /\ returns.exit = SessionAt(k + horizon, sessions)
    BY <1>2 DEF Returns, ForwardReturns, k
  <2> QED
    BY <1>2, <2>1, <2>2, <2>3, <2>4 DEF ReturnSound
<1>3. CASE ~HasExit(d, sessions, horizon)
  BY <1>3 DEF Returns, NoReturns, ReturnSound
<1> QED
  BY <1>2, <1>3

LEMMA SoundIsEnteredAfter ==
    ASSUME NEW sessions, sessions \subseteq Nat, IsFiniteSet(sessions),
           NEW d \in sessions, NEW horizon \in Nat \ {0}, NEW returns,
           ReturnSound(d, returns, sessions, horizon)
    PROVE  EnteredAfter(d, returns)
<1> SUFFICES ASSUME returns.names # {}
             PROVE  d < returns.entry /\ returns.entry < returns.exit
  BY DEF EnteredAfter
<1>1. /\ returns.entry \in sessions /\ returns.exit \in sessions
      /\ IndexOf(returns.entry, sessions) = IndexOf(d, sessions) + 1
      /\ IndexOf(returns.exit, sessions) = IndexOf(d, sessions) + 1 + horizon
  BY DEF ReturnSound
<1>2. IndexOf(d, sessions) \in Nat /\ d \in Nat /\ returns.entry \in Nat /\ returns.exit \in Nat
  BY <1>1, IndexMonotone
<1>3. returns.entry <= d => IndexOf(returns.entry, sessions) <= IndexOf(d, sessions)
  BY <1>2, IndexMonotone
<1>4. returns.exit <= returns.entry
        => IndexOf(returns.exit, sessions) <= IndexOf(returns.entry, sessions)
  BY <1>2, IndexMonotone
<1>5. ~(returns.entry <= d) /\ ~(returns.exit <= returns.entry)
  BY <1>1, <1>2, <1>3, <1>4
<1> QED
  BY <1>2, <1>5

-----------------------------------------------------------------------------
(* The inductive invariant.                                                *)

(* Snapshots of some factors, made of rows seen by the session's close.    *)
SoundSnapshots(snapshots, factors) ==
    \A d \in DOMAIN snapshots :
        /\ DOMAIN snapshots[d] = factors
        /\ \A f \in factors :
              /\ SnapshotOK(snapshots[d][f])
              /\ \A i \in Instruments : \A row \in snapshots[d][f][i].uses :
                    Observed(row) <= 2 * d + 1

(* A task works through the rebalances of the calendar it began with; what *)
(* it has done is sound.  Nothing is cached yet for a panel being built.   *)
TaskInv ==
    task # None =>
        /\ DOMAIN task = {"goal", "request", "factors", "sessions", "todo", "snapshots"}
        /\ task.goal \in {"panel", "research", "composite"}
        /\ task.request \in Requests
        /\ \E dataset \in Datasets : task.sessions = SessionsOf(dataset, task.request)
        /\ task.todo \subseteq RebalanceSessions(task.sessions)
        /\ DOMAIN task.snapshots = RebalanceSessions(task.sessions) \ task.todo
        /\ task.factors \subseteq Factors
        /\ SoundSnapshots(task.snapshots, task.factors)
        /\ task.goal = "panel" => task.factors = Features /\ panels[task.request] = None
        /\ task.goal = "research" => task.factors # {}
        /\ task.goal = "composite" => task.factors = DOMAIN FactorWeights

(* A panel covers the rebalances of one calendar.                          *)
PanelInv(r, panel) ==
    /\ \E dataset \in Datasets : panel.sessions = SessionsOf(dataset, r)
    /\ DOMAIN panel.features = RebalanceSessions(panel.sessions)
    /\ DOMAIN panel.labels = DOMAIN panel.features
    /\ SoundSnapshots(panel.features, Features)
    /\ \A d \in DOMAIN panel.features :
          ReturnSound(d, panel.labels[d], panel.sessions, r.horizon)

(* A result is about the panel that is still cached.                       *)
ComparisonInv ==
    comparison # None =>
        LET panel == panels[comparison.request]
        IN  /\ comparison.request \in Requests
            /\ panel # None /\ comparison.panel = panel
            /\ comparison.runs = RunComparison(panel, Labelled(panel))

ShuffledInv ==
    shuffled # None =>
        LET panel == panels[shuffled.request]
        IN  /\ shuffled.request \in Requests
            /\ panel # None /\ shuffled.panel = panel
            /\ shuffled.real = RunComparison(panel, Periods(panel))
            /\ shuffled.null = RunComparison(panel, Labelled(panel))

ResearchInv ==
    research # None =>
        /\ research.factor \in Factors \cup {"composite"}
        /\ UsesNothingAfter(research.snapshots)
        /\ \A c \in research.correlations : EnteredAfter(c.session, c.returns)

StudyInv ==
    /\ bars \in Datasets /\ filings \subseteq Filings /\ IsFiniteSet(filings)
    /\ TaskInv
    /\ DOMAIN panels = Requests
    /\ \A r \in Requests : panels[r] # None => PanelInv(r, panels[r])
    /\ ComparisonInv /\ ShuffledInv /\ ResearchInv
    /\ rebuilds \in Nat /\ restarts \in Nat

(* A bar is not a filing.                                                  *)
LEMMA BarsAreNotFilings == BarRecord \cap Filings = {}
<1> SUFFICES ASSUME NEW b \in BarRecord, b \in FilingRecord PROVE FALSE
  BY FilingAssumption
<1>1. "metric" \notin DOMAIN b
  BY DEF BarRecord
<1>2. "metric" \in DOMAIN b
  BY DEF FilingRecord
<1> QED
  BY <1>1, <1>2

(* A snapshot of a session is sound when the study computes it.            *)
LEMMA SnapshotIsSound ==
    ASSUME StudyInv, NEW d \in Nat, NEW f \in Factors
    PROVE  LET snapshot == Snapshot(f, Context(d))
           IN  /\ SnapshotOK(snapshot)
               /\ \A i \in Instruments : \A row \in snapshot[i].uses :
                     Observed(row) <= 2 * d + 1
<1> DEFINE c == Context(d)
           snapshot == Snapshot(f, c)
<1>1. /\ c.bars = bars /\ c.filings = filings /\ c.universe = Instruments
      /\ c.session = d /\ c.asOf = 2 * d
  BY DEF Context, AsOf
<1>2. ContextOK(c)
  BY <1>1 DEF StudyInv, ContextOK
<1> HIDE DEF c
<1>3. \A i \in Instruments : SoundValue(snapshot[i], c)
  BY <1>1, <1>2, ScoresUseKnownRows DEF Snapshot
<1>4. KnownRows(c) \subseteq BarRecord \cup Filings
  BY <1>1, DatasetAssumption DEF KnownRows, StudyInv
<1>5. ASSUME NEW row \in KnownRows(c)
      PROVE  Observed(row) <= 2 * d + 1
  <2>1. CASE row \in bars /\ row.observed <= 2 * d
    <3>1. row \in BarRecord
      BY <2>1, DatasetAssumption DEF StudyInv
    <3>2. row \notin Filings /\ row.observed \in Nat
      BY <3>1, BarsAreNotFilings DEF BarRecord
    <3> QED
      BY <2>1, <3>2 DEF Observed
  <2>2. CASE row \in filings /\ row.available <= 2 * d
    <3>1. row \in Filings
      BY <2>2 DEF StudyInv
    <3>2. row.available \in Nat
      BY <3>1, FilingAssumption DEF FilingRecord
    <3> QED
      BY <2>2, <3>1, <3>2 DEF Observed
  <2> QED
    BY <1>1, <2>1, <2>2 DEF KnownRows
<1>6. DOMAIN snapshot = Instruments
  BY <1>1 DEF Snapshot
<1>7. SnapshotOK(snapshot)
  BY <1>3, <1>4, <1>6 DEF SnapshotOK, SoundValue
<1>8. \A i \in Instruments : \A row \in snapshot[i].uses : Observed(row) <= 2 * d + 1
  BY <1>3, <1>5 DEF SoundValue
<1> QED
  BY <1>7, <1>8 DEF c

-----------------------------------------------------------------------------
(* The steps.                                                              *)

LEMMA InitEstablishes == Init => StudyInv
<1> SUFFICES ASSUME Init PROVE StudyInv
  OBVIOUS
<1>1. IsFiniteSet(filings) /\ filings \subseteq Filings
  BY FS_EmptySet DEF Init
<1>2. DOMAIN panels = Requests /\ \A r \in Requests : panels[r] = None
  BY DEF Init, NoPanels
<1> QED
  BY <1>1, <1>2 DEF Init, StudyInv, TaskInv, ComparisonInv, ShuffledInv, ResearchInv

(* A new task has done nothing of a calendar that is one of a dataset.     *)
LEMMA BeginPreserves ==
    ASSUME StudyInv, task = None,
           NEW goal \in {"panel", "research", "composite"},
           NEW factors, factors \subseteq Factors, NEW r \in Requests,
           goal = "panel" => factors = Features /\ panels[r] = None,
           goal = "research" => factors # {},
           goal = "composite" => factors = DOMAIN FactorWeights,
           Begin(goal, factors, r)
    PROVE  StudyInv'
<1>1. task' = NewTask(goal, factors, r)
  BY DEF Begin
<1>2. DiscoverSessions(r) = SessionsOf(bars, r)
  BY DEF DiscoverSessions
<1>3. /\ DOMAIN task' = {"goal", "request", "factors", "sessions", "todo", "snapshots"}
      /\ task'.goal = goal /\ task'.request = r /\ task'.factors = factors
      /\ task'.sessions = SessionsOf(bars, r)
      /\ task'.todo = RebalanceSessions(SessionsOf(bars, r))
      /\ task'.snapshots = << >>
  BY <1>1, <1>2 DEF NewTask
<1>4. DOMAIN task'.snapshots = {}
  BY <1>3
<1>5. SoundSnapshots(task'.snapshots, task'.factors)
  BY <1>4 DEF SoundSnapshots
<1>6. TaskInv'
  <2>1. UNCHANGED <<panels, bars>> /\ bars \in Datasets
    BY DEF Begin, stores, StudyInv
  <2> QED
    BY <1>3, <1>4, <1>5, <2>1 DEF TaskInv
<1>7. /\ UNCHANGED <<bars, filings, panels, comparison, shuffled, rebuilds, restarts>>
      /\ research' = None
  BY DEF Begin, stores, counters
<1> QED
  BY <1>6, <1>7 DEF StudyInv, ComparisonInv, ShuffledInv, ResearchInv

LEMMA ComputePreserves ==
    ASSUME StudyInv, ComputeRebalance
    PROVE  StudyInv'
<1> DEFINE d == CHOOSE e \in task.todo : \A f \in task.todo : e <= f
           done == DOMAIN task.snapshots
           snapshots == [e \in done \cup {d} |->
                           IF e \in done THEN task.snapshots[e]
                           ELSE [f \in task.factors |-> Snapshot(f, Context(d))]]
<1>1. /\ task # None /\ task.todo # {}
      /\ task' = [task EXCEPT !.todo = @ \ {d}, !.snapshots = snapshots]
  BY DEF ComputeRebalance
<1>2. PICK dataset \in Datasets : task.sessions = SessionsOf(dataset, task.request)
  BY <1>1 DEF StudyInv, TaskInv
<1>3. /\ task.request \in Requests
      /\ task.todo \in SUBSET RebalanceSessions(task.sessions)
      /\ done = RebalanceSessions(task.sessions) \ task.todo
  BY <1>1 DEF StudyInv, TaskInv
<1>4. task.todo \in SUBSET Nat /\ IsFiniteSet(task.todo)
  <2>1. task.todo \in SUBSET SessionsOf(dataset, task.request)
    BY <1>2, <1>3 DEF RebalanceSessions
  <2> QED
    BY <1>3, <2>1, SessionsAreFinite, FS_Subset
<1>5. d \in task.todo
  <2>1. Cardinality(task.todo) \in Nat /\ 0 < Cardinality(task.todo)
    BY <1>1, <1>4, FS_CardinalityType, FS_EmptySet
  <2>2. PICK e \in task.todo : IndexOf(e, task.todo) = 0
    BY <1>4, <2>1, SessionAtIsThere
  <2>3. ASSUME NEW f \in task.todo, ~(e <= f) PROVE FALSE
    <3>1. IndexOf(f, task.todo) < IndexOf(e, task.todo) /\ IndexOf(f, task.todo) \in Nat
      <4>1. f \in Nat /\ e \in Nat /\ f < e
        BY <1>4, <2>3
      <4> QED
        BY <1>4, <4>1, IndexMonotone
    <3> QED
      BY <2>2, <3>1
  <2> QED
    BY <2>3
<1> HIDE DEF d
<1>6. /\ DOMAIN task' = DOMAIN task
      /\ task'.goal = task.goal /\ task'.request = task.request
      /\ task'.factors = task.factors /\ task'.sessions = task.sessions
      /\ task'.todo = task.todo \ {d} /\ task'.snapshots = snapshots
  BY <1>1 DEF StudyInv, TaskInv
<1>7. DOMAIN snapshots = RebalanceSessions(task.sessions) \ (task.todo \ {d})
  BY <1>3, <1>5
<1>8. SoundSnapshots(snapshots, task.factors)
  <2> SUFFICES ASSUME NEW e \in done \cup {d}
               PROVE  /\ DOMAIN snapshots[e] = task.factors
                      /\ \A f \in task.factors :
                            /\ SnapshotOK(snapshots[e][f])
                            /\ \A i \in Instruments : \A row \in snapshots[e][f][i].uses :
                                  Observed(row) <= 2 * e + 1
    BY DEF SoundSnapshots
  <2>1. CASE e \in done
    <3>1. SoundSnapshots(task.snapshots, task.factors)
      BY <1>1 DEF StudyInv, TaskInv
    <3>2. snapshots[e] = task.snapshots[e]
      BY <2>1
    <3> HIDE DEF snapshots
    <3> QED
      BY <2>1, <3>1, <3>2 DEF SoundSnapshots
  <2>2. CASE e \notin done
    <3>1. e = d /\ d \in Nat
      BY <1>4, <1>5, <2>2
    <3>2. snapshots[e] = [f \in task.factors |-> Snapshot(f, Context(d))]
      BY <2>2
    <3>3. task.factors \subseteq Factors
      BY <1>1 DEF StudyInv, TaskInv
    <3> HIDE DEF snapshots
    <3> QED
      BY <3>1, <3>2, <3>3, SnapshotIsSound
  <2> QED
    BY <2>1, <2>2
<1> HIDE DEF snapshots, done
<1>9. UNCHANGED <<bars, filings, panels, comparison, shuffled, research, rebuilds, restarts>>
  BY DEF ComputeRebalance, stores, results, counters
<1>10. TaskInv'
  BY <1>1, <1>2, <1>3, <1>6, <1>7, <1>8, <1>9 DEF StudyInv, TaskInv
<1> QED
  BY <1>9, <1>10 DEF StudyInv, ComparisonInv, ShuffledInv, ResearchInv

LEMMA FinishPanelPreserves ==
    ASSUME StudyInv, FinishPanel
    PROVE  StudyInv'
<1> DEFINE q == task.request
<1>1. /\ task # None /\ task.goal = "panel" /\ task.todo = {}
      /\ panels' = [panels EXCEPT ![q] = Panel] /\ task' = None
      /\ UNCHANGED <<bars, filings, comparison, shuffled, research, rebuilds, restarts>>
  BY DEF FinishPanel, stores, results, counters
<1>2. /\ q \in Requests /\ panels[q] = None /\ task.factors = Features
      /\ DOMAIN task.snapshots = RebalanceSessions(task.sessions)
      /\ SoundSnapshots(task.snapshots, Features)
  BY <1>1 DEF StudyInv, TaskInv
<1>3. PICK dataset \in Datasets : task.sessions = SessionsOf(dataset, q)
  BY <1>1 DEF StudyInv, TaskInv
<1>4. task.sessions \subseteq Nat /\ IsFiniteSet(task.sessions)
  BY <1>2, <1>3, SessionsAreFinite
<1>5. q.horizon \in Nat \ {0}
  BY <1>2, RequestAssumption
<1>6. \A d \in DOMAIN task.snapshots : ReturnSound(d, LabelOf(d), task.sessions, q.horizon)
  <2> SUFFICES ASSUME NEW d \in DOMAIN task.snapshots
               PROVE  ReturnSound(d, LabelOf(d), task.sessions, q.horizon)
    OBVIOUS
  <2>1. d \in task.sessions
    BY <1>2 DEF RebalanceSessions
  <2>2. ReturnSound(d, Returns(d, task.sessions, q.horizon), task.sessions, q.horizon)
    BY <1>4, <1>5, <2>1, ReturnsAreSound
  <2> QED
    BY <2>2 DEF LabelOf, NoReturns, ReturnSound
<1>7. PanelInv(q, Panel)
  <2>1. /\ Panel.features = task.snapshots /\ Panel.sessions = task.sessions
        /\ DOMAIN Panel.labels = DOMAIN task.snapshots
        /\ \A d \in DOMAIN task.snapshots : Panel.labels[d] = LabelOf(d)
    BY DEF Panel
  <2> QED
    BY <1>2, <1>3, <1>6, <2>1 DEF PanelInv
<1> HIDE DEF q
<1>8. /\ DOMAIN panels' = Requests /\ panels'[q] = Panel
      /\ \A r \in Requests : r # q => panels'[r] = panels[r]
  BY <1>1, <1>2 DEF StudyInv
<1>9. ComparisonInv' /\ ShuffledInv'
  BY <1>1, <1>2, <1>8 DEF StudyInv, ComparisonInv, ShuffledInv
<1>10. \A r \in Requests : panels'[r] # None => PanelInv(r, panels'[r])
  BY <1>7, <1>8 DEF StudyInv
<1> QED
  BY <1>1, <1>8, <1>9, <1>10 DEF StudyInv, TaskInv, ResearchInv

(* Correlations are of scores with later returns.                          *)
LEMMA EvaluationIsSound ==
    ASSUME StudyInv, task # None, NEW factor, NEW snapshots,
           DOMAIN snapshots = DOMAIN task.snapshots
    PROVE  \A c \in Evaluation(factor, snapshots).correlations :
              EnteredAfter(c.session, c.returns)
<1>1. PICK dataset \in Datasets : task.sessions = SessionsOf(dataset, task.request)
  BY DEF StudyInv, TaskInv
<1>2. task.sessions \subseteq Nat /\ IsFiniteSet(task.sessions)
  BY <1>1, SessionsAreFinite DEF StudyInv, TaskInv
<1>3. DOMAIN snapshots \subseteq task.sessions
  BY DEF StudyInv, TaskInv, RebalanceSessions
<1>4. ASSUME NEW d \in DOMAIN snapshots, NEW h \in DecayHorizons
      PROVE  EnteredAfter(d, Returns(d, task.sessions, h))
  <2>1. d \in task.sessions /\ h \in Nat \ {0}
    BY <1>3, RequestAssumption
  <2> QED
    BY <1>2, <2>1, ReturnsAreSound, SoundIsEnteredAfter
<1> QED
  BY <1>4 DEF Evaluation

LEMMA FinishPreserves ==
    ASSUME StudyInv, NEW goal, NEW result, Finish(goal, result),
           result.factor \in Factors \cup {"composite"},
           UsesNothingAfter(result.snapshots),
           \A c \in result.correlations : EnteredAfter(c.session, c.returns)
    PROVE  StudyInv'
<1>1. /\ research' = result /\ task' = None
      /\ UNCHANGED <<bars, filings, panels, comparison, shuffled, rebuilds, restarts>>
  BY DEF Finish, stores, counters
<1> QED
  BY <1>1 DEF StudyInv, TaskInv, ComparisonInv, ShuffledInv, ResearchInv

LEMMA FinishResearchPreserves ==
    ASSUME StudyInv, FinishResearch
    PROVE  StudyInv'
<1> DEFINE factor == CHOOSE f \in task.factors : TRUE
           result == Evaluation(factor, task.snapshots)
<1>1. task # None /\ task.goal = "research" /\ Finish("research", result)
  BY DEF FinishResearch, Finish
<1>2. factor \in Factors
  BY <1>1 DEF StudyInv, TaskInv
<1>3. result.factor = factor /\ result.snapshots = task.snapshots
  BY DEF Evaluation
<1>4. UsesNothingAfter(task.snapshots)
  BY <1>1 DEF StudyInv, TaskInv, SoundSnapshots, UsesNothingAfter
<1>5. \A c \in result.correlations : EnteredAfter(c.session, c.returns)
  BY <1>1, EvaluationIsSound
<1> HIDE DEF result, factor
<1> QED
  BY <1>1, <1>2, <1>3, <1>4, <1>5, FinishPreserves

(* A composite is made of what its factors are made of.                    *)
LEMMA FinishCompositePreserves ==
    ASSUME StudyInv, FinishComposite
    PROVE  StudyInv'
<1> DEFINE snapshots == [d \in DOMAIN task.snapshots |->
                            [f \in {"composite"} |-> Composite(task.snapshots[d])]]
           result == Evaluation("composite", snapshots)
<1>1. task # None /\ task.goal = "composite" /\ Finish("composite", result)
  BY DEF FinishComposite, Finish
<1>2. /\ task.factors = DOMAIN FactorWeights
      /\ SoundSnapshots(task.snapshots, DOMAIN FactorWeights)
  BY <1>1 DEF StudyInv, TaskInv
<1>3. result.factor = "composite" /\ result.snapshots = snapshots
  BY DEF Evaluation
<1>4. UsesNothingAfter(snapshots)
  <2> SUFFICES ASSUME NEW d \in DOMAIN task.snapshots, NEW i \in Instruments,
                      NEW row \in Composite(task.snapshots[d])[i].uses
               PROVE  Observed(row) <= 2 * d + 1
    BY DEF UsesNothingAfter
  <2> DEFINE s == task.snapshots[d]
             rows == UNION {s[f][j].uses : f \in DOMAIN FactorWeights, j \in Instruments}
  <2>1. Composite(s)[i].uses \subseteq rows
    BY DEF Composite, Score, Missing, FactorValue
  <2>2. PICK f \in DOMAIN FactorWeights, j \in Instruments : row \in s[f][j].uses
    BY <2>1
  <2> QED
    BY <1>2, <2>2 DEF SoundSnapshots
<1>5. \A c \in result.correlations : EnteredAfter(c.session, c.returns)
  <2>1. DOMAIN snapshots = DOMAIN task.snapshots
    OBVIOUS
  <2> HIDE DEF snapshots
  <2> QED
    BY <1>1, <2>1, EvaluationIsSound
<1> HIDE DEF result, snapshots
<1> QED
  BY <1>1, <1>3, <1>4, <1>5, FinishPreserves

LEMMA CompareModelsPreserves ==
    ASSUME StudyInv, NEW r \in Requests, CompareModels(r)
    PROVE  StudyInv'
<1>1. /\ panels[r] # None /\ research' = None
      /\ comparison' = [request |-> r, panel |-> panels[r],
                        runs |-> RunComparison(panels[r], Labelled(panels[r]))]
      /\ UNCHANGED <<bars, filings, task, panels, shuffled, rebuilds, restarts>>
  BY DEF CompareModels, stores, counters
<1>2. ComparisonInv'
  BY <1>1 DEF ComparisonInv
<1> QED
  BY <1>1, <1>2 DEF StudyInv, TaskInv, ShuffledInv, ResearchInv

LEMMA ControlPreserves ==
    ASSUME StudyInv, NEW r \in Requests, RunLabelShuffleControl(r)
    PROVE  StudyInv'
<1>1. /\ panels[r] # None /\ research' = None
      /\ shuffled' = [request |-> r, panel |-> panels[r],
                      real |-> RunComparison(panels[r], Periods(panels[r])),
                      null |-> RunComparison(panels[r], Labelled(panels[r]))]
      /\ UNCHANGED <<bars, filings, task, panels, comparison, rebuilds, restarts>>
  BY DEF RunLabelShuffleControl, stores, counters
<1>2. ShuffledInv'
  BY <1>1 DEF ShuffledInv
<1> QED
  BY <1>1, <1>2 DEF StudyInv, TaskInv, ComparisonInv, ResearchInv

(* Nothing a study has computed changes under it.                          *)
LEMMA OthersPreserve ==
    ASSUME StudyInv,
           \/ \E d \in Datasets : RebuildElsewhere(d)
           \/ \E f \in Filings : RestateElsewhere(f)
           \/ Restart
           \/ UNCHANGED vars
    PROVE  StudyInv'
<1>1. CASE \E d \in Datasets : RebuildElsewhere(d)
  BY <1>1 DEF RebuildElsewhere, results, StudyInv, TaskInv, ComparisonInv, ShuffledInv,
              ResearchInv
<1>2. CASE \E f \in Filings : RestateElsewhere(f)
  <2>1. PICK f \in Filings : filings' = filings \cup {f}
    BY <1>2 DEF RestateElsewhere
  <2>2. IsFiniteSet(filings')
    BY <2>1, FS_AddElement DEF StudyInv
  <2> QED
    BY <1>2, <2>1, <2>2 DEF RestateElsewhere, results, StudyInv, TaskInv, ComparisonInv,
                            ShuffledInv, ResearchInv
<1>3. CASE Restart
  <2>1. DOMAIN NoPanels = Requests /\ \A r \in Requests : NoPanels[r] = None
    BY DEF NoPanels
  <2> QED
    BY <1>3, <2>1 DEF Restart, stores, StudyInv, TaskInv, ComparisonInv, ShuffledInv,
                      ResearchInv
<1>4. CASE UNCHANGED vars
  BY <1>4 DEF vars, stores, results, counters, StudyInv, TaskInv, ComparisonInv,
              ShuffledInv, ResearchInv
<1> QED
  BY <1>1, <1>2, <1>3, <1>4

-----------------------------------------------------------------------------
(* The properties.                                                         *)

(* A study keeps what it has computed sound whatever happens beside it.    *)
THEOREM Invariance == Spec => []StudyInv
<1>1. Init => StudyInv
  BY InitEstablishes
<1>2. StudyInv /\ [Next]_vars => StudyInv'
  <2> SUFFICES ASSUME StudyInv, [Next]_vars PROVE StudyInv'
    OBVIOUS
  <2>1. ASSUME NEW r \in Requests, BeginPanel(r) PROVE StudyInv'
    BY <2>1, BeginPreserves, FeatureAssumption DEF BeginPanel
  <2>2. ASSUME NEW r \in Requests, BeginComposite(r) PROVE StudyInv'
    BY <2>2, BeginPreserves, CompositeAssumption DEF BeginComposite
  <2>3. ASSUME NEW r \in Requests, NEW f \in Factors, BeginResearch(f, r) PROVE StudyInv'
    BY <2>3, BeginPreserves DEF BeginResearch
  <2>4. CASE \E r \in Requests : CompareModels(r) \/ RunLabelShuffleControl(r)
    BY <2>4, CompareModelsPreserves, ControlPreserves
  <2>5. CASE ComputeRebalance
    BY <2>5, ComputePreserves
  <2>6. CASE FinishPanel \/ FinishResearch \/ FinishComposite
    BY <2>6, FinishPanelPreserves, FinishResearchPreserves, FinishCompositePreserves
  <2>7. CASE \/ \E d \in Datasets : RebuildElsewhere(d)
             \/ \E f \in Filings : RestateElsewhere(f)
             \/ Restart \/ UNCHANGED vars
    BY <2>7, OthersPreserve
  <2> QED
    BY <2>1, <2>2, <2>3, <2>4, <2>5, <2>6, <2>7 DEF Next
<1> QED
  BY <1>1, <1>2, PTL DEF Spec

(* Every variable has its type, for any names, datasets and requests.      *)
THEOREM TypeCorrect == Spec => []TypeOK
<1>1. StudyInv => TypeOK
  <2> SUFFICES ASSUME StudyInv PROVE TypeOK
    OBVIOUS
  <2>1. ASSUME task # None
        PROVE  /\ task.goal \in {"panel", "research", "composite"}
               /\ task.request \in Requests /\ task.factors \subseteq Factors
               /\ task.todo \subseteq task.sessions
               /\ \A d \in DOMAIN task.snapshots :
                     /\ d \in task.sessions \ task.todo
                     /\ \A f \in task.factors : SnapshotOK(task.snapshots[d][f])
    BY <2>1 DEF StudyInv, TaskInv, RebalanceSessions, SoundSnapshots
  <2>2. ASSUME NEW r \in Requests, panels[r] # None
        PROVE  PanelOK(panels[r])
    BY <2>2 DEF StudyInv, PanelInv, PanelOK, RebalanceSessions, SoundSnapshots
  <2>3. /\ comparison = None \/ comparison.request \in Requests
        /\ shuffled = None \/ shuffled.request \in Requests
        /\ research = None \/ research.factor \in Factors \cup {"composite"}
    BY DEF StudyInv, ComparisonInv, ShuffledInv, ResearchInv
  <2> QED
    BY <2>1, <2>2, <2>3 DEF StudyInv, TypeOK
<1> QED
  BY <1>1, Invariance, PTL

(* No score of any factor or composite uses a row from after its session's *)
(* close, and no return it is judged by begins before the next session,    *)
(* however rebuilds and restatements fall between the reads of a study     *)
(* (factor_research.py: build_factor_panel, run_factor_research,           *)
(* run_composite, _build_forward_returns).                                 *)
THEOREM NothingLookedAhead == Spec => []ScoresPrecedeReturns
<1>1. StudyInv => ScoresPrecedeReturns
  <2> SUFFICES ASSUME StudyInv PROVE ScoresPrecedeReturns
    OBVIOUS
  <2>1. task # None => UsesNothingAfter(task.snapshots)
    BY DEF StudyInv, TaskInv, SoundSnapshots, UsesNothingAfter
  <2>2. ASSUME NEW r \in Requests, panels[r] # None
        PROVE  /\ UsesNothingAfter(panels[r].features)
               /\ \A d \in Periods(panels[r]) : EnteredAfter(d, panels[r].labels[d])
    <3>1. PanelInv(r, panels[r])
      BY <2>2 DEF StudyInv
    <3>2. UsesNothingAfter(panels[r].features)
      BY <3>1 DEF PanelInv, SoundSnapshots, UsesNothingAfter
    <3>3. panels[r].sessions \subseteq Nat /\ IsFiniteSet(panels[r].sessions)
      BY <3>1, SessionsAreFinite DEF PanelInv
    <3>4. Periods(panels[r]) \subseteq panels[r].sessions
      BY <3>1 DEF Periods, PanelInv, RebalanceSessions
    <3>5. \A d \in Periods(panels[r]) :
             ReturnSound(d, panels[r].labels[d], panels[r].sessions, r.horizon)
      BY <3>1 DEF Periods, PanelInv
    <3>6. r.horizon \in Nat \ {0}
      BY RequestAssumption
    <3> QED
      BY <3>2, <3>3, <3>4, <3>5, <3>6, SoundIsEnteredAfter
  <2> QED
    BY <2>1, <2>2 DEF StudyInv, ResearchInv, ScoresPrecedeReturns
<1> QED
  BY <1>1, Invariance, PTL

(* A comparison and a control of one request are about one panel, also     *)
(* when the dataset was rebuilt between the two commands (models.py:       *)
(* _panel).                                                                *)
THEOREM OnePanelPerRequest == Spec => []ControlUsesSamePanel
<1>1. StudyInv => ControlUsesSamePanel
  BY DEF StudyInv, ComparisonInv, ShuffledInv, ControlUsesSamePanel
<1> QED
  BY <1>1, Invariance, PTL

(* The periods a panel is cut on.                                          *)
LEMMA PeriodsAreFinite ==
    ASSUME StudyInv, NEW r \in Requests, panels[r] # None,
           NEW periods \in {Periods(panels[r]), Labelled(panels[r])}
    PROVE  /\ periods \subseteq Periods(panels[r]) /\ periods \subseteq Nat
           /\ Labelled(panels[r]) \subseteq periods
           /\ IsFiniteSet(periods) /\ IsFiniteSet(Periods(panels[r]))
           /\ Cardinality(periods) \in Nat
<1>1. PanelInv(r, panels[r])
  BY DEF StudyInv
<1>2. panels[r].sessions \subseteq Nat /\ IsFiniteSet(panels[r].sessions)
  BY <1>1, SessionsAreFinite DEF PanelInv
<1>3. /\ Periods(panels[r]) \in SUBSET panels[r].sessions
      /\ Labelled(panels[r]) \in SUBSET Periods(panels[r])
  BY <1>1 DEF Periods, Labelled, PanelInv, RebalanceSessions
<1>4. periods \in SUBSET panels[r].sessions
  BY <1>3
<1>5. IsFiniteSet(periods) /\ IsFiniteSet(Periods(panels[r]))
  BY <1>2, <1>3, <1>4, FS_Subset
<1> QED
  BY <1>2, <1>3, <1>4, <1>5, FS_CardinalityType

(* What a fold trains or tests lies among the indices of its block.        *)
LEMMA BetweenIsIndexed ==
    ASSUME NEW periods, periods \subseteq Nat, IsFiniteSet(periods),
           NEW a \in Int, NEW b \in Int, NEW d \in Nat,
           Between(d, Block(a .. b, periods))
    PROVE  a <= IndexOf(d, periods) /\ IndexOf(d, periods) <= b
<1>1. PICK e \in periods : e <= d /\ IndexOf(e, periods) \in a .. b
  BY DEF Between, Block
<1>2. PICK f \in periods : d <= f /\ IndexOf(f, periods) \in a .. b
  BY DEF Between, Block
<1>3. e \in Nat /\ f \in Nat
  OBVIOUS
<1>4. IndexOf(e, periods) <= IndexOf(d, periods) /\ IndexOf(d, periods) \in Nat
  BY <1>1, <1>3, IndexMonotone
<1>5. IndexOf(d, periods) <= IndexOf(f, periods)
  BY <1>2, <1>3, IndexMonotone
<1> QED
  BY <1>1, <1>2, <1>4, <1>5

(* The labelled rebalances between the ends of a block of indices.         *)
Within(panel, periods, indices) ==
    {d \in Labelled(panel) : Between(d, Block(indices, periods))}

(* A run is a fold of some periods with the labelled ones in its blocks.   *)
LEMMA RunsOfFolds ==
    ASSUME NEW panel, NEW periods, NEW run \in RunComparison(panel, periods)
    PROVE  \E t \in TestStarts(Cardinality(periods)) :
              /\ run.fold = [train |-> Block(TrainIndices(t), periods),
                             test |-> Block(TestIndices(t), periods)]
              /\ run.trained = Within(panel, periods, TrainIndices(t))
              /\ run.tested = Within(panel, periods, TestIndices(t))
              /\ run = [fold |-> run.fold, trained |-> run.trained, tested |-> run.tested]
<1>1. PICK fold \in Folds(periods) : run = RunFold(panel, fold)
  BY DEF RunComparison
<1>2. PICK t \in TestStarts(Cardinality(periods)) :
         fold = [train |-> Block(TrainIndices(t), periods),
                 test |-> Block(TestIndices(t), periods)]
  BY <1>1 DEF Folds
<1> QED
  BY <1>1, <1>2 DEF RunFold, Within

LEMMA RunsTestOnce ==
    ASSUME StudyInv, NEW r \in Requests, panels[r] # None, StepSize >= TestWindow,
           NEW periods \in {Periods(panels[r]), Labelled(panels[r])},
           NEW x \in RunComparison(panels[r], periods),
           NEW y \in RunComparison(panels[r], periods), x # y
    PROVE  x.tested \cap y.tested = {}
<1>1. /\ periods \subseteq Nat /\ IsFiniteSet(periods) /\ Cardinality(periods) \in Nat
      /\ Labelled(panels[r]) \subseteq periods
  BY PeriodsAreFinite
<1>2. PICK t \in TestStarts(Cardinality(periods)) :
         /\ x.fold = [train |-> Block(TrainIndices(t), periods),
                      test |-> Block(TestIndices(t), periods)]
         /\ x.trained = Within(panels[r], periods, TrainIndices(t))
         /\ x.tested = Within(panels[r], periods, TestIndices(t))
         /\ x = [fold |-> x.fold, trained |-> x.trained, tested |-> x.tested]
  BY RunsOfFolds
<1>3. PICK u \in TestStarts(Cardinality(periods)) :
         /\ y.fold = [train |-> Block(TrainIndices(u), periods),
                      test |-> Block(TestIndices(u), periods)]
         /\ y.trained = Within(panels[r], periods, TrainIndices(u))
         /\ y.tested = Within(panels[r], periods, TestIndices(u))
         /\ y = [fold |-> y.fold, trained |-> y.trained, tested |-> y.tested]
  BY RunsOfFolds
<1>4. t # u
  BY <1>2, <1>3
<1>5. TestIndices(t) \cap TestIndices(u) = {}
  BY <1>1, <1>4, TestBlocksDisjoint
<1>6. ASSUME NEW d \in x.tested \cap y.tested PROVE FALSE
  <2>1. d \in Nat /\ IndexOf(d, periods) \in Nat
    BY <1>1, <1>2, IndexMonotone DEF Within
  <2>2. t \in Int /\ u \in Int /\ TestWindow \in Int
    BY WalkForwardAssumption DEF TestStarts
  <2>3. Between(d, Block(TestIndices(t), periods)) /\ Between(d, Block(TestIndices(u), periods))
    BY <1>2, <1>3, <1>6 DEF Within
  <2>4. ASSUME NEW v \in Int, Between(d, Block(TestIndices(v), periods))
        PROVE  IndexOf(d, periods) \in TestIndices(v)
    <3> DEFINE w == v + TestWindow - 1
    <3>1. w \in Int /\ TestIndices(v) = v .. w
      BY <2>2 DEF TestIndices
    <3> HIDE DEF w
    <3>2. Between(d, Block(v .. w, periods)) /\ d \in Nat
      BY <2>1, <2>4, <3>1
    <3>3. periods \subseteq Nat /\ IsFiniteSet(periods) /\ w \in Int
      BY <1>1, <3>1
    <3>4. v <= IndexOf(d, periods) /\ IndexOf(d, periods) <= w
      BY <3>2, <3>3, BetweenIsIndexed
    <3> QED
      BY <2>1, <3>1, <3>4
  <2>5. IndexOf(d, periods) \in TestIndices(t) /\ IndexOf(d, periods) \in TestIndices(u)
    BY <2>2, <2>3, <2>4
  <2> QED
    BY <1>5, <2>5
<1> QED
  BY <1>6

(* No rebalance is tested in two folds of a result, when the step of the   *)
(* walk is no shorter than its test window, as in every specification the  *)
(* repository has (runner.py: run_comparison; walk_forward.py: split).     *)
THEOREM NoRebalanceTestedTwice ==
    ASSUME StepSize >= TestWindow
    PROVE  Spec => []TestedOnce
<1>1. StudyInv => TestedOnce
  <2> SUFFICES ASSUME StudyInv PROVE TestedOnce
    OBVIOUS
  <2>1. ASSUME comparison # None,
               NEW x \in comparison.runs, NEW y \in comparison.runs, x # y
        PROVE  x.tested \cap y.tested = {}
    BY <2>1, RunsTestOnce DEF StudyInv, ComparisonInv
  <2>2. ASSUME shuffled # None,
               NEW x \in shuffled.real, NEW y \in shuffled.real, x # y
        PROVE  x.tested \cap y.tested = {}
    BY <2>2, RunsTestOnce DEF StudyInv, ShuffledInv
  <2>3. ASSUME shuffled # None,
               NEW x \in shuffled.null, NEW y \in shuffled.null, x # y
        PROVE  x.tested \cap y.tested = {}
    BY <2>3, RunsTestOnce DEF StudyInv, ShuffledInv
  <2> QED
    BY <2>1, <2>2, <2>3 DEF TestedOnce
<1> QED
  BY <1>1, Invariance, PTL

(* Thinning out a calendar brings its days no further apart.               *)
LEMMA GapsShrink ==
    ASSUME NEW all, all \subseteq Nat, IsFiniteSet(all), NEW some \in SUBSET all,
           NEW d \in Nat, NEW e \in Nat, d <= e
    PROVE  IndexOf(e, some) - IndexOf(d, some) <= IndexOf(e, all) - IndexOf(d, all)
<1> DEFINE From(S) == {x \in S : d <= x /\ x < e}
<1>1. ASSUME NEW S, S \subseteq Nat, IsFiniteSet(S)
      PROVE  /\ IsFiniteSet(From(S)) /\ Cardinality(From(S)) \in Nat
             /\ IndexOf(d, S) \in Nat
             /\ IndexOf(e, S) = IndexOf(d, S) + Cardinality(From(S))
  <2> DEFINE D == {x \in S : x < d}
             E == {x \in S : x < e}
             F == From(S)
  <2>0. \A x \in S : x \in Nat
    BY <1>1
  <2>1. \A x : x \in E <=> x \in D \/ x \in F
    BY <2>0
  <2>2. E = D \cup F
    BY <2>1
  <2>3. D \cap F = {}
    BY <2>0
  <2>4. D \in SUBSET S /\ F \in SUBSET S
    OBVIOUS
  <2>5. IsFiniteSet(D) /\ IsFiniteSet(F)
    BY <1>1, <2>4, FS_Subset
  <2>6. Cardinality(D) \in Nat /\ Cardinality(F) \in Nat
    BY <2>5, FS_CardinalityType
  <2>7. Cardinality(D \cap F) = 0
    BY <2>3, FS_EmptySet
  <2> HIDE DEF D, E, F
  <2>8. Cardinality(D \cup F) = Cardinality(D) + Cardinality(F) - Cardinality(D \cap F)
    BY <2>5, FS_Union
  <2>9. Cardinality(E) = Cardinality(D) + Cardinality(F)
    BY <2>2, <2>6, <2>7, <2>8
  <2> QED
    BY <2>5, <2>6, <2>9 DEF IndexOf, D, E, F
<1>2. IsFiniteSet(some) /\ some \subseteq Nat
  BY FS_Subset
<1>3. From(some) \in SUBSET From(all)
  OBVIOUS
<1>4. Cardinality(From(some)) <= Cardinality(From(all))
  BY <1>1, <1>3, FS_Subset
<1> HIDE DEF From
<1>5. /\ Cardinality(From(some)) \in Nat /\ IndexOf(d, some) \in Nat
      /\ IndexOf(e, some) = IndexOf(d, some) + Cardinality(From(some))
  BY <1>1, <1>2
<1>6. /\ Cardinality(From(all)) \in Nat /\ IndexOf(d, all) \in Nat
      /\ IndexOf(e, all) = IndexOf(d, all) + Cardinality(From(all))
  BY <1>1
<1> QED
  BY <1>4, <1>5, <1>6

LEMMA RunsTrainInTime ==
    ASSUME StudyInv, NEW r \in Requests, panels[r] # None, PurgeCoversLabels,
           NEW periods \in {Periods(panels[r]), Labelled(panels[r])},
           NEW x \in RunComparison(panels[r], periods),
           NEW d \in x.trained, NEW e \in x.tested
    PROVE  panels[r].labels[d].exit <= e
<1> DEFINE panel == panels[r]
           all == Periods(panel)
           exit == panel.labels[d].exit
<1>1. /\ periods \in SUBSET all /\ periods \subseteq Nat
      /\ IsFiniteSet(periods) /\ IsFiniteSet(all) /\ Cardinality(periods) \in Nat
      /\ Labelled(panel) \subseteq periods
  BY PeriodsAreFinite
<1>2. PanelInv(r, panel)
  BY DEF StudyInv
<1>3. PICK dataset \in Datasets : panel.sessions = SessionsOf(dataset, r)
  BY <1>2 DEF PanelInv
<1>4. /\ panel.sessions \subseteq Nat /\ IsFiniteSet(panel.sessions)
      /\ all = RebalanceSessions(panel.sessions) /\ all \subseteq panel.sessions
  BY <1>2, <1>3, SessionsAreFinite DEF PanelInv, Periods, RebalanceSessions
<1>5. PICK t \in TestStarts(Cardinality(periods)) :
         /\ x.fold = [train |-> Block(TrainIndices(t), periods),
                      test |-> Block(TestIndices(t), periods)]
         /\ x.trained = Within(panels[r], periods, TrainIndices(t))
         /\ x.tested = Within(panels[r], periods, TestIndices(t))
         /\ x = [fold |-> x.fold, trained |-> x.trained, tested |-> x.tested]
  BY RunsOfFolds
<1>6. /\ d \in Labelled(panel) /\ e \in Labelled(panel)
      /\ d \in periods /\ e \in periods /\ d \in all /\ e \in all
      /\ d \in Nat /\ e \in Nat
  BY <1>1, <1>5 DEF Within
<1>7. IndexOf(d, periods) + Purge < IndexOf(e, periods)
  <2>1. /\ t \in Int /\ TestWindow \in Int /\ TrainStart(t) \in Int /\ TrainEnd(t) \in Int
        /\ TrainEnd(t) = t - Purge /\ Purge \in Nat
    BY WalkForwardAssumption DEF TestStarts, TrainStart, TrainEnd
  <2>2. /\ Between(d, Block(TrainIndices(t), periods))
        /\ Between(e, Block(TestIndices(t), periods))
    BY <1>5 DEF Within
  <2>3. IndexOf(d, periods) <= TrainEnd(t) - 1
    <3> DEFINE v == TrainStart(t)
               w == TrainEnd(t) - 1
    <3>1. v \in Int /\ w \in Int /\ TrainIndices(t) = v .. w
      BY <2>1 DEF TrainIndices
    <3> HIDE DEF v, w
    <3>2. Between(d, Block(v .. w, periods)) /\ d \in Nat
      BY <1>6, <2>2, <3>1
    <3>3. periods \subseteq Nat /\ IsFiniteSet(periods)
      BY <1>1
    <3>4. v <= IndexOf(d, periods) /\ IndexOf(d, periods) <= w
      BY <3>1, <3>2, <3>3, BetweenIsIndexed
    <3> QED
      BY <3>4 DEF w
  <2>4. t <= IndexOf(e, periods)
    <3> DEFINE w == t + TestWindow - 1
    <3>1. t \in Int /\ w \in Int /\ TestIndices(t) = t .. w
      BY <2>1 DEF TestIndices
    <3> HIDE DEF w
    <3>2. Between(e, Block(t .. w, periods)) /\ e \in Nat
      BY <1>6, <2>2, <3>1
    <3>3. periods \subseteq Nat /\ IsFiniteSet(periods)
      BY <1>1
    <3> QED
      BY <3>1, <3>2, <3>3, BetweenIsIndexed
  <2>5. IndexOf(d, periods) \in Nat /\ IndexOf(e, periods) \in Nat
    BY <1>1, <1>6, IndexMonotone
  <2> QED
    BY <2>1, <2>3, <2>4, <2>5
<1>8. /\ IndexOf(d, periods) \in Nat /\ IndexOf(e, periods) \in Nat
      /\ IndexOf(d, all) \in Nat /\ IndexOf(e, all) \in Nat /\ Purge \in Nat
  BY <1>1, <1>4, <1>6, IndexMonotone, WalkForwardAssumption
<1>9. d <= e
  <2>1. e <= d => IndexOf(e, periods) <= IndexOf(d, periods)
    BY <1>1, <1>6, IndexMonotone
  <2> QED
    BY <1>6, <1>7, <1>8, <2>1
<1>10. IndexOf(d, all) + Purge < IndexOf(e, all)
  <2>1. IndexOf(e, periods) - IndexOf(d, periods) <= IndexOf(e, all) - IndexOf(d, all)
    BY <1>1, <1>4, <1>6, <1>9, GapsShrink
  <2> QED
    BY <1>7, <1>8, <2>1
<1>11. /\ HasExit(d, panel.sessions, r.horizon) /\ exit \in panel.sessions
       /\ IndexOf(exit, panel.sessions) = EntryIndex(d, panel.sessions) + r.horizon
  BY <1>2, <1>6 DEF PanelInv, Labelled, Periods, ReturnSound, EntryIndex
<1>12. IndexOf(exit, panel.sessions) <= IndexOf(e, panel.sessions)
  BY <1>3, <1>4, <1>6, <1>10, <1>11 DEF PurgeCoversLabels
<1>13. exit \in Nat
  BY <1>4, <1>11
<1>14. e < exit => IndexOf(e, panel.sessions) < IndexOf(exit, panel.sessions)
  BY <1>4, <1>6, <1>13, IndexMonotone
<1>15. IndexOf(exit, panel.sessions) \in Nat /\ IndexOf(e, panel.sessions) \in Nat
  BY <1>4, <1>6, <1>13, IndexMonotone
<1> QED
  BY <1>6, <1>12, <1>13, <1>14, <1>15

(* No model is trained on a label that is not known when its test begins,  *)
(* for any windows, datasets and holes in the labels, provided a purge is  *)
(* as long as the label horizon on the calendar, which the configuration   *)
(* intends and nothing in the code enforces (models.py: compare_models,    *)
(* run_label_shuffle_control).                                             *)
THEOREM LabelsResolveBeforeTests ==
    ASSUME PurgeCoversLabels
    PROVE  Spec => []TrainingLabelsResolveInTime
<1>1. StudyInv => TrainingLabelsResolveInTime
  <2> SUFFICES ASSUME StudyInv, NEW x \in AllRuns,
                      NEW d \in x[2].trained, NEW e \in x[2].tested
               PROVE  x[1].labels[d].exit <= e
    BY DEF TrainingLabelsResolveInTime
  <2>1. CASE comparison # None /\ \E run \in comparison.runs : x = <<comparison.panel, run>>
    BY <2>1, RunsTrainInTime DEF StudyInv, ComparisonInv
  <2>2. CASE /\ shuffled # None
             /\ \E run \in shuffled.real \cup shuffled.null : x = <<shuffled.panel, run>>
    <3>1. PICK run \in shuffled.real \cup shuffled.null : x = <<shuffled.panel, run>>
      BY <2>2
    <3>2. CASE run \in shuffled.real
      BY <2>2, <3>1, <3>2, RunsTrainInTime DEF StudyInv, ShuffledInv
    <3>3. CASE run \in shuffled.null
      BY <2>2, <3>1, <3>3, RunsTrainInTime DEF StudyInv, ShuffledInv
    <3> QED
      BY <3>1, <3>2, <3>3
  <2> QED
    BY <2>1, <2>2 DEF AllRuns
<1> QED
  BY <1>1, Invariance, PTL
=============================================================================
