-------------------------- MODULE PointInTimeProofs --------------------------
(***************************************************************************)
(* The point-in-time reads for any instruments, bars, actions, requests    *)
(* and any order of reads and writes (research/pit_facade.py,              *)
(* data/corporate_actions.py, infrastructure/partitions.py): the invariant *)
(* IInv of PointInTimeProperties is inductive, so no answer looks ahead    *)
(* and an adjusted answer is the reference.                                *)
(***************************************************************************)
EXTENDS PointInTimeProperties, Integers, FiniteSetTheorems, TLAPS

(* The year of a day does not decrease from a day to a later one.          *)
LEMMA YearMonotone ==
    ASSUME NEW a \in Nat, NEW b \in Nat, a <= b
    PROVE  YearOf(a) <= YearOf(b)
<1> DEFINE n == YearLength
<1>1. n \in Nat \ {0} /\ a \div n \in Int /\ b \div n \in Int
  BY YearAssumption
<1>2. n * (a \div n) <= a /\ b < n * (b \div n) + n
  BY YearAssumption
<1> HIDE DEF n
<1>3. SUFFICES ASSUME (b \div n) + 1 <= a \div n PROVE FALSE
  BY <1>1 DEF YearOf, n
<1>4. n * ((b \div n) + 1) <= n * (a \div n)
  BY <1>1, <1>3
<1> QED
  BY <1>1, <1>2, <1>4

LEMMA RequestTypes ==
    ASSUME NEW r \in Requests
    PROVE  r.inst \in Instruments /\ r.from \in Nat /\ r.to \in Nat /\ r.asOf \in Nat
BY RequestAssumption DEF Request

LEMMA BarTypes ==
    ASSUME NEW b \in Bars
    PROVE  /\ b.inst \in Instruments /\ b.session \in Nat
           /\ b.observed \in Nat /\ b.close \in Nat
           /\ PartitionOf(b) \in Partitions
BY BarAssumption DEF BarRecord, Partitions

LEMMA ActionTypes ==
    ASSUME NEW a \in ActionFeed
    PROVE  a.inst \in Instruments /\ a.effective \in Nat /\ a.available \in Nat
BY ActionAssumption DEF ActionRecord

-----------------------------------------------------------------------------
(* Lemmas about the adjustment.                                            *)

(* Bars observed by an instant, adjusted by actions in effect by its day,  *)
(* are not from its future.                                                *)
LEMMA AdjustmentIsNotFromTheFuture ==
    ASSUME NEW bars, NEW acts, NEW asOf,
           \A b \in bars : b.observed <= asOf,
           \A a \in acts : a.effective <= Date(asOf)
    PROVE  /\ NotFromTheFuture(ApplyAdjustments(bars, acts, asOf), asOf)
           /\ NotFromTheFuture(Unadjusted(bars), asOf)
<1> DEFINE valid == ValidActions(bars, acts, asOf)
<1>1. \A a \in valid : a.available <= asOf /\ a.effective <= Date(asOf)
  BY DEF ValidActions
<1>2. ASSUME NEW a, NEW f \in Factors(bars, a) PROVE f[1] = a
  BY <1>2 DEF Factors
<1>3. ASSUME NEW b \in bars, NEW some, some \subseteq valid,
             NEW f \in AdjustedBar(b, bars, some).factors
      PROVE  f[1] \in valid
  <2>1. PICK a \in some : f \in Factors(bars, a)
    BY <1>3 DEF AdjustedBar
  <2> QED
    BY <1>2, <1>3, <2>1
<1>4. \A b \in bars : \A some : AdjustedBar(b, bars, some).observed = b.observed
  BY DEF AdjustedBar
<1> HIDE DEF valid
<1>5. NotFromTheFuture(ApplyAdjustments(bars, acts, asOf), asOf)
  BY <1>1, <1>3, <1>4 DEF NotFromTheFuture, ApplyAdjustments, valid
<1>6. NotFromTheFuture(Unadjusted(bars), asOf)
  BY <1>1, <1>3, <1>4 DEF NotFromTheFuture, Unadjusted
<1> QED
  BY <1>5, <1>6

(* The price before an action is the same over a window as over all bars,  *)
(* when the window holds a bar before the action and reaches the action.   *)
LEMMA PriorBarsOfWindow ==
    ASSUME NEW known \in SUBSET Bars, NEW a \in ActionFeed,
           NEW from \in Nat, NEW to \in Nat,
           NEW b \in known, from <= b.session, b.session < a.effective, a.effective <= to
    PROVE  PriorBars({k \in known : InWindow(k.session, from, to)}, a) = PriorBars(known, a)
<1> DEFINE raw == {k \in known : InWindow(k.session, from, to)}
<1>1. \A k \in known : k.session \in Nat
  BY BarTypes
<1>2. a.effective \in Nat
  BY ActionTypes
<1>3. b \in raw
  BY <1>1, <1>2 DEF InWindow
<1>4. ASSUME NEW p \in PriorBars(raw, a) PROVE p \in PriorBars(known, a)
  <2>1. /\ p \in known /\ p.session \in Nat /\ from <= p.session /\ p.session < a.effective
        /\ \A c \in raw : c.session < a.effective => c.session <= p.session
    BY <1>1 DEF PriorBars, InWindow
  <2>2. ASSUME NEW c \in known, c.session < a.effective PROVE c.session <= p.session
    <3>1. CASE from <= c.session
      BY <1>1, <1>2, <2>1, <2>2, <3>1 DEF InWindow
    <3>2. CASE ~(from <= c.session)
      BY <1>1, <2>1, <3>2
    <3> QED
      BY <3>1, <3>2
  <2> QED
    BY <2>1, <2>2 DEF PriorBars
<1>5. ASSUME NEW p \in PriorBars(known, a) PROVE p \in PriorBars(raw, a)
  <2>1. /\ p \in known /\ p.session \in Nat /\ p.session < a.effective
        /\ b.session <= p.session /\ b.session \in Nat
        /\ \A c \in known : c.session < a.effective => c.session <= p.session
    BY <1>1 DEF PriorBars
  <2>2. p \in raw
    BY <1>2, <2>1 DEF InWindow
  <2> QED
    BY <2>1, <2>2 DEF PriorBars
<1> QED
  BY <1>4, <1>5

-----------------------------------------------------------------------------
(* Lemmas about a state of the invariant.                                  *)

(* What get_bars returns is what the files hold, whatever is cached.       *)
LEMMA BarsAreRows ==
    ASSUME IInv, NEW i \in Instruments, NEW from \in Nat, NEW to \in Nat, NEW asOf
    PROVE  ObservedBy(GetBars(i, from, to), asOf)
               = {b \in KnownBars(i, asOf) : InWindow(b.session, from, to)}
<1>1. ASSUME NEW p \in Partitions PROVE ReadRows(p) = files[p].rows
  <2>1. \A e \in CacheHits(p) : e.rows = files[p].rows
    BY DEF IInv, CacheCoherent, CacheHits
  <2>2. CASE CacheHits(p) = {}
    BY <2>2 DEF ReadRows
  <2>3. CASE CacheHits(p) # {}
    <3>1. {e.rows : e \in CacheHits(p)} = {files[p].rows}
      BY <2>1, <2>3
    <3> QED
      BY <2>3, <3>1 DEF ReadRows
  <2> QED
    BY <2>2, <2>3
<1>2. ASSUME NEW p \in Partitions, NEW b \in files[p].rows,
             b.inst = i, InWindow(b.session, from, to)
      PROVE  p \in PartitionsRead(i, from, to)
  <2>1. b \in Bars /\ b.session \in Nat
    BY BarTypes DEF IInv, TypeOK
  <2>2. p = <<i, YearOf(b.session)>>
    BY <1>2 DEF IInv, RowsInPlace, PartitionOf
  <2>3. files[p].stamp > 0
    BY DEF IInv, TypeOK, NoFileNoRows
  <2>4. InWindow(YearOf(b.session), YearOf(from), YearOf(to))
    BY <1>2, <2>1, YearMonotone DEF InWindow
  <2> QED
    BY <2>2, <2>3, <2>4 DEF PartitionsRead
<1>3. PartitionsRead(i, from, to) \subseteq Partitions
  BY DEF PartitionsRead
<1>4. GetBars(i, from, to)
        = {b \in UNION {files[p].rows : p \in Partitions} :
              b.inst = i /\ InWindow(b.session, from, to)}
  BY <1>1, <1>2, <1>3 DEF GetBars
<1> QED
  BY <1>4 DEF ObservedBy, KnownBars

(* The history a read uses is the table's, unless another process recorded *)
(* an action behind it.                                                    *)
LEMMA HistoryIsTable ==
    ASSUME IInv, ~oldHistory, NEW i \in Instruments
    PROVE  FullHistory(i) = ActionsOf(i)
BY DEF IInv, HistoryCoherent, FullHistory

LEMMA KnownTypes ==
    ASSUME IInv, NEW i, NEW asOf
    PROVE  KnownBars(i, asOf) \in SUBSET Bars /\ ActionsOf(i) \in SUBSET ActionFeed
BY DEF IInv, TypeOK, KnownBars, ActionsOf

(* A bar keeps its session when it is adjusted.                            *)
LEMMA SessionIsKept ==
    ASSUME NEW b, NEW bars, NEW acts
    PROVE  AdjustedBar(b, bars, acts).session = b.session
BY DEF AdjustedBar

(* Every bar of a window is of a session of that window.                   *)
LEMMA FreshBarsAreInWindow ==
    ASSUME NEW i, NEW from, NEW to, NEW asOf, NEW b \in FreshBars(i, from, to, asOf)
    PROVE  InWindow(b.session, from, to)
<1> DEFINE raw == {k \in KnownBars(i, asOf) : InWindow(k.session, from, to)}
           valid == ValidActions(raw, {a \in ActionsOf(i) : InWindow(a.effective, from, Date(asOf))},
                                 asOf)
<1>1. FreshBars(i, from, to, asOf) = {AdjustedBar(k, raw, valid) : k \in raw}
  BY DEF FreshBars, ApplyAdjustments
<1>2. \A k \in raw : InWindow(k.session, from, to)
  OBVIOUS
<1> HIDE DEF raw, valid
<1>3. PICK k \in raw : b = AdjustedBar(k, raw, valid)
  BY <1>1
<1>4. b.session = k.session
  BY <1>3, SessionIsKept
<1> QED
  BY <1>2, <1>4

(* The slice of any window that reaches the as-of day is the reference.    *)
LEMMA SliceIsReference ==
    ASSUME IInv, NEW r \in Requests, NEW from \in Nat, NEW to \in Nat,
           from <= r.from, r.to <= to, Date(r.asOf) <= r.to
    PROVE  Slice(FreshBars(r.inst, from, to, r.asOf), r.from, r.to) = ReferenceBars(r)
<1> DEFINE known == KnownBars(r.inst, r.asOf)
           acts == ActionsOf(r.inst)
           day == Date(r.asOf)
           raw == {k \in known : InWindow(k.session, from, to)}
           window == {a \in acts : InWindow(a.effective, from, day)}
           all == {a \in acts : a.available <= r.asOf /\ a.effective <= day}
           valid == ValidActions(raw, window, r.asOf)
           asked == {b \in known : InWindow(b.session, r.from, r.to)}
<1>1. /\ r.from \in Nat /\ r.to \in Nat /\ day \in Nat /\ day <= to
      /\ known \in SUBSET Bars /\ acts \in SUBSET ActionFeed
      /\ \A b \in known : b.session \in Nat
  BY RequestTypes, KnownTypes, BarTypes DEF Date
<1>2. FreshBars(r.inst, from, to, r.asOf) = {AdjustedBar(b, raw, valid) : b \in raw}
  BY DEF FreshBars, ApplyAdjustments
<1>3. ReferenceBars(r) = {AdjustedBar(b, known, all) : b \in asked}
  BY DEF ReferenceBars, KnownActions
<1> HIDE DEF known, acts, day
<1>4. asked \subseteq raw
  BY <1>1 DEF InWindow
<1>5. ASSUME NEW b \in raw PROVE AdjustedBar(b, raw, valid) = AdjustedBar(b, known, all)
  <2> DEFINE later == {a \in all : a.effective > b.session}
  <2>1. b \in known /\ b.session \in Nat /\ from <= b.session
    BY <1>1 DEF InWindow
  <2>2. \A a \in acts : a \in ActionFeed /\ a.effective \in Nat
    BY <1>1, ActionTypes
  <2>3. {a \in valid : a.effective > b.session} = later
    BY <2>1, <2>2 DEF ValidActions, InWindow
  <2>4. ASSUME NEW a \in later PROVE Factors(raw, a) = Factors(known, a)
    <3>1. a \in ActionFeed /\ b.session < a.effective /\ a.effective <= to
      BY <1>1, <2>1, <2>2
    <3>2. PriorBars(raw, a) = PriorBars(known, a)
      <4>1. known \in SUBSET Bars /\ b \in known /\ from <= b.session
        BY <1>1, <2>1
      <4> HIDE DEF later
      <4> QED
        BY <3>1, <4>1, PriorBarsOfWindow
    <3> HIDE DEF raw
    <3> QED
      BY <3>2 DEF Factors
  <2>5. {Factors(raw, a) : a \in later} = {Factors(known, a) : a \in later}
    <3> HIDE DEF raw, later
    <3> QED
      BY <2>4
  <2> HIDE DEF raw, valid, all, later
  <2> QED
    BY <2>3, <2>5 DEF AdjustedBar, later
<1> HIDE DEF raw, valid, all, window
<1>6. Slice({AdjustedBar(b, raw, valid) : b \in raw}, r.from, r.to)
        = {AdjustedBar(b, raw, valid) : b \in {k \in raw : InWindow(k.session, r.from, r.to)}}
  BY SessionIsKept DEF Slice
<1>7. {k \in raw : InWindow(k.session, r.from, r.to)} = asked
  BY <1>4 DEF raw
<1> HIDE DEF asked
<1> QED
  BY <1>2, <1>3, <1>4, <1>5, <1>6, <1>7

(* The bars a read without the adjusted cache computes.                    *)
LEMMA ReadIsFresh ==
    ASSUME IInv, NEW r \in Requests
    PROVE  LET raw == ObservedBy(GetBars(r.inst, r.from, r.to), r.asOf)
               acts == GetActions(r.inst, r.from, Date(r.asOf))
               bars == ApplyAdjustments(raw, acts, r.asOf)
           IN  /\ NotFromTheFuture(bars, r.asOf)
               /\ NotFromTheFuture(Unadjusted(raw), r.asOf)
               /\ ~oldHistory => bars = FreshBars(r.inst, r.from, r.to, r.asOf)
               /\ raw = {} /\ Date(r.asOf) <= r.to => ReferenceBars(r) = {}
<1> DEFINE raw == ObservedBy(GetBars(r.inst, r.from, r.to), r.asOf)
           acts == GetActions(r.inst, r.from, Date(r.asOf))
           bars == ApplyAdjustments(raw, acts, r.asOf)
<1>1. r.inst \in Instruments /\ r.from \in Nat /\ r.to \in Nat
  BY RequestTypes
<1>2. \A b \in raw : b.observed <= r.asOf
  BY DEF ObservedBy
<1>3. \A a \in acts : a.effective <= Date(r.asOf)
  BY DEF GetActions, InWindow
<1>4. raw = {b \in KnownBars(r.inst, r.asOf) : InWindow(b.session, r.from, r.to)}
  BY <1>1, BarsAreRows
<1>5. ~oldHistory => acts = {a \in ActionsOf(r.inst) : InWindow(a.effective, r.from, Date(r.asOf))}
  BY <1>1, HistoryIsTable DEF GetActions
<1> HIDE DEF raw, acts
<1>6. ~oldHistory => bars = FreshBars(r.inst, r.from, r.to, r.asOf)
  BY <1>4, <1>5 DEF FreshBars
<1>7. raw = {} => ReferenceBars(r) = {}
  BY <1>4 DEF ReferenceBars
<1>8. NotFromTheFuture(bars, r.asOf) /\ NotFromTheFuture(Unadjusted(raw), r.asOf)
  BY <1>2, <1>3, AdjustmentIsNotFromTheFuture
<1> QED
  BY <1>6, <1>7, <1>8 DEF raw, acts

-----------------------------------------------------------------------------
(* The invariant holds at first and is kept by every step.                 *)

(* A step that leaves the stores and the history alone keeps what relates  *)
(* them.                                                                   *)
LEMMA StoresKept ==
    ASSUME UNCHANGED stores
    PROVE  /\ \A i, asOf : KnownBars(i, asOf)' = KnownBars(i, asOf)
           /\ \A i : ActionsOf(i)' = ActionsOf(i)
           /\ \A i, from, to, asOf : FreshBars(i, from, to, asOf)' = FreshBars(i, from, to, asOf)
           /\ \A r : ReferenceBars(r)' = ReferenceBars(r)
BY DEF stores, KnownBars, ActionsOf, FreshBars, ReferenceBars, KnownActions

LEMMA EmptyCacheFits == Cardinality({}) <= CacheLimit
<1>1. Cardinality({}) = 0
  BY FS_EmptySet
<1> QED
  BY <1>1, BoundAssumption

LEMMA InitIInv == Init => IInv
<1> SUFFICES ASSUME Init PROVE IInv
  OBVIOUS
<1>1. TypeOK
  BY EmptyCacheFits DEF Init, TypeOK, NothingCached
<1>2. CacheCoherent /\ HistoryCoherent /\ RowsInPlace /\ NoFileNoRows
  BY DEF Init, NothingCached, CacheCoherent, HistoryCoherent, RowsInPlace, NoFileNoRows
<1>3. NoLookAhead /\ CachedNotFromTheFuture /\ AdjustedCoherent /\ AnswersArePointInTime
  BY DEF Init, NothingCached, NoLookAhead, CachedNotFromTheFuture, AdjustedCoherent,
         AnswersArePointInTime
<1> QED
  BY <1>1, <1>2, <1>3 DEF IInv

LEMMA AnswerFromCacheKeepsIInv ==
    ASSUME IInv, NEW r \in Requests, AnswerFromCache(r)
    PROVE  IInv'
<1> DEFINE w == adjusted[r.inst]
<1>1. /\ w # None /\ w.from <= r.from /\ r.to <= w.to /\ adjustedAsOf = r.asOf
      /\ w.from \in Nat /\ w.to \in Nat /\ r.inst \in Instruments
      /\ r.from \in Nat /\ r.to \in Nat
  BY RequestTypes DEF AnswerFromCache, CachedAdjusted, Covers, IInv, TypeOK, WindowOK
<1>2. /\ answer' = [request |-> r, bars |-> Slice(w.bars, r.from, r.to)]
      /\ UNCHANGED <<files, actions, partitionCache, history, adjustedAsOf, adjusted,
                     writes, restarts, oldSection, oldHistory>>
  BY DEF AnswerFromCache, Reply, stores, caches, counters, bookkeeping
<1>3. TypeOK'
  BY <1>2 DEF IInv, TypeOK, EntryOK, WindowOK
<1>4. NotFromTheFuture(w.bars, r.asOf)
  BY <1>1 DEF IInv, CachedNotFromTheFuture
<1>5. NoLookAhead'
  BY <1>2, <1>4 DEF NoLookAhead, NotFromTheFuture, Slice
<1>6. /\ CachedNotFromTheFuture' /\ CacheCoherent' /\ HistoryCoherent' /\ RowsInPlace'
      /\ NoFileNoRows' /\ AdjustedCoherent'
  BY <1>2, StoresKept DEF IInv, CachedNotFromTheFuture, CacheCoherent, HistoryCoherent,
     RowsInPlace, NoFileNoRows, AdjustedCoherent, stores
<1>7. AnswersArePointInTime'
  <2> SUFFICES ASSUME ~oldSection, ~oldHistory, Date(r.asOf) <= r.to
               PROVE  answer'.bars = ReferenceBars(r)'
    BY <1>2 DEF AnswersArePointInTime, Date
  <2>1. w.bars = FreshBars(r.inst, w.from, w.to, r.asOf)
    BY <1>1 DEF IInv, AdjustedCoherent
  <2>2. Slice(w.bars, r.from, r.to) = ReferenceBars(r)
    BY <1>1, <2>1, SliceIsReference
  <2> QED
    BY <1>2, <2>2, StoresKept DEF stores
<1> QED
  BY <1>3, <1>5, <1>6, <1>7 DEF IInv

LEMMA WritePartitionKeepsIInv ==
    ASSUME IInv, NEW p \in Partitions, NEW rows \in BarFeeds[p], WritePartition(p, rows)
    PROVE  IInv'
<1>1. /\ files' = [files EXCEPT ![p] = [stamp |-> @.stamp + 1, rows |-> rows]]
      /\ writes' = writes + 1 /\ oldSection' = TRUE
      /\ UNCHANGED <<actions, partitionCache, history, adjustedAsOf, adjusted,
                     answer, restarts, oldHistory>>
  BY DEF WritePartition, caches
<1>2. rows \subseteq Bars /\ \A b \in rows : PartitionOf(b) = p
  BY FeedAssumption
<1>3. files[p].stamp \in Nat
  BY DEF IInv, TypeOK
<1>4. TypeOK'
  BY <1>1, <1>2, <1>3 DEF IInv, TypeOK, EntryOK, WindowOK
<1>5. CacheCoherent'
  <2> SUFFICES ASSUME NEW e \in partitionCache
               PROVE  /\ e.stamp <= files'[e.part].stamp
                      /\ e.stamp = files'[e.part].stamp => e.rows = files'[e.part].rows
    BY <1>1 DEF CacheCoherent
  <2>1. /\ e.part \in Partitions /\ e.stamp \in Nat /\ e.stamp <= files[e.part].stamp
        /\ e.stamp = files[e.part].stamp => e.rows = files[e.part].rows
    BY DEF IInv, TypeOK, EntryOK, CacheCoherent
  <2> QED
    BY <1>1, <1>3, <2>1 DEF IInv, TypeOK
<1>6. HistoryCoherent'
  BY <1>1 DEF IInv, HistoryCoherent, ActionsOf
<1>7. RowsInPlace' /\ NoFileNoRows'
  BY <1>1, <1>2, <1>3 DEF IInv, TypeOK, RowsInPlace, NoFileNoRows
<1>8. NoLookAhead' /\ CachedNotFromTheFuture'
  BY <1>1 DEF IInv, NoLookAhead, CachedNotFromTheFuture, NotFromTheFuture
<1>9. AdjustedCoherent' /\ AnswersArePointInTime'
  BY <1>1 DEF AdjustedCoherent, AnswersArePointInTime
<1> QED
  BY <1>4, <1>5, <1>6, <1>7, <1>8, <1>9 DEF IInv

(* What any recording of an action keeps.                                  *)
LEMMA RecordedKeepsRest ==
    ASSUME IInv, NEW a \in ActionFeed, Insert(a), oldSection' = TRUE, writes' = writes + 1,
           UNCHANGED <<files, partitionCache, adjustedAsOf, adjusted, answer, restarts>>
    PROVE  /\ actions' \subseteq ActionFeed
           /\ \A i \in Instruments : i # a.inst => ActionsOf(i)' = ActionsOf(i)
           /\ NoLookAhead' /\ CachedNotFromTheFuture' /\ CacheCoherent' /\ RowsInPlace'
           /\ NoFileNoRows' /\ AdjustedCoherent' /\ AnswersArePointInTime'
<1>1. actions' = actions \/ actions' = actions \cup {a}
  BY DEF Insert
<1>2. actions' \subseteq ActionFeed
  BY <1>1 DEF IInv, TypeOK
<1>3. \A i \in Instruments : i # a.inst => ActionsOf(i)' = ActionsOf(i)
  BY <1>1 DEF ActionsOf
<1>4. NoLookAhead' /\ CachedNotFromTheFuture' /\ CacheCoherent' /\ RowsInPlace' /\ NoFileNoRows'
  BY DEF IInv, NoLookAhead, CachedNotFromTheFuture, CacheCoherent, RowsInPlace,
         NoFileNoRows, NotFromTheFuture
<1>5. AdjustedCoherent' /\ AnswersArePointInTime'
  BY DEF AdjustedCoherent, AnswersArePointInTime
<1> QED
  BY <1>2, <1>3, <1>4, <1>5

LEMMA RecordActionKeepsIInv ==
    ASSUME IInv, NEW a \in ActionFeed, RecordAction(a)
    PROVE  IInv'
<1>1. /\ history' = [history EXCEPT ![a.inst] = None]
      /\ Insert(a) /\ oldSection' = TRUE /\ writes' = writes + 1
      /\ UNCHANGED <<files, partitionCache, adjustedAsOf, adjusted, answer, restarts, oldHistory>>
  BY DEF RecordAction, HistoryAfterRecord
<1>2. /\ actions' \subseteq ActionFeed
      /\ \A i \in Instruments : i # a.inst => ActionsOf(i)' = ActionsOf(i)
      /\ NoLookAhead' /\ CachedNotFromTheFuture' /\ CacheCoherent' /\ RowsInPlace'
      /\ NoFileNoRows' /\ AdjustedCoherent' /\ AnswersArePointInTime'
  BY <1>1, RecordedKeepsRest
<1>3. TypeOK'
  <2>1. history' \in [Instruments -> (SUBSET ActionFeed) \cup {None}]
    BY <1>1 DEF IInv, TypeOK
  <2> QED
    BY <1>1, <1>2, <2>1 DEF IInv, TypeOK, EntryOK, WindowOK
<1>4. HistoryCoherent'
  BY <1>1, <1>2, ActionTypes DEF IInv, TypeOK, HistoryCoherent
<1> QED
  BY <1>2, <1>3, <1>4 DEF IInv

LEMMA RecordActionElsewhereKeepsIInv ==
    ASSUME IInv, NEW a \in ActionFeed, RecordActionElsewhere(a)
    PROVE  IInv'
<1>1. /\ Insert(a) /\ oldSection' = TRUE /\ writes' = writes + 1
      /\ oldHistory' = (oldHistory \/ history[a.inst] # None)
      /\ UNCHANGED <<files, partitionCache, history, adjustedAsOf, adjusted, answer, restarts>>
  BY DEF RecordActionElsewhere, caches
<1>2. /\ actions' \subseteq ActionFeed
      /\ \A i \in Instruments : i # a.inst => ActionsOf(i)' = ActionsOf(i)
      /\ NoLookAhead' /\ CachedNotFromTheFuture' /\ CacheCoherent' /\ RowsInPlace'
      /\ NoFileNoRows' /\ AdjustedCoherent' /\ AnswersArePointInTime'
  BY <1>1, RecordedKeepsRest
<1>3. TypeOK'
  BY <1>1, <1>2 DEF IInv, TypeOK, EntryOK, WindowOK
<1>4. HistoryCoherent'
  BY <1>1, <1>2, ActionTypes DEF IInv, HistoryCoherent
<1> QED
  BY <1>2, <1>3, <1>4 DEF IInv

LEMMA RestartKeepsIInv ==
    ASSUME IInv, Restart
    PROVE  IInv'
<1>1. /\ partitionCache' = {} /\ history' = NothingCached
      /\ adjusted' = NothingCached /\ answer' = None
      /\ restarts' = restarts + 1 /\ oldSection' = FALSE /\ oldHistory' = FALSE
      /\ UNCHANGED <<files, actions, writes>>
  BY DEF Restart, stores
<1>2. TypeOK'
  <2>1. /\ history' \in [Instruments -> (SUBSET ActionFeed) \cup {None}]
        /\ DOMAIN adjusted' = Instruments
        /\ \A i \in Instruments : adjusted'[i] = None
    BY <1>1 DEF NothingCached
  <2>2. Cardinality(partitionCache') <= CacheLimit
    BY <1>1, EmptyCacheFits
  <2>3. /\ files' \in [Partitions -> [stamp : Nat, rows : SUBSET Bars]]
        /\ actions' \subseteq ActionFeed
        /\ writes' \in Nat /\ restarts' \in Nat
    BY <1>1 DEF IInv, TypeOK
  <2>4. oldSection' \in BOOLEAN /\ oldHistory' \in BOOLEAN
    BY <1>1
  <2> QED
    BY <1>1, <2>1, <2>2, <2>3, <2>4 DEF TypeOK
<1>3. CacheCoherent' /\ HistoryCoherent' /\ RowsInPlace' /\ NoFileNoRows'
  BY <1>1 DEF IInv, NothingCached, CacheCoherent, HistoryCoherent, RowsInPlace, NoFileNoRows
<1>4. NoLookAhead' /\ CachedNotFromTheFuture' /\ AdjustedCoherent' /\ AnswersArePointInTime'
  BY <1>1 DEF NothingCached, NoLookAhead, CachedNotFromTheFuture, AdjustedCoherent,
     AnswersArePointInTime
<1> QED
  BY <1>2, <1>3, <1>4 DEF IInv

(* A read that goes to the store.                                          *)
LEMMA AnswerFromStoreKeepsIInv ==
    ASSUME IInv, NEW r \in Requests, AnswerFromStore(r)
    PROVE  IInv'
<1> DEFINE raw == ObservedBy(GetBars(r.inst, r.from, r.to), r.asOf)
           acts == GetActions(r.inst, r.from, Date(r.asOf))
           bars == ApplyAdjustments(raw, acts, r.asOf)
           given == answer'.bars
           entry == [from |-> r.from, to |-> r.to, bars |-> bars]
<1>1. /\ r.inst \in Instruments /\ r.from \in Nat /\ r.to \in Nat
      /\ NotFromTheFuture(bars, r.asOf) /\ NotFromTheFuture(Unadjusted(raw), r.asOf)
      /\ ~oldHistory => bars = FreshBars(r.inst, r.from, r.to, r.asOf)
      /\ raw = {} /\ Date(r.asOf) <= r.to => ReferenceBars(r) = {}
  BY RequestTypes, ReadIsFresh
<1>2. UNCHANGED <<files, actions, writes, restarts, oldHistory>>
  BY DEF AnswerFromStore, stores, counters
<1>3. /\ CacheAfterRead(PartitionsRead(r.inst, r.from, r.to), partitionCache')
      /\ \/ /\ ~ r.adjusted \/ raw = {}
            /\ answer' = [request |-> r, bars |-> Unadjusted(raw)]
            /\ UNCHANGED <<history, adjustedAsOf, adjusted, oldSection>>
         \/ /\ r.adjusted /\ raw # {}
            /\ history' = [history EXCEPT ![r.inst] = FullHistory(r.inst)]
            /\ answer' = [request |-> r, bars |-> bars]
            /\ StoreAdjusted(r, bars)
  BY Zenon DEF AnswerFromStore, Reply
<1> HIDE DEF raw, bars
<1>4. /\ adjustedAsOf' = adjustedAsOf \/ adjustedAsOf' = r.asOf
      /\ oldSection' \in BOOLEAN
      /\ DOMAIN adjusted' = Instruments
      /\ \A i \in Instruments :
            \/ adjusted'[i] = None
            \/ adjusted'[i] = adjusted[i] /\ adjustedAsOf' = adjustedAsOf
               /\ (~oldSection' => ~oldSection)
            \/ i = r.inst /\ adjusted'[i] = entry /\ adjustedAsOf' = r.asOf
  <2>1. CASE UNCHANGED <<adjustedAsOf, adjusted, oldSection>>
    BY <2>1 DEF IInv, TypeOK
  <2>2. CASE StoreAdjusted(r, bars)
    <3> DEFINE moved == adjustedAsOf # r.asOf
               kept == [i \in Instruments |-> IF moved THEN None ELSE adjusted[i]]
    <3>1. /\ adjustedAsOf' = r.asOf
          /\ oldSection' = (oldSection /\ ~moved)
          /\ adjusted' = IF Covers(kept[r.inst], r.from, r.to) THEN kept
                         ELSE [kept EXCEPT ![r.inst] = entry]
      BY <2>2 DEF StoreAdjusted
    <3>2. oldSection' \in BOOLEAN /\ (~moved /\ ~oldSection' => ~oldSection)
      BY <3>1, Zenon
    <3>3. DOMAIN adjusted' = Instruments
      BY <3>1
    <3>4. ASSUME NEW i \in Instruments
          PROVE  adjusted'[i] = kept[i] \/ (i = r.inst /\ adjusted'[i] = entry)
      <4> HIDE DEF entry
      <4> QED
        BY <1>1, <3>1
    <3>5. \A i \in Instruments : kept[i] = IF moved THEN None ELSE adjusted[i]
      OBVIOUS
    <3> HIDE DEF kept, entry
    <3> QED
      BY <3>1, <3>2, <3>3, <3>4, <3>5
  <2> QED
    BY <1>3, <2>1, <2>2
<1>5. /\ answer'.request = r
      /\ given = bars \/ given = Unadjusted(raw)
      /\ r.adjusted => given = bars \/ (raw = {} /\ given = {})
  BY <1>3 DEF Unadjusted
<1>6. /\ \A e \in partitionCache' : e \in partitionCache \/ \E p \in Partitions : e = Entry(p)
      /\ Cardinality(partitionCache') <= CacheLimit
  <2>1. PartitionsRead(r.inst, r.from, r.to) \subseteq Partitions
    BY DEF PartitionsRead
  <2> QED
    <3> DEFINE loaded == {q \in PartitionsRead(r.inst, r.from, r.to) : CacheHits(q) = {}}
               entries == {Entry(p) : p \in loaded}
               held == Cardinality(partitionCache \cup entries) <= CacheLimit
    <3>1. /\ partitionCache' \subseteq partitionCache \cup entries
          /\ held => partitionCache' = partitionCache \cup entries
          /\ ~held => Cardinality(partitionCache') = CacheLimit
      BY <1>3 DEF CacheAfterRead
    <3>2. loaded \subseteq Partitions
      BY <2>1
    <3> HIDE DEF loaded
    <3>3. \A e \in entries : \E p \in Partitions : e = Entry(p)
      BY <3>2
    <3>4. held => Cardinality(partitionCache') <= CacheLimit
      BY <3>1 DEF held
    <3> HIDE DEF entries, held
    <3>5. CacheLimit \in Nat
      BY BoundAssumption
    <3>6. Cardinality(partitionCache') <= CacheLimit
      BY <3>1, <3>4, <3>5
    <3> QED
      BY <3>1, <3>3, <3>6
<1>7. TypeOK'
  <2>1. \A p \in Partitions : EntryOK(Entry(p))
    BY DEF IInv, TypeOK, EntryOK, Entry
  <2>2. \A e \in partitionCache' : EntryOK(e)
    BY <1>6, <2>1 DEF IInv, TypeOK
  <2>3. history' \in [Instruments -> (SUBSET ActionFeed) \cup {None}]
    <3>1. FullHistory(r.inst) \in (SUBSET ActionFeed) \cup {None}
      BY <1>1 DEF IInv, TypeOK, FullHistory, ActionsOf
    <3> QED
      BY <1>3, <3>1 DEF IInv, TypeOK
  <2>4. \A i \in Instruments : adjusted'[i] = None \/ WindowOK(adjusted'[i])
    BY <1>1, <1>4 DEF IInv, TypeOK, WindowOK
  <2>5. answer'.request \in Requests
    BY <1>5
  <2> QED
    BY <1>2, <1>4, <1>6, <2>2, <2>3, <2>4, <2>5 DEF IInv, TypeOK, EntryOK, WindowOK
<1>8. NoLookAhead'
  BY <1>1, <1>5 DEF NoLookAhead, NotFromTheFuture
<1>9. CachedNotFromTheFuture'
  <2> SUFFICES ASSUME NEW i \in Instruments, adjusted'[i] # None
               PROVE  NotFromTheFuture(adjusted'[i].bars, adjustedAsOf')
    BY DEF CachedNotFromTheFuture, NotFromTheFuture
  <2> QED
    BY <1>1, <1>4 DEF IInv, CachedNotFromTheFuture
<1>10. CacheCoherent'
  <2> SUFFICES ASSUME NEW e \in partitionCache'
               PROVE  /\ e.stamp <= files[e.part].stamp
                      /\ e.stamp = files[e.part].stamp => e.rows = files[e.part].rows
    BY <1>2 DEF CacheCoherent
  <2>1. CASE e \in partitionCache
    BY <2>1 DEF IInv, CacheCoherent
  <2>2. ASSUME NEW p \in Partitions, e = Entry(p)
        PROVE  /\ e.stamp <= files[e.part].stamp
               /\ e.stamp = files[e.part].stamp => e.rows = files[e.part].rows
    BY <2>2 DEF IInv, TypeOK, Entry
  <2> QED
    BY <1>6, <2>1, <2>2
<1>11. HistoryCoherent'
  <2> SUFFICES ASSUME ~oldHistory, NEW i \in Instruments
               PROVE  history'[i] \in {None, ActionsOf(i)}
    BY <1>2, StoresKept DEF HistoryCoherent, stores
  <2>1. history[i] \in {None, ActionsOf(i)}
    BY DEF IInv, HistoryCoherent
  <2>2. FullHistory(r.inst) = ActionsOf(r.inst)
    BY <1>1, HistoryIsTable
  <2> QED
    BY <1>1, <1>3, <2>1, <2>2 DEF IInv, TypeOK
<1>12. RowsInPlace' /\ NoFileNoRows'
  BY <1>2 DEF IInv, RowsInPlace, NoFileNoRows
<1>13. AdjustedCoherent'
  <2> SUFFICES ASSUME ~oldSection', ~oldHistory, NEW i \in Instruments, adjusted'[i] # None
               PROVE  adjusted'[i].bars
                          = FreshBars(i, adjusted'[i].from, adjusted'[i].to, adjustedAsOf')
    BY <1>2, StoresKept DEF AdjustedCoherent, stores
  <2>1. CASE adjusted'[i] = adjusted[i] /\ adjustedAsOf' = adjustedAsOf
             /\ (~oldSection' => ~oldSection)
    BY <2>1 DEF IInv, AdjustedCoherent
  <2>2. CASE i = r.inst /\ adjusted'[i] = entry /\ adjustedAsOf' = r.asOf
    BY <1>1, <2>2
  <2> QED
    BY <1>4, <2>1, <2>2
<1>14. AnswersArePointInTime'
  <2> SUFFICES ASSUME ~oldHistory, r.adjusted, Date(r.asOf) <= r.to
               PROVE  given = ReferenceBars(r)
    BY <1>2, <1>5, StoresKept DEF AnswersArePointInTime, stores, Date
  <2>1. CASE raw = {} /\ given = {}
    BY <1>1, <2>1
  <2>2. CASE given = bars
    <3>1. Slice(FreshBars(r.inst, r.from, r.to, r.asOf), r.from, r.to) = ReferenceBars(r)
      BY <1>1, SliceIsReference
    <3>2. \A b \in FreshBars(r.inst, r.from, r.to, r.asOf) : InWindow(b.session, r.from, r.to)
      BY FreshBarsAreInWindow
    <3>3. Slice(FreshBars(r.inst, r.from, r.to, r.asOf), r.from, r.to)
            = FreshBars(r.inst, r.from, r.to, r.asOf)
      BY <3>2 DEF Slice
    <3> QED
      BY <1>1, <2>2, <3>1, <3>3
  <2> QED
    BY <1>5, <2>1, <2>2
<1> QED
  BY <1>7, <1>8, <1>9, <1>10, <1>11, <1>12, <1>13, <1>14 DEF IInv

LEMMA NextKeepsIInv == IInv /\ [Next]_vars => IInv'
<1> SUFFICES ASSUME IInv, [Next]_vars PROVE IInv'
  OBVIOUS
<1>1. CASE UNCHANGED vars
  <2>1. UNCHANGED <<files, actions, partitionCache, history, adjustedAsOf, adjusted, answer,
                    writes, restarts, oldSection, oldHistory>>
    BY <1>1 DEF vars, stores, caches, counters, bookkeeping
  <2> QED
    BY <2>1, StoresKept DEF IInv, TypeOK, EntryOK, WindowOK, NoLookAhead, NotFromTheFuture,
       CachedNotFromTheFuture, CacheCoherent, HistoryCoherent, RowsInPlace, NoFileNoRows,
       AdjustedCoherent, AnswersArePointInTime, stores
<1>2. ASSUME NEW r \in Requests, GetMarketBars(r) PROVE IInv'
  BY <1>2, AnswerFromCacheKeepsIInv, AnswerFromStoreKeepsIInv DEF GetMarketBars
<1>3. ASSUME NEW p \in Partitions, NEW rows \in BarFeeds[p], WritePartition(p, rows) PROVE IInv'
  BY <1>3, WritePartitionKeepsIInv
<1>4. ASSUME NEW a \in ActionFeed, RecordAction(a) \/ RecordActionElsewhere(a) PROVE IInv'
  BY <1>4, RecordActionKeepsIInv, RecordActionElsewhereKeepsIInv
<1>5. CASE Restart
  BY <1>5, RestartKeepsIInv
<1> QED
  BY <1>1, <1>2, <1>3, <1>4, <1>5 DEF Next

-----------------------------------------------------------------------------
(* The theorems.                                                           *)

(* The invariant always holds, whatever is read, written, recorded or      *)
(* dropped from a cache, in whichever order.                               *)
THEOREM Invariance == Spec => []IInv
<1>1. Init => IInv
  BY InitIInv
<1>2. IInv /\ [Next]_vars => IInv'
  BY NextKeepsIInv
<1> QED
  BY <1>1, <1>2, PTL DEF Spec

(* Every variable always has its type and the partition cache its limit    *)
(* (partitions.py: _PARTITION_CACHE_LIMIT).                                *)
THEOREM TypeCorrect == Spec => []TypeOK
<1>1. IInv => TypeOK
  BY DEF IInv
<1> QED
  BY <1>1, Invariance, PTL

(* No answer holds a bar or an adjustment from after the instant it was    *)
(* asked for, from whichever cache it comes (pit_facade.py:                *)
(* get_market_bars).                                                       *)
THEOREM NeverLooksAhead == Spec => []NoLookAhead
<1>1. IInv => NoLookAhead
  BY DEF IInv
<1> QED
  BY <1>1, Invariance, PTL

(* An adjusted answer that reaches the as-of day is what the rows known at *)
(* that instant say, over all of them and without caches, until rows are   *)
(* written behind the process (pit_facade.py, corporate_actions.py,        *)
(* partitions.py).                                                         *)
THEOREM AnswersAreTheReference == Spec => []AnswersArePointInTime
<1>1. IInv => AnswersArePointInTime
  BY DEF IInv
<1> QED
  BY <1>1, Invariance, PTL
=============================================================================
