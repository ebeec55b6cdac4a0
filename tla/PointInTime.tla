---------------------------- MODULE PointInTime ----------------------------
(***************************************************************************)
(* PointInTimeDataFacade: what one process of a study is shown of the      *)
(* daily bars and corporate actions as of an instant, through three caches:*)
(* the parsed partition files, the action history of each instrument, and  *)
(* the adjusted bars of the current cross-section.  Meanwhile bars are     *)
(* rewritten and actions recorded, by this process or by another.          *)
(*                                                                         *)
(* Days are integers; instant 2d is day d before its close is observed and *)
(* 2d+1 is after.  An adjusted price is the raw close together with the    *)
(* factors that multiply it: a split, or a dividend over the close before  *)
(* it.  A partition file carries a stamp, its size and modification time,  *)
(* which is a new one at every write.                                      *)
(***************************************************************************)
EXTENDS Naturals, FiniteSets

CONSTANTS
    Instruments,
    YearLength,     \* days per year
    Bars,           \* the bars a source may hold
    BarFeeds,       \* per partition, the sets of bars it may be written with
    ActionFeed,     \* the corporate actions that may be recorded
    Requests,       \* the reads the study issues
    CacheLimit,     \* _PARTITION_CACHE_LIMIT
    MaxWrites,      \* bound: writes of bars and of actions
    MaxRestarts,    \* bound: restarts of the process
    None

ASSUME YearAssumption == YearLength \in Nat \ {0}
ASSUME BoundAssumption == CacheLimit \in Nat /\ MaxWrites \in Nat /\ MaxRestarts \in Nat

BarRecord == [inst : Instruments, session : Nat, observed : Nat, close : Nat]
ActionRecord == [inst : Instruments, type : {"split", "dividend", "delisting"},
                 effective : Nat, available : Nat, amount : Nat]
Request == [inst : Instruments, from : Nat, to : Nat, asOf : Nat, adjusted : BOOLEAN]

ASSUME BarAssumption == Bars \subseteq BarRecord
ASSUME ActionAssumption == ActionFeed \subseteq ActionRecord
ASSUME RequestAssumption == Requests \subseteq Request

Date(instant) == instant \div 2
YearOf(day) == day \div YearLength

(* _partition_key: one file per instrument and year. *)
PartitionOf(b) == <<b.inst, YearOf(b.session)>>

Partitions == {PartitionOf(b) : b \in Bars}

ASSUME FeedAssumption ==
    \A p \in Partitions : BarFeeds[p] \subseteq SUBSET {b \in Bars : PartitionOf(b) = p}

VARIABLES
    files,          \* partition files: their stamp and rows; stamp 0: no file
    actions,        \* table corporate_actions
    partitionCache, \* _partition_cache: parsed files by partition and stamp
    history,        \* _history_cache: actions of an instrument, or None
    adjustedAsOf,   \* _adjusted_as_of
    adjusted,       \* _adjusted_cache: window and bars of an instrument, or None
    answer,         \* the last request and the bars it was given, or None
    writes,         \* writes so far
    restarts,       \* restarts so far
    oldSection,     \* bookkeeping: rows were written since as-of last moved
    oldHistory      \* bookkeeping: another process recorded an action of a
                    \* history that was loaded already

stores == <<files, actions>>
caches == <<partitionCache, history, adjustedAsOf, adjusted>>
counters == <<writes, restarts>>
bookkeeping == <<oldSection, oldHistory>>
vars == <<stores, caches, answer, counters, bookkeeping>>

-----------------------------------------------------------------------------
(* Bars from the partition files.                                          *)

InWindow(day, from, to) == from <= day /\ day <= to

(* The files get_bars goes through. *)
PartitionsRead(i, from, to) ==
    {p \in Partitions : p[1] = i /\ files[p].stamp > 0
                        /\ InWindow(p[2], YearOf(from), YearOf(to))}

Entry(p) == [part |-> p, stamp |-> files[p].stamp, rows |-> files[p].rows]

(* A plausible bug: the key of a cached file leaves out its stamp.         *)
CacheHits_NoStamp(p) == {e \in partitionCache : e.part = p}

CacheHits(p) == {e \in partitionCache : e.part = p /\ e.stamp = files[p].stamp}

(* read_partition: the cached rows if the file has not been touched since. *)
ReadRows(p) ==
    IF CacheHits(p) # {} THEN UNION {e.rows : e \in CacheHits(p)} ELSE files[p].rows

GetBars(i, from, to) ==
    {b \in UNION {ReadRows(p) : p \in PartitionsRead(i, from, to)} :
        b.inst = i /\ InWindow(b.session, from, to)}

(* A plausible bug: nothing is ever dropped. *)
CacheAfterRead_Unbounded(parts, cache) ==
    cache = partitionCache \cup {Entry(p) : p \in {q \in parts : CacheHits(q) = {}}}

(* The cache after a read: what was read is added and, beyond the limit,   *)
(* entries are dropped; which ones is left open.                           *)
CacheAfterRead(parts, cache) ==
    LET all == partitionCache \cup {Entry(p) : p \in {q \in parts : CacheHits(q) = {}}}
    IN  /\ cache \subseteq all
        /\ IF Cardinality(all) <= CacheLimit
           THEN cache = all ELSE Cardinality(cache) = CacheLimit

-----------------------------------------------------------------------------
(* Corporate actions and adjustment.                                       *)

(* The unique index of the table. *)
NaturalKey(a) == <<a.inst, a.type, a.effective, a.amount>>

ActionsOf(i) == {a \in actions : a.inst = i}

FullHistory(i) == IF history[i] # None THEN history[i] ELSE ActionsOf(i)

GetActions(i, from, to) == {a \in FullHistory(i) : InWindow(a.effective, from, to)}

(* The last of the bars before the day an action takes effect. *)
PriorBars(bars, a) ==
    {b \in bars : b.session < a.effective
                  /\ \A c \in bars : c.session < a.effective => c.session <= b.session}

(* A dividend scales by the close before it, unless it exceeds that close. *)
Factors(bars, a) ==
    CASE a.type = "split"    -> {<<a, 0>>}
      [] a.type = "dividend" -> {<<a, b.close>> : b \in {p \in PriorBars(bars, a) : p.close > a.amount}}
      [] OTHER               -> {}

(* A plausible bug: an action counts as soon as it takes effect, whether   *)
(* or not it was available by then.                                        *)
ValidActions_AnyTime(bars, acts, asOf) ==
    {a \in acts : \E b \in bars : b.session < a.effective}

ValidActions(bars, acts, asOf) ==
    {a \in acts : a.available <= asOf /\ \E b \in bars : b.session < a.effective}

(* A bar carries the factor of every action effective strictly after it.   *)
AdjustedBar(b, bars, acts) ==
    [session |-> b.session, observed |-> b.observed, close |-> b.close,
     factors |-> UNION {Factors(bars, a) : a \in {x \in acts : x.effective > b.session}}]

ApplyAdjustments(bars, acts, asOf) ==
    {AdjustedBar(b, bars, ValidActions(bars, acts, asOf)) : b \in bars}

Unadjusted(bars) == {AdjustedBar(b, bars, {}) : b \in bars}

-----------------------------------------------------------------------------
(* The facade.                                                             *)

Slice(bars, from, to) == {b \in bars : InWindow(b.session, from, to)}

(* A plausible bug: a narrower cached window answers a wider request.      *)
Covers_Ends(entry, from, to) == entry # None /\ entry.to >= to

Covers(entry, from, to) == entry # None /\ entry.from <= from /\ entry.to >= to

(* A plausible bug: the instant an entry was built for is not compared.    *)
CachedAdjusted_AnyInstant(r) == Covers(adjusted[r.inst], r.from, r.to)

CachedAdjusted(r) ==
    adjustedAsOf = r.asOf /\ Covers(adjusted[r.inst], r.from, r.to)

(* _store_adjusted: a new instant drops every entry; a wider one stays.    *)
StoreAdjusted(r, bars) ==
    LET moved == adjustedAsOf # r.asOf
        kept == [i \in Instruments |-> IF moved THEN None ELSE adjusted[i]]
    IN  /\ adjustedAsOf' = r.asOf
        /\ adjusted' = IF Covers(kept[r.inst], r.from, r.to) THEN kept
                       ELSE [kept EXCEPT ![r.inst] =
                                [from |-> r.from, to |-> r.to, bars |-> bars]]
        /\ oldSection' = (oldSection /\ ~moved)

Reply(r, bars) == answer' = [request |-> r, bars |-> bars]

AnswerFromCache(r) ==
    /\ r.adjusted /\ CachedAdjusted(r)
    /\ Reply(r, Slice(adjusted[r.inst].bars, r.from, r.to))
    /\ UNCHANGED <<stores, caches, counters, bookkeeping>>

(* A plausible bug: bars are not compared with the instant asked about.    *)
ObservedBy_All(bars, asOf) == bars

ObservedBy(bars, asOf) == {b \in bars : b.observed <= asOf}

AnswerFromStore(r) ==
    LET raw == ObservedBy(GetBars(r.inst, r.from, r.to), r.asOf)
        acts == GetActions(r.inst, r.from, Date(r.asOf))
        bars == ApplyAdjustments(raw, acts, r.asOf)
    IN  /\ ~ (r.adjusted /\ CachedAdjusted(r))
        /\ \E cache \in SUBSET (partitionCache \cup {Entry(p) : p \in Partitions}) :
              /\ CacheAfterRead(PartitionsRead(r.inst, r.from, r.to), cache)
              /\ partitionCache' = cache
        /\ \/ /\ ~ r.adjusted \/ raw = {}
              /\ Reply(r, Unadjusted(raw))
              /\ UNCHANGED <<history, adjustedAsOf, adjusted, oldSection>>
           \/ /\ r.adjusted /\ raw # {}
              /\ history' = [history EXCEPT ![r.inst] = FullHistory(r.inst)]
              /\ Reply(r, bars)
              /\ StoreAdjusted(r, bars)
        /\ UNCHANGED <<stores, counters, oldHistory>>

GetMarketBars(r) == AnswerFromCache(r) \/ AnswerFromStore(r)

-----------------------------------------------------------------------------
(* Ingestion beside the study.                                             *)

(* One file of write_daily_bars: the rows of the partition are replaced.   *)
WritePartition(p, rows) ==
    /\ writes < MaxWrites
    /\ writes' = writes + 1
    /\ files' = [files EXCEPT ![p] = [stamp |-> @.stamp + 1, rows |-> rows]]
    /\ oldSection' = TRUE
    /\ UNCHANGED <<actions, caches, answer, restarts, oldHistory>>

(* INSERT OR IGNORE under the unique index.                                *)
Insert(a) ==
    actions' = IF \E b \in actions : NaturalKey(b) = NaturalKey(a)
               THEN actions ELSE actions \cup {a}

(* A plausible bug: recording does not drop the cached history.            *)
HistoryAfterRecord_Kept(a) == history

HistoryAfterRecord(a) == [history EXCEPT ![a.inst] = None]

(* record_action through the store this process reads.                     *)
RecordAction(a) ==
    /\ writes < MaxWrites
    /\ writes' = writes + 1
    /\ history' = HistoryAfterRecord(a)
    /\ Insert(a)
    /\ oldSection' = TRUE
    /\ UNCHANGED <<files, partitionCache, adjustedAsOf, adjusted, answer, restarts, oldHistory>>

(* The same by another process: this one's cached history stays.           *)
RecordActionElsewhere(a) ==
    /\ writes < MaxWrites
    /\ writes' = writes + 1
    /\ Insert(a)
    /\ oldSection' = TRUE
    /\ oldHistory' = (oldHistory \/ history[a.inst] # None)
    /\ UNCHANGED <<files, caches, answer, restarts>>

NothingCached == [i \in Instruments |-> None]

(* A new process starts with empty caches.                                 *)
Restart ==
    /\ restarts < MaxRestarts
    /\ restarts' = restarts + 1
    /\ partitionCache' = {}
    /\ history' = NothingCached
    /\ adjustedAsOf' = None /\ adjusted' = NothingCached
    /\ answer' = None
    /\ oldSection' = FALSE /\ oldHistory' = FALSE
    /\ UNCHANGED <<stores, writes>>

Init ==
    /\ files = [p \in Partitions |-> [stamp |-> 0, rows |-> {}]]
    /\ actions = {}
    /\ partitionCache = {}
    /\ history = NothingCached
    /\ adjustedAsOf = None /\ adjusted = NothingCached
    /\ answer = None
    /\ writes = 0 /\ restarts = 0
    /\ oldSection = FALSE /\ oldHistory = FALSE

Next ==
    \/ \E r \in Requests : GetMarketBars(r)
    \/ \E p \in Partitions : \E rows \in BarFeeds[p] : WritePartition(p, rows)
    \/ \E a \in ActionFeed : RecordAction(a) \/ RecordActionElsewhere(a)
    \/ Restart

Spec == Init /\ [][Next]_vars
=============================================================================
