----------------------- MODULE PointInTimeProperties -----------------------
(***************************************************************************)
(* What a point-in-time answer must be, whatever was cached or written     *)
(* before it.                                                              *)
(***************************************************************************)
EXTENDS PointInTime

(* Every variable has its type, and the partition cache keeps its limit.   *)
EntryOK(e) == e.part \in Partitions /\ e.stamp \in Nat /\ e.rows \subseteq Bars

WindowOK(w) == w.from \in Nat /\ w.to \in Nat

TypeOK ==
    /\ files \in [Partitions -> [stamp : Nat, rows : SUBSET Bars]]
    /\ actions \subseteq ActionFeed
    /\ \A e \in partitionCache : EntryOK(e)
    /\ Cardinality(partitionCache) <= CacheLimit
    /\ history \in [Instruments -> (SUBSET ActionFeed) \cup {None}]
    /\ DOMAIN adjusted = Instruments
    /\ \A i \in Instruments : adjusted[i] = None \/ WindowOK(adjusted[i])
    /\ answer = None \/ answer.request \in Requests
    /\ writes \in Nat /\ restarts \in Nat
    /\ oldSection \in BOOLEAN /\ oldHistory \in BOOLEAN

-----------------------------------------------------------------------------
(* The reference: what was known at an instant, over all rows there are,   *)
(* without windows or caches.                                              *)

KnownBars(i, asOf) ==
    {b \in UNION {files[p].rows : p \in Partitions} : b.inst = i /\ b.observed <= asOf}

KnownActions(i, asOf) ==
    {a \in ActionsOf(i) : a.available <= asOf /\ a.effective <= Date(asOf)}

ReferenceBars(r) ==
    LET known == KnownBars(r.inst, r.asOf)
    IN  {AdjustedBar(b, known, KnownActions(r.inst, r.asOf)) :
            b \in {k \in known : InWindow(k.session, r.from, r.to)}}

(* An adjusted answer over a window that reaches the as-of day is the      *)
(* reference: it does not depend on how wide the window is, on which       *)
(* windows were asked for before, or on what is cached.  Rows written      *)
(* meanwhile may be missing only until as-of moves, and an action recorded *)
(* by another process only until this one restarts.                        *)
(* (pit_facade.py: get_market_bars; corporate_actions.py: get_actions,     *)
(* apply_adjustments; partitions.py: read_partition)                       *)
AnswersArePointInTime ==
    answer # None /\ ~oldSection /\ ~oldHistory =>
        (answer.request.adjusted /\ answer.request.to >= Date(answer.request.asOf)
            => answer.bars = ReferenceBars(answer.request))

(* No answer, from any cache and however old, holds a bar observed after   *)
(* the instant asked about or is adjusted by an action that was not        *)
(* available, or not in effect, by then.                                   *)
(* (pit_facade.py: get_market_bars; corporate_actions.py:                  *)
(* compute_cumulative_adjustment_factors)                                  *)
NotFromTheFuture(bars, asOf) ==
    \A b \in bars :
        /\ b.observed <= asOf
        /\ \A f \in b.factors : f[1].available <= asOf /\ f[1].effective <= Date(asOf)

NoLookAhead == answer # None => NotFromTheFuture(answer.bars, answer.request.asOf)

-----------------------------------------------------------------------------
(* The inductive invariant behind NoLookAhead and AnswersArePointInTime.   *)

CachedNotFromTheFuture ==
    \A i \in Instruments : adjusted[i] # None => NotFromTheFuture(adjusted[i].bars, adjustedAsOf)

(* A cached file with the stamp of the file on disk has its rows. *)
CacheCoherent ==
    \A e \in partitionCache :
        /\ e.stamp <= files[e.part].stamp
        /\ e.stamp = files[e.part].stamp => e.rows = files[e.part].rows

HistoryCoherent ==
    ~oldHistory => \A i \in Instruments : history[i] \in {None, ActionsOf(i)}

RowsInPlace == \A p \in Partitions : \A b \in files[p].rows : PartitionOf(b) = p

NoFileNoRows == \A p \in Partitions : files[p].stamp = 0 => files[p].rows = {}

(* What get_market_bars computes without the adjusted cache, from the rows *)
(* as they stand. *)
FreshBars(i, from, to, asOf) ==
    LET raw == {b \in KnownBars(i, asOf) : InWindow(b.session, from, to)}
        acts == {a \in ActionsOf(i) : InWindow(a.effective, from, Date(asOf))}
    IN  ApplyAdjustments(raw, acts, asOf)

AdjustedCoherent ==
    ~oldSection /\ ~oldHistory =>
        \A i \in Instruments : adjusted[i] # None =>
            adjusted[i].bars = FreshBars(i, adjusted[i].from, adjusted[i].to, adjustedAsOf)

IInv ==
    /\ TypeOK
    /\ NoLookAhead
    /\ CachedNotFromTheFuture
    /\ CacheCoherent
    /\ HistoryCoherent
    /\ RowsInPlace
    /\ NoFileNoRows
    /\ AdjustedCoherent
    /\ AnswersArePointInTime
=============================================================================
