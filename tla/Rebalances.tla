----------------------------- MODULE Rebalances -----------------------------
(***************************************************************************)
(* A prepared study run under different assumptions                        *)
(* (application/backtests.PreparedBacktest): the factor snapshots of a     *)
(* session are computed once and shared by every variant, each run goes    *)
(* over the rebalance sessions from no holdings, and a decision is made    *)
(* from the composite, the holdings and the specs.  The orders between     *)
(* two decisions may fail, so what is held next is anything between the    *)
(* names kept and the names held or wanted.                                *)
(***************************************************************************)
EXTENDS RiskEngine

CONSTANTS
    CrossSections,      \* factor -> what its snapshot of a session may hold
    RebalanceSessions,  \* the number of rebalance sessions
    ConfiguredSize, ConfiguredBuffer, \* of the strategy's configuration
    BufferMargin,       \* what run() adds to another target size: 10
    AskedVariants,      \* the [size, drop] a sweep asks for; size 0 is none
    Methods,            \* weighting methods the strategy may name
    RiskMetrics,        \* volatilities a request may carry; the engine sends none
    MaxRuns             \* bound: runs of a sweep

ASSUME RebalancesAssumption ==
    /\ \A f \in Factors : \A v \in CrossSections[f] :
            DOMAIN v \subseteq Instruments /\ Balanced(v)
    /\ ConfiguredSize \in Nat \ {0} /\ ConfiguredBuffer \in Nat /\ ConfiguredBuffer >= ConfiguredSize
    /\ BufferMargin \in Nat
    /\ \A v \in AskedVariants :     \* _sensitivity_cells skips the configured size
            v.size \in Nat \ {ConfiguredSize} /\ v.drop \subseteq Factors
    /\ \A metrics \in RiskMetrics : \A i \in DOMAIN metrics : metrics[i] \in Nat
    /\ RebalanceSessions \in Nat \ {0} /\ MaxRuns \in Nat \ {0}

VARIABLES
    snapshots,  \* session -> factor -> cross-section: _component_cache
    method,     \* weighting_method
    runs,       \* how many runs have started
    run,        \* the run in progress: [size, buffer, kept, next, held]; next 0 is none
    decisions   \* every decision of the sweep

sweepVars == <<snapshots, method, runs, run, decisions>>

Sessions == 1 .. RebalanceSessions
NoRun == [size |-> 0, buffer |-> 0, kept |-> {}, next |-> 0, held |-> {}]

(* What the calculators may answer for one session.                        *)
Snapshots ==
    {c \in [Factors -> UNION {CrossSections[f] : f \in Factors}] :
        \A f \in Factors : c[f] \in CrossSections[f]}

SweepInit ==
    /\ snapshots = <<>>
    /\ method \in Methods
    /\ runs = 0 /\ run = NoRun
    /\ decisions = {}

Larger(a, b) == IF a > b THEN a ELSE b

(* PreparedBacktest.run: ValueError when nothing is left of the composite. *)
Run(variant) ==
    /\ run.next = 0 /\ runs < MaxRuns
    /\ Factors \ variant.drop # {}
    /\ run' = [size   |-> IF variant.size = 0 THEN ConfiguredSize ELSE variant.size,
               buffer |-> IF variant.size = 0 THEN ConfiguredBuffer
                          ELSE Larger(variant.size + BufferMargin, ConfiguredBuffer),
               kept   |-> Factors \ variant.drop,
               next   |-> 1, held |-> {}]
    /\ runs' = runs + 1
    /\ UNCHANGED <<snapshots, method, decisions>>

(* A plausible bug: the snapshots are computed again for every run.        *)
Components_Recomputed(session) == Snapshots

(* _components: the cached snapshots, else computed for every factor of    *)
(* the composite, those this run drops included.                           *)
Components(session) ==
    IF session \in DOMAIN snapshots THEN {snapshots[session]}
    ELSE Snapshots

(* What the holdings may be once the orders to reach a target are done or  *)
(* given up: a holding that is wanted stays.                               *)
Outcomes(held, wanted) == {h \in SUBSET (held \cup wanted) : held \cap wanted \subseteq h}

(* One rebalance session: alpha, construction, risk; a rejection is not    *)
(* looked at, its target is the one that came in.                          *)
Rebalance ==
    /\ run.next > 0
    /\ \E components \in Components(run.next), metrics \in RiskMetrics :
        LET scores == Combine(components, run.kept)
            raw == Construct(scores, run.held, run.size, run.buffer, method, metrics)
            decision == Apply(raw)
        IN  /\ snapshots' = [s \in DOMAIN snapshots \cup {run.next} |->
                               IF s = run.next THEN components ELSE snapshots[s]]
            /\ decisions' = decisions \cup
                 {[session |-> run.next, size |-> run.size, buffer |-> run.buffer,
                   kept |-> run.kept, held |-> run.held, metrics |-> metrics,
                   ranks |-> Ranks(scores), raw |-> raw,
                   status |-> decision.status, target |-> decision.target]}
            /\ \E held \in Outcomes(run.held, DOMAIN decision.target) :
                 run' = IF run.next = RebalanceSessions THEN NoRun
                        ELSE [run EXCEPT !.next = @ + 1, !.held = held]
    /\ UNCHANGED <<method, runs>>

SweepNext ==
    \/ \E variant \in AskedVariants : Run(variant)
    \/ Rebalance

SweepSpec == SweepInit /\ [][SweepNext]_sweepVars

-----------------------------------------------------------------------------
(* What makes a study's target portfolios right.                           *)

(* The books a strategy may construct, whatever is selected and on top.    *)
Books ==
    UNION {{Weights(m, S, top, metrics) : top \in S} :
              m \in Methods, S \in SUBSET Instruments, metrics \in RiskMetrics}

(* Of the constants: the best ranked name can bear the rounding difference,*)
(* and the risk engine settles on every book within its rounds.            *)
DustIsCovered == \A w \in Books : \A i \in DOMAIN w : w[i] >= 0

AlwaysSettles == \A w \in Books : Apply(Targeted(w)).status # "reject"

WeightsOf(S) == [S -> 1 .. Scale]

(* Types of the state (application/backtests.py, portfolio/risk.py): a     *)
(* target gives each of its names a weight above zero and at most one.     *)
SweepTypeOK ==
    /\ DOMAIN snapshots \subseteq Sessions
    /\ \A s \in DOMAIN snapshots : snapshots[s] \in Snapshots
    /\ method \in Methods /\ runs \in 0 .. MaxRuns
    /\ run.next \in 0 .. RebalanceSessions /\ run.held \subseteq Instruments
    /\ run.kept \subseteq Factors /\ run.size <= run.buffer
    /\ \A d \in decisions : /\ d.target \in WeightsOf(DOMAIN d.target)
                            /\ DOMAIN d.target \subseteq DOMAIN d.raw
                            /\ DOMAIN d.raw \subseteq Instruments

(* TopKBufferSelector.select against what its docstring promises: every    *)
(* seat that can be filled is, a holding still within the buffer loses its *)
(* seat only when all seats went to better ranked holdings, a newcomer     *)
(* enters only when no such holding is left out, and no newcomer ranks     *)
(* below an instrument that is left out and was not held either.           *)
SelectionFollowsBuffer ==
    \A d \in decisions :
        LET chosen == DOMAIN d.raw
            ranked == DOMAIN d.ranks
            kept == {i \in d.held \cap ranked : d.ranks[i] <= d.buffer}
        IN  /\ Cardinality(chosen) = Min({d.size, Cardinality(ranked)})
            /\ \A i \in kept \ chosen :
                 /\ chosen \subseteq kept
                 /\ \A j \in chosen : d.ranks[j] < d.ranks[i]
            /\ \A i \in chosen \ kept, j \in ranked \ (chosen \cup kept) :
                 d.ranks[i] < d.ranks[j]

(* From the scores to what is ordered no weight is lost, raised or let     *)
(* through.  Where no name is capped, the constructed weights are the      *)
(* whole book less the cash buffer to the last unit, whichever scheme and  *)
(* however many names (weighting.py, "summing to total_target_weight");    *)
(* RiskEngine.apply always settles within its rounds, and then no name is  *)
(* above its cap and no sector and no book above theirs by more than the   *)
(* half unit each name may be rounded up by; nothing is raised or added.   *)
WeightsAreSound ==
    \A d \in decisions :
        LET names == DOMAIN d.target
            uncapped == \A i \in DOMAIN d.raw : MaxNameWeight = 0 \/ d.raw[i] < MaxNameWeight
        IN  /\ (d.raw # <<>> /\ uncapped) =>
                    Total(d.raw, DOMAIN d.raw) = Scale - CashBuffer
            /\ d.status # "reject"
            /\ \A i \in names : d.target[i] <= RiskNameWeight /\ d.target[i] <= d.raw[i]
            /\ \A i \in names : DOMAIN Sector # {} =>
                 2 * (Total(d.target, Peers(d.target, i)) - SectorCap(SectorOf(i)))
                    <= Cardinality(Peers(d.target, i))
            /\ 2 * (Total(d.target, names) - MaxAllowed) <= Cardinality(names)

(* Two runs of a sweep that come to one session with the same holdings and *)
(* the same assumptions decide the same: what differs between two variants *)
(* is the assumption varied, never the signal (PreparedBacktest, "the      *)
(* snapshots are computed once here and reused across every variant").     *)
VariantsShareTheSignal ==
    \A d, e \in decisions :
        /\ (d.session = e.session /\ d.kept = e.kept) => d.ranks = e.ranks
        /\ (/\ d.session = e.session /\ d.kept = e.kept /\ d.size = e.size
            /\ d.held = e.held /\ d.metrics = e.metrics) => d = e

(* docs/calculators/factors-v1.md, section 5: a factor of direction -1     *)
(* yields a higher composite score when it is lower.  An instrument that   *)
(* is at least as good in the declared direction of every factor, and      *)
(* better in one, is not scored below another.                             *)
BetterIsNotScoredLower ==
    \A s \in DOMAIN snapshots :
        LET values(f) == snapshots[s][f]
            scores == Combine(snapshots[s], Factors)
            Complete == {i \in Instruments : \A f \in Factors : i \in DOMAIN values(f)}
        IN  \A i, j \in Complete \cap DOMAIN scores :
              (\A f \in Factors :
                  Direction[f] * values(f)[i] >= Direction[f] * values(f)[j]) =>
                ~Higher(scores[j], scores[i])
=============================================================================
