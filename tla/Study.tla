------------------------------- MODULE Study -------------------------------
(***************************************************************************)
(* FactorResearchService and ModelService in one process: the panel of     *)
(* factor scores and forward-return labels, the walk-forward comparison of *)
(* the models on it, its label-shuffle control, and factor research.  A    *)
(* study reads the stores one rebalance at a time; in between another      *)
(* process may rebuild the dataset or file a restatement.                  *)
(*                                                                         *)
(* Fitting a model is represented by the rows it is trained on.            *)
(***************************************************************************)
EXTENDS FactorCalculators, WalkForward, FiniteSetsExt

CONSTANTS
    Instruments,
    Month,          \* of a day
    Datasets,       \* the sets of bars a rebuild may publish
    Filings,        \* the filings that may be recorded
    Features,       \* DEFAULT_FEATURES
    FactorWeights,  \* of the composite: factor -> percent
    MinWeight,      \* min_weight_fraction, percent
    Requests,       \* studies: first and last day and label horizon
    DecayHorizons,  \* horizons of factor research; the shortest is primary
    MinNames,       \* 3: fewer names make no label and no correlation
    MaxRebuilds,    \* bound: rebuilds and restatements by another process
    MaxRestarts     \* bound: restarts of the study's process

BarRecord == [inst : Instruments, session : Nat, observed : Nat, close : Nat \ {0}]
FilingRecord == [inst : Instruments, metric : STRING, period : Int, available : Nat,
                 value : Int, id : Nat]

(* A daily file has a line per name and session; the ids of filings are an *)
(* AUTOINCREMENT key.                                                      *)
ASSUME DatasetAssumption ==
    \A d \in Datasets :
        /\ d \subseteq BarRecord
        /\ \A b, c \in d : b.inst = c.inst /\ b.session = c.session => b = c
ASSUME FilingAssumption ==
    /\ Filings \subseteq FilingRecord
    /\ \A f, g \in Filings : f.id = g.id => f = g
ASSUME FeatureAssumption == Features \subseteq Factors

(* What some factors weigh in the composite.                               *)
WeightOf(factors) == MapThenSumSet(LAMBDA f : FactorWeights[f], factors)

ASSUME CompositeAssumption ==
    /\ DOMAIN FactorWeights \subseteq Factors /\ DOMAIN FactorWeights # {}
    /\ \A f \in DOMAIN FactorWeights : FactorWeights[f] \in 1 .. 100
    /\ WeightOf(DOMAIN FactorWeights) = 100
    /\ MinWeight \in 0 .. 100

ASSUME RequestAssumption ==
    /\ Requests \subseteq [from : Nat, to : Nat, horizon : Nat \ {0}]
    /\ DecayHorizons \subseteq Nat \ {0}
ASSUME BoundAssumption ==
    MinNames \in Nat \ {0} /\ MaxRebuilds \in Nat /\ MaxRestarts \in Nat

VARIABLES
    bars,       \* the dataset's bars
    filings,    \* table fundamentals
    task,       \* the study in progress, or None
    panels,     \* _panel_cache: per request, the panel or None
    comparison, \* the last result of compare_models, or None
    shuffled,   \* the last result of run_label_shuffle_control, or None
    research,   \* the last result of run_factor_research or run_composite, or None
    rebuilds,   \* writes by another process so far
    restarts    \* restarts so far

stores == <<bars, filings>>
results == <<comparison, shuffled, research>>
counters == <<rebuilds, restarts>>
vars == <<stores, task, panels, results, counters>>

-----------------------------------------------------------------------------
(* Calendar and labels.                                                    *)

(* The union of all members' sessions.                                     *)
SessionsOf(dataset, r) ==
    {d \in {b.session : b \in dataset} : r.from <= d /\ d <= r.to}

DiscoverSessions(r) == SessionsOf(bars, r)

(* The last session of each month.                                         *)
RebalanceSessions(sessions) ==
    {d \in sessions : \A e \in sessions : Month[e] = Month[d] => e <= d}

IndexOf(d, sessions) == Cardinality({e \in sessions : e < d})
SessionAt(k, sessions) == CHOOSE d \in sessions : IndexOf(d, sessions) = k

(* A plausible bug: the position is entered at the session of the score.   *)
EntryIndex_SameSession(d, sessions) == IndexOf(d, sessions)

EntryIndex(d, sessions) == IndexOf(d, sessions) + 1

HasExit(d, sessions, horizon) == EntryIndex(d, sessions) + horizon < Cardinality(sessions)

(* The forward returns of a rebalance: who has one, and over which days.   *)
ForwardReturns(d, sessions, horizon) ==
    LET entry == SessionAt(EntryIndex(d, sessions), sessions)
        exit == SessionAt(EntryIndex(d, sessions) + horizon, sessions)
        tradesOn(i, e) == \E b \in bars : b.inst = i /\ b.session = e
    IN  [entry |-> entry, exit |-> exit,
         names |-> {i \in Instruments : tradesOn(i, entry) /\ tradesOn(i, exit)}]

NoReturns == [entry |-> None, exit |-> None, names |-> {}]

Returns(d, sessions, horizon) ==
    IF HasExit(d, sessions, horizon) THEN ForwardReturns(d, sessions, horizon)
    ELSE NoReturns

-----------------------------------------------------------------------------
(* Building a panel, or the snapshots of one factor.                       *)

(* 16:00 UTC, five hours before a daily bar is observed.                   *)
AsOf(d) == 2 * d

Context(d) ==
    [session |-> d, asOf |-> AsOf(d), universe |-> Instruments,
     bars |-> bars, filings |-> filings]

NewTask(goal, factors, r) ==
    LET sessions == DiscoverSessions(r)
    IN  [goal |-> goal, request |-> r, factors |-> factors, sessions |-> sessions,
         todo |-> RebalanceSessions(sessions), snapshots |-> << >>]

(* An empty window raises ValueError before anything else happens.         *)
Begin(goal, factors, r) ==
    /\ DiscoverSessions(r) # {}
    /\ task' = NewTask(goal, factors, r)
    /\ research' = None
    /\ UNCHANGED <<stores, panels, comparison, shuffled, counters>>

(* A plausible bug: the panel is built anew for every command.             *)
BeginPanel_Always(r) == task = None /\ Begin("panel", Features, r)

BeginPanel(r) == task = None /\ panels[r] = None /\ Begin("panel", Features, r)

BeginResearch(factor, r) == task = None /\ Begin("research", {factor}, r)

BeginComposite(r) == task = None /\ Begin("composite", DOMAIN FactorWeights, r)

(* One rebalance: every factor, from rows read at the same instant.        *)
ComputeRebalance ==
    /\ task # None /\ task.todo # {}
    /\ LET d == CHOOSE e \in task.todo : \A f \in task.todo : e <= f
           done == DOMAIN task.snapshots
       IN  task' = [task EXCEPT
                !.todo = @ \ {d},
                !.snapshots = [e \in done \cup {d} |->
                    IF e \in done THEN task.snapshots[e]
                    ELSE [f \in task.factors |-> Snapshot(f, Context(d))]]]
    /\ UNCHANGED <<stores, panels, results, counters>>

(* Labels rank the returns of a rebalance if there are enough of them.     *)
LabelOf(d) ==
    LET returns == Returns(d, task.sessions, task.request.horizon)
    IN  IF Cardinality(returns.names) < MinNames THEN NoReturns ELSE returns

(* MLDatasetBuilder.build: rows for every rebalance and member, whether or *)
(* not it has scores (a missing one reads 0.0) or a label.                 *)
Panel ==
    [features |-> task.snapshots, sessions |-> task.sessions,
     labels |-> [d \in DOMAIN task.snapshots |-> LabelOf(d)]]

FinishPanel ==
    /\ task # None /\ task.goal = "panel" /\ task.todo = {}
    /\ panels' = [panels EXCEPT ![task.request] = Panel]
    /\ task' = None
    /\ UNCHANGED <<stores, results, counters>>

(* A rank correlation of scores and returns takes enough names with both.  *)
Correlated(snapshot, returns) ==
    Cardinality(ValidScores(snapshot) \cap returns.names) >= MinNames

(* FactorEvaluator.evaluate of one snapshot a session.                     *)
Evaluation(factor, snapshots) ==
    LET returns(x) == Returns(x[1], task.sessions, x[2])
        evaluated == {x \in (DOMAIN snapshots) \X DecayHorizons :
                         Correlated(snapshots[x[1]][factor], returns(x))}
    IN  [factor |-> factor, snapshots |-> snapshots,
         correlations |-> {[session |-> x[1], horizon |-> x[2], returns |-> returns(x)] :
                              x \in evaluated}]

(* CompositeBuilder.build: an instrument with enough of the weight has a   *)
(* score; normalising makes it rest on the scores of the whole universe.   *)
Composite(snapshots) ==
    LET having(i) == {f \in DOMAIN FactorWeights : IsValid(snapshots[f][i])}
        rows == UNION {snapshots[f][i].uses : f \in DOMAIN FactorWeights, i \in Instruments}
    IN  [i \in Instruments |->
            IF WeightOf(having(i)) >= MinWeight THEN Score(rows)
            ELSE Missing("insufficient_history")]

Finish(goal, result) ==
    /\ task # None /\ task.goal = goal /\ task.todo = {}
    /\ research' = result
    /\ task' = None
    /\ UNCHANGED <<stores, panels, comparison, shuffled, counters>>

FinishResearch ==
    Finish("research", Evaluation(CHOOSE f \in task.factors : TRUE, task.snapshots))

FinishComposite ==
    Finish("composite",
           Evaluation("composite", [d \in DOMAIN task.snapshots |->
                                       [f \in {"composite"} |-> Composite(task.snapshots[d])]]))

-----------------------------------------------------------------------------
(* Walk-forward over a panel.                                              *)

Periods(panel) == DOMAIN panel.features
Labelled(panel) == {d \in Periods(panel) : panel.labels[d].names # {}}

(* The folds of a set of rebalances, as sets of sessions.                  *)
Block(indices, periods) == {d \in periods : IndexOf(d, periods) \in indices}

Folds(periods) ==
    {[train |-> Block(TrainIndices(t), periods), test |-> Block(TestIndices(t), periods)] :
        t \in TestStarts(Cardinality(periods))}

Between(d, block) == (\E e \in block : e <= d) /\ (\E e \in block : d <= e)

(* run_comparison takes the labelled rows between the first and the last   *)
(* session of a block; a fold without rows is skipped.                     *)
RunFold(panel, fold) ==
    [fold |-> fold,
     trained |-> {d \in Labelled(panel) : Between(d, fold.train)},
     tested |-> {d \in Labelled(panel) : Between(d, fold.test)}]

RunComparison(panel, periods) ==
    {run \in {RunFold(panel, fold) : fold \in Folds(periods)} :
        run.trained # {} /\ run.tested # {}}

CompareModels(r) ==
    /\ task = None /\ panels[r] # None
    /\ Folds(Labelled(panels[r])) # {}   \* otherwise ValueError
    /\ comparison' = [request |-> r, panel |-> panels[r],
                      runs |-> RunComparison(panels[r], Labelled(panels[r]))]
    /\ research' = None
    /\ UNCHANGED <<stores, task, panels, shuffled, counters>>

(* The real folds are cut on all rebalances, those of the shuffled panels  *)
(* on the labelled ones, the only rows a shuffled panel has.               *)
RunLabelShuffleControl(r) ==
    /\ task = None /\ panels[r] # None
    /\ shuffled' = [request |-> r, panel |-> panels[r],
                    real |-> RunComparison(panels[r], Periods(panels[r])),
                    null |-> RunComparison(panels[r], Labelled(panels[r]))]
    /\ research' = None
    /\ UNCHANGED <<stores, task, panels, comparison, counters>>

-----------------------------------------------------------------------------
(* Beside the study.                                                       *)

RebuildElsewhere(dataset) ==
    /\ rebuilds < MaxRebuilds /\ bars # dataset
    /\ rebuilds' = rebuilds + 1
    /\ bars' = dataset
    /\ UNCHANGED <<filings, task, panels, results, restarts>>

RestateElsewhere(f) ==
    /\ rebuilds < MaxRebuilds /\ f \notin filings
    /\ rebuilds' = rebuilds + 1
    /\ filings' = filings \cup {f}
    /\ UNCHANGED <<bars, task, panels, results, restarts>>

NoPanels == [r \in Requests |-> None]

Restart ==
    /\ restarts < MaxRestarts
    /\ restarts' = restarts + 1
    /\ task' = None /\ panels' = NoPanels
    /\ comparison' = None /\ shuffled' = None /\ research' = None
    /\ UNCHANGED <<stores, rebuilds>>

Init ==
    /\ bars \in Datasets /\ filings = {}
    /\ task = None /\ panels = NoPanels
    /\ comparison = None /\ shuffled = None /\ research = None
    /\ rebuilds = 0 /\ restarts = 0

Next ==
    \/ \E r \in Requests :
          \/ BeginPanel(r) \/ BeginComposite(r)
          \/ CompareModels(r) \/ RunLabelShuffleControl(r)
    \/ \E r \in Requests, f \in Factors : BeginResearch(f, r)
    \/ ComputeRebalance \/ FinishPanel \/ FinishResearch \/ FinishComposite
    \/ \E d \in Datasets : RebuildElsewhere(d)
    \/ \E f \in Filings : RestateElsewhere(f)
    \/ Restart

Spec == Init /\ [][Next]_vars

-----------------------------------------------------------------------------
(* What makes a factor study and a model comparison honest.                *)

(* Every variable has its type.                                            *)
SnapshotOK(snapshot) ==
    /\ DOMAIN snapshot = Instruments
    /\ \A i \in Instruments :
          /\ snapshot[i].reason \in MissingReason \cup {None}
          /\ snapshot[i].uses \subseteq BarRecord \cup Filings

PanelOK(panel) ==
    /\ DOMAIN panel.labels = DOMAIN panel.features
    /\ DOMAIN panel.features \subseteq panel.sessions
    /\ \A d \in DOMAIN panel.features :
          /\ DOMAIN panel.features[d] = Features
          /\ \A f \in Features : SnapshotOK(panel.features[d][f])

TypeOK ==
    /\ bars \in Datasets /\ filings \subseteq Filings
    /\ task = None \/ /\ task.goal \in {"panel", "research", "composite"}
                      /\ task.request \in Requests
                      /\ task.factors \subseteq Factors
                      /\ task.todo \subseteq task.sessions
                      /\ \A d \in DOMAIN task.snapshots :
                            /\ d \in task.sessions \ task.todo
                            /\ \A f \in task.factors : SnapshotOK(task.snapshots[d][f])
    /\ DOMAIN panels = Requests
    /\ \A r \in Requests : panels[r] = None \/ PanelOK(panels[r])
    /\ comparison = None \/ comparison.request \in Requests
    /\ shuffled = None \/ shuffled.request \in Requests
    /\ research = None \/ research.factor \in Factors \cup {"composite"}
    /\ rebuilds \in Nat /\ restarts \in Nat

-----------------------------------------------------------------------------
(* Look-ahead.                                                             *)

Observed(row) == IF row \in Filings THEN row.available ELSE row.observed

(* The snapshots of a task, a panel or a research result.                  *)
UsesNothingAfter(snapshots) ==
    \A d \in DOMAIN snapshots : \A f \in DOMAIN snapshots[d] : \A i \in Instruments :
        \A row \in snapshots[d][f][i].uses : Observed(row) <= 2 * d + 1

EnteredAfter(d, returns) ==
    returns.names # {} => d < returns.entry /\ returns.entry < returns.exit

(* Every score of a session is made of rows observed by that session's     *)
(* close and of no filing made public later, whatever was rebuilt or       *)
(* restated while the study ran, and every return it is judged or trained  *)
(* by is entered at a later session: what is predicted does not overlap    *)
(* what it is predicted from.                                              *)
(* (factor_research.py: run_factor_research, run_composite,                *)
(* build_factor_panel, _build_forward_returns; the calculators in factors/)*)
ScoresPrecedeReturns ==
    /\ task # None => UsesNothingAfter(task.snapshots)
    /\ \A r \in Requests : panels[r] # None =>
          /\ UsesNothingAfter(panels[r].features)
          /\ \A d \in Periods(panels[r]) : EnteredAfter(d, panels[r].labels[d])
    /\ research # None =>
          /\ UsesNothingAfter(research.snapshots)
          /\ \A c \in research.correlations : EnteredAfter(c.session, c.returns)

-----------------------------------------------------------------------------
(* Walk-forward.                                                           *)

AllRuns ==
    (IF comparison = None THEN {} ELSE {<<comparison.panel, run>> : run \in comparison.runs})
    \cup (IF shuffled = None THEN {}
          ELSE {<<shuffled.panel, run>> : run \in shuffled.real \cup shuffled.null})

(* "A purge of one period means one rebalance, which is exactly the label  *)
(* horizon" (models.py:165): labels of rebalances a purge apart resolve.   *)
PurgeCoversLabels ==
    \A dataset \in Datasets, r \in Requests :
        LET sessions == SessionsOf(dataset, r)
            periods == RebalanceSessions(sessions)
        IN  \A d, e \in periods :
                /\ HasExit(d, sessions, r.horizon)
                /\ IndexOf(d, periods) + Purge < IndexOf(e, periods)
                => EntryIndex(d, sessions) + r.horizon <= IndexOf(e, sessions)

(* No model is trained on a label that resolves after the first session it *)
(* is tested on, also when rebalances without labels thin out the periods  *)
(* the folds are cut on.                                                   *)
(* (walk_forward.py: split; runner.py: run_comparison; models.py:          *)
(* compare_models, run_label_shuffle_control)                              *)
TrainingLabelsResolveInTime ==
    \A x \in AllRuns : \A d \in x[2].trained : \A e \in x[2].tested :
        x[1].labels[d].exit <= e

(* A rebalance is tested in one fold of a result at most, so that no       *)
(* period weighs twice in the mean.                                        *)
(* (walk_forward.py: split; runner.py: run_comparison)                     *)
TestedOnce ==
    LET once(runs) == \A x, y \in runs : x # y => x.tested \cap y.tested = {}
    IN  /\ comparison # None => once(comparison.runs)
        /\ shuffled # None => once(shuffled.real) /\ once(shuffled.null)

(* The comparison and the control of one request judge the same panel,     *)
(* even if the dataset was rebuilt between the two commands.               *)
(* (models.py: _panel and the comment in __init__)                         *)
ControlUsesSamePanel ==
    comparison # None /\ shuffled # None /\ comparison.request = shuffled.request
        => comparison.panel = shuffled.panel
=============================================================================
