----------------------------- MODULE Validation -----------------------------
(***************************************************************************)
(* Falsifying a candidate: its configuration is frozen, a validation runs  *)
(* the strategy again under every variant of the sweep, and the verdict is *)
(* read off the hard gates, the robustness evidence and the number of      *)
(* trials (application/validation.py, validation/).  Beside it stand the   *)
(* trial ledger and the holdout ledger, which live in their process, and   *)
(* research campaigns with the report file they leave (research/).         *)
(*                                                                         *)
(* A backtest is represented by what the verdict reads of it.  Returns are *)
(* in basis points a year, turnover in books a year, weights in percent.   *)
(***************************************************************************)
EXTENDS Integers, FiniteSets, Sequences, FiniteSetsExt, SequencesExt

CONSTANTS
    Strategies, Configs,
    TopKGrid,           \* robustness.top_k_grid
    TargetSize,         \* of the strategy's configuration
    Sleeves,            \* the factors of the composite
    Measurements,       \* what a backtest may measure
    SlippageBps,        \* base cost of the strategy's configuration
    FewTrials, ManyTrials, \* 5 and 50
    Campaigns, Specs,   \* of trials that research records
    Holdouts, Actors,
    Schemes,            \* the sets of partitions a configuration may list
    Agendas,            \* the sequences of hypotheses a campaign may be given
    MaxTrials, MaxTime, MaxRestarts, \* bounds
    None

Measurement == [sharpe : Int, cagr : Int, turnover : Nat, weights : Seq(Nat),
                topSector : Nat, significant : BOOLEAN]

Partition == [id : STRING, start : Nat, end : Nat]

ASSUME GridAssumption == TopKGrid \subseteq Nat /\ IsFiniteSet(TopKGrid) /\ TargetSize \in Nat
ASSUME SleeveAssumption == IsFiniteSet(Sleeves) /\ None \notin Sleeves
ASSUME MeasurementAssumption == Measurements \subseteq Measurement
ASSUME TrialAssumption == FewTrials \in Nat /\ ManyTrials \in Nat /\ SlippageBps \in Nat
ASSUME SchemeAssumption ==
    \A s \in Schemes : \A p \in s : p \in Partition /\ p.start <= p.end
ASSUME AgendaAssumption == \A agenda \in Agendas : agenda \in Seq(ToSet(agenda))
ASSUME ValidationBounds == MaxTrials \in Nat /\ MaxTime \in Nat /\ MaxRestarts \in Nat

VARIABLES
    task,       \* the validation in progress, or None
    performed,  \* the backtests it has run, in order: [size, drop]
    result,     \* the last result, or None
    trials,     \* TrialLedger._trials
    holdouts,   \* HoldoutService._consumed_holdouts
    scheme,     \* the last partition scheme that was accepted
    report,     \* the file research-report.json, or None
    time,       \* of holdout accesses
    restarts

ledgers == <<trials, holdouts, time>>
vars == <<task, performed, result, ledgers, scheme, report, restarts>>

-----------------------------------------------------------------------------
(* Evidence.                                                               *)

(* CandidateFreezer.freeze: the id is the strategy and the configuration's *)
(* hash; the code's fingerprint is kept beside it.                         *)
Freeze(strategy, config) == [strategy |-> strategy, config |-> config]
Candidates == {Freeze(s, c) : s \in Strategies, c \in Configs}

Baseline == [size |-> TargetSize, drop |-> None]

(* The backtests of a validation: the baseline, every other size of the    *)
(* grid, and the composite without each of its factors if there are two.   *)
Variants(sweeps) ==
    LET sizes == {[size |-> k, drop |-> None] : k \in TopKGrid \ {TargetSize}}
        ablations == IF Cardinality(Sleeves) < 2 THEN {}
                     ELSE {[size |-> TargetSize, drop |-> f] : f \in Sleeves}
    IN  <<Baseline>> \o (IF sweeps THEN SetToSeq(sizes) \o SetToSeq(ablations) ELSE <<>>)

(* The realized return already bears the base cost: it is added back.      *)
GrossCagr(m) == m.cagr + m.turnover * SlippageBps * 2

(* ExecutionStressTester.evaluate: the return left at a cost, and the cost *)
(* at which nothing is left is below 10 bps.                               *)
NetCagr(gross, turnover, cost) == gross - turnover * cost * 2

IsCostFragile(gross, turnover) == gross <= 0 \/ gross < 20 * turnover

SumOfSharpes(sharpes) == MapThenSumSet(LAMBDA k : sharpes[k], DOMAIN sharpes)

(* SensitivitySurface.analyze, of a Sharpe ratio in hundredths per size.   *)
Topology(sharpes) ==
    LET n == Cardinality(DOMAIN sharpes)
        max == Max(Range(sharpes))
        spread == max - Min(Range(sharpes))
        falling == \A a, b \in DOMAIN sharpes : a < b => sharpes[a] >= sharpes[b]
        rising == \A a, b \in DOMAIN sharpes : a < b => sharpes[a] <= sharpes[b]
    IN  IF n >= 2 /\ 2 * n * max > 3 * SumOfSharpes(sharpes) /\ spread > 75 THEN "spike"
        ELSE IF n < 2 \/ spread < 35 THEN "plateau"
        ELSE IF falling \/ rising THEN "monotonic" ELSE "fragile"

(* ConcentrationAnalyzer.evaluate: an HHI above 0.15 or a sector above 40%.*)
IsConcentrated(m) ==
    /\ \E k \in DOMAIN m.weights : m.weights[k] > 0
    /\ \/ MapThenSumSet(LAMBDA k : m.weights[k] * m.weights[k], DOMAIN m.weights) > 1500
       \/ m.topSector > 40

(* TrialDiagnostics.evaluate for n recorded Sharpe ratios.                 *)
IsWarned(n, significant) == n >= ManyTrials \/ (n > FewTrials /\ ~significant)

(* HardGateEvaluator.evaluate_all: what was detected.  The gate on         *)
(* authority asks for a frozen candidate with its hashes, which every      *)
(* candidate of run_validation is; no gate evaluates lockbox discipline.   *)
Gates == {"lookahead_leakage", "data_integrity", "reproducibility"}

Verdicts == <<"REJECTED", "RESEARCH_ONLY", "PAPER_CANDIDATE">>

(* VerdictEngine.determine_verdict, for a candidate eligible for paper.    *)
Verdict(failed, fragile, concentrated, warned) ==
    IF failed # {} THEN "REJECTED"
    ELSE IF fragile \/ concentrated \/ warned THEN "RESEARCH_ONLY"
    ELSE "PAPER_CANDIDATE"

-----------------------------------------------------------------------------
(* ValidationService.run_validation.                                       *)

BeginValidation(candidate, sweeps) ==
    /\ task = None
    /\ task' = [candidate |-> candidate, sweeps |-> sweeps,
                todo |-> Variants(sweeps), measured |-> <<>>]
    /\ performed' = <<>> /\ result' = None
    /\ UNCHANGED <<ledgers, scheme, report, restarts>>

RunBacktest ==
    /\ task # None /\ task.todo # <<>>
    /\ \E m \in Measurements :
        task' = [task EXCEPT !.todo = Tail(@), !.measured = Append(@, m)]
    /\ performed' = Append(performed, Head(task.todo))
    /\ UNCHANGED <<result, ledgers, scheme, report, restarts>>

(* A plausible bug: only the sizes count as trials, not the ablations.     *)
TrialSharpes_SizesOnly(measured) ==
    LET sizes == SelectSeq([k \in DOMAIN measured |-> <<performed[k].drop, measured[k].sharpe>>],
                           LAMBDA x : x[1] = None)
    IN  [k \in DOMAIN sizes |-> sizes[k][2]]

(* The Sharpe ratios the observed one is deflated against.                 *)
TrialSharpes(measured) == [k \in DOMAIN measured |-> measured[k].sharpe]

(* The top-k surface: a Sharpe ratio per size of the grid that was run.    *)
Surface(measured) ==
    LET sizes == {j \in DOMAIN measured : performed[j].drop = None}
        Run(size) == CHOOSE j \in sizes : performed[j].size = size
    IN  [size \in {performed[j].size : j \in sizes} |-> measured[Run(size)].sharpe]

(* RobustnessRunner.run: the evidence drawn from the runs; the ablations   *)
(* count as trials and decide nothing else.                                *)
Robustness(measured) ==
    LET m == measured[1]
        gross == GrossCagr(m)
        surface == Surface(measured)
    IN  [gross |-> gross, surface |-> surface, topology |-> Topology(surface),
         fragile |-> IsCostFragile(gross, m.turnover), concentrated |-> IsConcentrated(m)]

(* The service reports no failed gate: nothing in it looks for one; a      *)
(* caller of ValidationRunner.run passes what it detected.                 *)
FinishValidation(detected) ==
    LET m == task.measured[1]
        evidence == Robustness(task.measured)
        n == Len(TrialSharpes(task.measured))
        warned == IsWarned(n, m.significant)
    IN  /\ task # None /\ task.todo = <<>>
        /\ result' = [candidate |-> task.candidate, sweeps |-> task.sweeps, baseline |-> m,
                      failed |-> detected, evidence |-> evidence,
                      trials |-> n, warned |-> warned,
                      verdict |-> Verdict(detected, evidence.fragile,
                                          evidence.concentrated, warned)]
        /\ task' = None
        /\ UNCHANGED <<performed, ledgers, scheme, report, restarts>>

-----------------------------------------------------------------------------
(* The ledgers.                                                            *)

(* TrialLedger.record_once: one record per specification, whoever asks.    *)
Recorded(trial) ==
    IF \E k \in DOMAIN trials : trials[k].spec = trial.spec THEN trials
    ELSE Append(trials, trial)

RecordTrial(campaign, candidate, spec, sharpe) ==
    /\ Len(trials) < MaxTrials
    /\ trials' = Recorded([campaign |-> campaign, candidate |-> candidate, spec |-> spec,
                           sharpe |-> sharpe])
    /\ UNCHANGED <<task, performed, result, holdouts, time, scheme, report, restarts>>

(* A plausible bug: opening again writes a new access.                     *)
Accesses_Overwritten(key, access) ==
    [k \in DOMAIN holdouts \cup {key} |-> IF k = key THEN access ELSE holdouts[k]]

(* open_holdout answers the first access of a candidate to a partition.    *)
Accesses(key, access) ==
    [k \in DOMAIN holdouts \cup {key} |-> IF k \in DOMAIN holdouts THEN holdouts[k] ELSE access]

OpenHoldout(candidate, partition, actor) ==
    /\ time < MaxTime
    /\ time' = time + 1
    /\ holdouts' = Accesses(<<candidate, partition>>, [actor |-> actor, at |-> time])
    /\ UNCHANGED <<task, performed, result, trials, scheme, report, restarts>>

IsConsumed(candidate, partition) == <<candidate, partition>> \in DOMAIN holdouts

(* One after the other in the order of their starts.                       *)
AreNeighbours(s, p, q) ==
    /\ p # q /\ p.start <= q.start
    /\ ~ \E r \in s : p.start < r.start /\ r.start < q.start

(* A plausible bug: one partition may start on the day another ends.       *)
Overlaps_SharedDay(s) == \E p, q \in s : AreNeighbours(s, p, q) /\ p.end > q.start

(* PartitionScheme.__post_init__: sorted by start, each against the next.  *)
Overlaps(s) == \E p, q \in s : AreNeighbours(s, p, q) /\ p.end >= q.start

DefineScheme(s) ==
    /\ ~Overlaps(s)     \* otherwise ValueError
    /\ scheme' = s
    /\ UNCHANGED <<task, performed, result, ledgers, report, restarts>>

-----------------------------------------------------------------------------
(* Research campaigns.                                                     *)

(* FalsificationEngine.evaluate: deflated Sharpe ratios in percent, the    *)
(* spread in basis points.                                                 *)
Falsification(lookahead, dsr, minDsr, spike, spread) ==
    LET vectors == [lookahead_clean |-> ~lookahead, dsr_passed |-> dsr >= minDsr,
                    sensitivity_passed |-> ~spike, cost_resilient |-> spread > 15]
    IN  [vectors |-> vectors, passed |-> \A v \in DOMAIN vectors : vectors[v]]

(* Of each hypothesis four messages, a falsification report, and a verdict *)
(* under its identifier, shared with others of the same name.              *)
Campaign(agenda, f) ==
    [dialogue |-> agenda, reports |-> [k \in DOMAIN agenda |-> f],
     verdicts |-> [h \in ToSet(agenda) |-> IF f.passed THEN "VALIDATED" ELSE "REJECTED"]]

(* The report is stored with the hash of everything else in it.            *)
Hashed(body) == [body |-> body, hash |-> body]

(* ReportVerifier.verify.                                                  *)
Verifies(file) == file # None /\ file.hash = file.body

(* ResearchCampaignService.run_campaign: every hypothesis is falsified     *)
(* with the same figures, which no backtest or statistic has produced.     *)
RunCampaign(agenda) ==
    /\ report' = Hashed(Campaign(agenda, Falsification(FALSE, 88, 80, FALSE, 45)))
    /\ UNCHANGED <<task, performed, result, ledgers, scheme, restarts>>

(* Someone changes a verdict in the file.                                  *)
EditReport ==
    /\ report # None
    /\ \E h \in DOMAIN report.body.verdicts :
          report' = [report EXCEPT !.body.verdicts[h] = "REJECTED"]
    /\ UNCHANGED <<task, performed, result, ledgers, scheme, restarts>>

-----------------------------------------------------------------------------
(* Nothing of this is stored: a new process starts with empty ledgers.     *)
Restart ==
    /\ restarts < MaxRestarts
    /\ restarts' = restarts + 1
    /\ task' = None /\ performed' = <<>> /\ result' = None
    /\ trials' = <<>> /\ holdouts' = <<>>
    /\ UNCHANGED <<time, scheme, report>>

Init ==
    /\ task = None /\ performed = <<>> /\ result = None
    /\ trials = <<>> /\ holdouts = <<>>
    /\ scheme = {} /\ report = None /\ time = 0 /\ restarts = 0

Next ==
    \/ \E c \in Candidates, sweeps \in BOOLEAN : BeginValidation(c, sweeps)
    \/ RunBacktest
    \/ \E detected \in SUBSET Gates : FinishValidation(detected)
    \/ \E g \in Campaigns, c \in Candidates, s \in Specs,
          sharpe \in {m.sharpe : m \in Measurements} : RecordTrial(g, c, s, sharpe)
    \/ \E c \in Candidates, p \in Holdouts, a \in Actors : OpenHoldout(c, p, a)
    \/ \E s \in Schemes : DefineScheme(s)
    \/ \E agenda \in Agendas : RunCampaign(agenda)
    \/ EditReport
    \/ Restart

Spec == Init /\ [][Next]_vars

-----------------------------------------------------------------------------
(* What makes a verdict and the research ledgers trustworthy.              *)

(* Types of the state (validation/); the partitions of an accepted scheme  *)
(* are disjoint, every one of every other, although only neighbours are    *)
(* compared (partitions.py, "validated for non-overlapping chronology").   *)
TypeOK ==
    /\ task # None => /\ task.candidate \in Candidates /\ task.sweeps \in BOOLEAN
                      /\ task.measured \in Seq(Measurements)
                      /\ Len(task.measured) = Len(performed)
    /\ result # None => /\ result.verdict \in ToSet(Verdicts)
                        /\ result.failed \subseteq Gates
    /\ \A k \in DOMAIN trials : trials[k].campaign \in Campaigns
    /\ \A k \in DOMAIN holdouts : holdouts[k].at < time
    /\ report # None => Len(report.body.reports) = Len(report.body.dialogue)
    /\ \A p, q \in scheme : p # q => (p.end < q.start \/ q.end < p.start)

(* run_validation deflates against exactly the backtests it has run, "the  *)
(* base configuration plus every sweep point", each of them once; a        *)
(* plateau is reported only over a flat surface of all sizes run; the cost *)
(* sweep meets the realized return at the base cost and is under water at  *)
(* 10 bps only for a candidate found fragile; and whatever else a caller   *)
(* or a measurement finds against the candidate never betters its verdict, *)
(* nor does any statistic lift one that failed a gate.  A campaign report  *)
(* that verifies has validated just the hypotheses that were falsified     *)
(* without success (research/report.py, "cryptographic integrity").        *)
VerdictRestsOnEvidence ==
    /\ Verifies(report) => \A k \in DOMAIN report.body.dialogue :
          report.body.reports[k].passed
              = (report.body.verdicts[report.body.dialogue[k]] = "VALIDATED")
    /\ result # None =>
        LET m == result.baseline
            evidence == result.evidence
            Rank(v) == CHOOSE k \in DOMAIN Verdicts : Verdicts[k] = v
        IN  /\ result.trials = Len(performed)
            /\ IsInjective(performed)
            /\ DOMAIN evidence.surface = {performed[k].size : k \in DOMAIN performed}
            /\ evidence.topology = "plateau" => \A j, k \in DOMAIN evidence.surface :
                 evidence.surface[j] - evidence.surface[k] < 35
            /\ evidence.topology = "spike" => \E j, k \in DOMAIN evidence.surface :
                 evidence.surface[j] - evidence.surface[k] > 75
            /\ result.sweeps =>
                 {performed[k].size : k \in DOMAIN performed} = TopKGrid \cup {TargetSize}
            /\ NetCagr(evidence.gross, m.turnover, SlippageBps) = m.cagr
            /\ NetCagr(evidence.gross, m.turnover, 10) < 0 => evidence.fragile
            /\ (result.failed # {}) = (result.verdict = "REJECTED")
            /\ \A failed \in SUBSET Gates, f, c, w \in BOOLEAN :
                 (/\ result.failed \subseteq failed /\ (evidence.fragile => f)
                  /\ (evidence.concentrated => c) /\ (result.warned => w)) =>
                    Rank(Verdict(failed, f, c, w)) <= Rank(result.verdict)

(* While a process lives its ledgers only grow: a trial stays where it was *)
(* recorded and as it was first observed, an access keeps its first actor  *)
(* and time, and no specification is recorded twice (trials.py, "preventing*)
(* silent deletion of negative research trials"; holdout.py, "one-way      *)
(* irreversible consumption").                                             *)
LedgersAreOneWay ==
    [][restarts' = restarts =>
        /\ IsPrefix(trials, trials')
        /\ \A j, k \in DOMAIN trials' : trials'[j].spec = trials'[k].spec => j = k
        /\ \A k \in DOMAIN holdouts : k \in DOMAIN holdouts' /\ holdouts'[k] = holdouts[k]]_vars
=============================================================================
