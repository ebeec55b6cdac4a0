------------------------------ MODULE MCStudy ------------------------------
(* Model checking: eight months of two or three days, three names, of which  *)
(* one stops trading for a day or lists late in some builds.               *)
EXTENDS Study

MCInstruments == {"a", "b", "c"}
MCMonth == <<1, 1, 2, 2, 3, 3, 3, 4, 4, 5, 5, 6, 6, 7, 7, 8, 8>>

MCBar(i, d, close) == [inst |-> i, session |-> d, observed |-> 2 * d + 1, close |-> close]

MCFull(close) == {MCBar(i, d, close) : i \in MCInstruments, d \in 1 .. 17}
MCHalted == {b \in MCFull(1) : b.inst # "c" \/ b.session # 5}
MCShort == {b \in MCFull(2) : b.session <= 14}
MCDatasets == {MCFull(1), MCHalted, MCShort}

MCFiling(metric, period, available, id) ==
    [inst |-> "a", metric |-> metric, period |-> period, available |-> available,
     value |-> 1, id |-> id]

MCFilings == {MCFiling("net_income", 2, 6, 1), MCFiling("net_income", 2, 9, 2)}

MCFeatures == {"momentum_12_1", "volatility_60d"}
MCFactorWeights == [f \in MCFeatures |-> IF f = "momentum_12_1" THEN 60 ELSE 40]
MCRequests == {[from |-> 1, to |-> 17, horizon |-> 2]}
MCDecayHorizons == {1, 3}

ASSUME MCPurge == PurgeCoversLabels
=============================================================================
