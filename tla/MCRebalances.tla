---------------------------- MODULE MCRebalances ----------------------------
(* Model checking: four names in two sectors and one without, a composite  *)
(* of a momentum and a volatility sleeve, weights in percent.              *)
EXTENDS Rebalances, TLC

MCInstruments == 1 .. 4
MCFactorWeights == [momentum_12_1 |-> 60, volatility_60d |-> 40]
MCDirection == [momentum_12_1 |-> 1, volatility_60d |-> -1]
MCSector == (1 :> "tech") @@ (2 :> "tech") @@ (3 :> "energy")
MCCrossSections == [momentum_12_1 |-> {<<3, 3, 1, 1>>, <<1, 2, 1, 2>>, <<1, 2>>},
                    volatility_60d |-> {<<3, 1, 1, 3>>, <<2, 2, 2, 2>>}]
MCAskedVariants == {[size |-> 0, drop |-> {}], [size |-> 3, drop |-> {}],
               [size |-> 0, drop |-> {"volatility_60d"}]}
MCMethods == {"equal", "inverse_volatility"}
MCRiskMetrics == {<<30, 10, 0, 20>>}

ASSUME MCDust == DustIsCovered
ASSUME MCSettles == AlwaysSettles
=============================================================================
