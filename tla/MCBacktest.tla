----------------------------- MODULE MCBacktest -----------------------------
(***************************************************************************)
(* Small markets for the model checker.                                    *)
(***************************************************************************)
EXTENDS BacktestBooks

MCBar(o, c, v) == [open |-> o, close |-> c, volume |-> v]

(* A thin bar fills one share; one without volume fills none.             *)
MCBars == {MCBar(2, 2, 8), MCBar(4, 3, 2), MCBar(2, 4, 0)}
MCLiquidBars == {MCBar(2, 2, 40), MCBar(4, 4, 40), MCBar(4, 2, 40)}

MCSplits == {<<2, 1>>, <<1, 2>>}
MCDividends == {1}
MCDelistings == {0, 2}

MCInstruments == 1 .. NumInstruments
MCAllIn == {[i \in MCInstruments |-> w] : w \in {0, WeightUnit}}
MCSwitch == {w \in [MCInstruments -> {0, WeightUnit}] :
                \A i, j \in MCInstruments : i # j => w[i] + w[j] <= WeightUnit}
=============================================================================
