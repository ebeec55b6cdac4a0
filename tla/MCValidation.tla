---------------------------- MODULE MCValidation ----------------------------
(* Model checking: one candidate, a grid of two sizes, two holdouts and a  *)
(* composite of two factors; measurements on both sides of the thresholds. *)
EXTENDS Validation

MCM(sharpe, cagr, turnover, weights, sector, significant) ==
    [sharpe |-> sharpe, cagr |-> cagr, turnover |-> turnover, weights |-> weights,
     topSector |-> sector, significant |-> significant]

TenNames == [k \in 1 .. 10 |-> 10]

(* In order: sound in every respect, up to the limit of a sector; only too *)
(* insignificant for many trials; under water at 10 bps, with the greatest *)
(* HHI that is allowed; concentrated and just not under water at 10 bps;   *)
(* losing before costs, and a sector above its limit.                      *)
MCMeasurements == {
    MCM(112, 900, 3, TenNames, 40, TRUE),
    MCM(112, 900, 3, TenNames, 30, FALSE),
    MCM(20, 99, 10, <<30, 20, 10, 10>>, 30, FALSE),
    MCM(20, 100, 10, <<30, 25, 20>>, 30, FALSE),
    MCM(20, -50, 3, TenNames, 41, FALSE) }
MCAgendas == {<<"HYP-001", "HYP-001">>}
MCSchemes ==
    LET P(id, a, b) == [id |-> id, start |-> a, end |-> b]
    IN  {{P("train", 1, 3), P("validation", 4, 5), P("test", 6, 9)},
         {P("train", 1, 8), P("validation", 2, 3), P("test", 4, 5)},
         {P("train", 1, 3), P("test", 3, 5)}}

(* Names that no operation tells apart.                                    *)
MCSymmetry == Permutations(Campaigns) \cup Permutations(Specs) \cup Permutations(Holdouts)
=============================================================================
