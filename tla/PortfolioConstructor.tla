------------------------ MODULE PortfolioConstructor ------------------------
(***************************************************************************)
(* From scores to target weights: TopKBufferSelector, the two weighting    *)
(* schemes and PortfolioConstructor.construct.  A weight is an integer     *)
(* number of the units Decimal weights are quantized to.                   *)
(***************************************************************************)
EXTENDS Composites, Decimals, Functions

CONSTANTS
    Scale,              \* units in a weight of 1: 10^6 in the code
    CashBuffer,         \* cash_buffer_pct, in units
    MaxNameWeight,      \* PortfolioSpec.max_name_weight, 0 for none
    DefaultVolatility   \* 0.20, in the unit of the risk metrics

ASSUME ConstructorAssumption ==
    /\ Scale \in Nat \ {0} /\ CashBuffer \in 0 .. Scale
    /\ MaxNameWeight \in 0 .. Scale /\ DefaultVolatility \in Nat \ {0}

(* Descending score, ascending id.                                         *)
IsAhead(scores, i, j) ==
    \/ Higher(scores[i], scores[j])
    \/ ~Higher(scores[j], scores[i]) /\ i < j

(* rank_map: instrument -> rank.                                           *)
Ranks(scores) ==
    Table([i \in DOMAIN scores |-> 1 + Cardinality({j \in DOMAIN scores : IsAhead(scores, j, i)})])

(* The first n of S in the order of their ranks.                           *)
Best(ranks, S, n) == {i \in S : Cardinality({j \in S : ranks[j] < ranks[i]}) < n}

(* A plausible bug: a holding is kept only inside the target size.         *)
Incumbents_NoBuffer(ranks, holdings, size, buffer) ==
    Best(ranks, {i \in holdings \cap DOMAIN ranks : ranks[i] <= size}, size)

(* Step 1: the holdings within the buffer, best rank first.                *)
Incumbents(ranks, holdings, size, buffer) ==
    Best(ranks, {i \in holdings \cap DOMAIN ranks : ranks[i] <= buffer}, size)

(* Step 2 fills the remaining seats from the top.                          *)
Select(ranks, holdings, size, buffer) ==
    LET incumbents == Incumbents(ranks, holdings, size, buffer)
    IN  incumbents \cup Best(ranks, DOMAIN ranks \ incumbents, size - Cardinality(incumbents))

(* selected_assets[0]: the result is sorted by rank.                       *)
Top(ranks, selected) == CHOOSE i \in selected : \A j \in selected : ranks[i] <= ranks[j]

(* A plausible bug: the rounding difference is left unallocated.           *)
WithDust_Lost(weights, top, gross) == weights

(* What rounding left over, or took too much, goes to the best ranked.     *)
WithDust(weights, top, gross) ==
    [weights EXCEPT ![top] = @ + gross - Total(weights, DOMAIN weights)]

EqualWeights(selected, top, gross) ==
    WithDust([i \in selected |-> RoundHalfEven(gross, Cardinality(selected))], top, gross)

(* A missing or vanishing volatility is replaced by the default.           *)
Volatilities(selected, metrics) ==
    [i \in selected |-> IF i \in DOMAIN metrics /\ metrics[i] > 0
                       THEN metrics[i] ELSE DefaultVolatility]

(* With volatilities v, 1 / v over the sum of them is Product \div v over  *)
(* the sum of those, Product being that of all of them.                    *)
InverseVolatilityWeights(selected, top, gross, metrics) ==
    LET vol == Volatilities(selected, metrics)
        product == FoldFunction(LAMBDA x, y : x * y, 1, vol)
        inverse == [i \in selected |-> product \div vol[i]]
        Fraction(i) == RoundHalfEven(Scale * inverse[i], Total(inverse, selected))
    IN  WithDust([i \in selected |-> RoundHalfEven(gross * Fraction(i), Scale)], top, gross)

Weights(method, selected, top, metrics) ==
    IF method = "inverse_volatility"
    THEN InverseVolatilityWeights(selected, top, Scale - CashBuffer, metrics)
    ELSE EqualWeights(selected, top, Scale - CashBuffer)

Capped(weights, cap) ==
    [i \in DOMAIN weights |-> IF weights[i] > cap THEN cap ELSE weights[i]]

(* No cap is applied where none is given.                                  *)
Targeted(weights) == IF MaxNameWeight = 0 THEN weights ELSE Capped(weights, MaxNameWeight)

(* PortfolioConstructor.construct: instrument -> target weight.            *)
Construct(scores, holdings, size, buffer, method, metrics) ==
    LET ranks == Ranks(scores)
        selected == Select(ranks, holdings, size, buffer)
    IN  IF selected = {} THEN <<>>
        ELSE Targeted(Table(Weights(method, selected, Top(ranks, selected), metrics)))
=============================================================================
