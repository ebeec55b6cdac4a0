----------------------------- MODULE Composites -----------------------------
(***************************************************************************)
(* The composite score of an instrument: each factor's cross-section is    *)
(* normalised and the normalised values are averaged with the factor       *)
(* weights (transforms.transform_cross_section, CompositeBuilder.build).   *)
(*                                                                         *)
(* A cross-section is a function on the instruments that have a value;     *)
(* the others are missing.  A composite score is the exact ratio the code  *)
(* computes in floats: the weighted sum and the weight it was made of.     *)
(* The last normalisation of the scores keeps their order, which is all    *)
(* that is read of them, and is left out.                                  *)
(***************************************************************************)
EXTENDS Integers, FiniteSets, FiniteSetsExt

CONSTANTS
    Instruments,        \* integers, ordered as the UUID strings are
    FactorWeights,      \* factor id -> percent of the composite
    Direction,          \* factor id -> 1 or -1, as the factor's definition declares
    MinWeightPercent    \* min_weight_fraction

ASSUME CompositesAssumption ==
    /\ Instruments \subseteq Int /\ IsFiniteSet(Instruments)
    /\ IsFiniteSet(DOMAIN FactorWeights)
    /\ \A f \in DOMAIN FactorWeights : FactorWeights[f] \in 1 .. 100
    /\ \A f \in DOMAIN FactorWeights : Direction[f] \in {1, -1}
    /\ MinWeightPercent \in 1 .. 100

Factors == DOMAIN FactorWeights

Total(f, S) == MapThenSumSet(LAMBDA x : f[x], S)

(* f itself; TLC computes its values once, to compare it.                  *)
Table(f) == CHOOSE g \in {f} : g = f

(* Two levels with as many instruments above the mean as below it, or one  *)
(* level: then a z-score is -1, 0 or 1.  Winsorizing at the 1st and 99th   *)
(* percentile moves nothing in a cross-section of at most 100 values.      *)
Balanced(values) ==
    LET D == DOMAIN values
        levels == {values[i] : i \in D}
    IN  \/ Cardinality(levels) <= 1
        \/ /\ Cardinality(levels) = 2
           /\ \A x, y \in levels :
                Cardinality({i \in D : values[i] = x}) = Cardinality({i \in D : values[i] = y})

(* zscore_cross_section of a balanced cross-section.                       *)
ZScore(values) ==
    LET D == DOMAIN values
        sum == Total(values, D)
        n == Cardinality(D)
    IN  Table([i \in D |-> IF n * values[i] > sum THEN 1
                           ELSE IF n * values[i] < sum THEN -1 ELSE 0])

Transform(values, direction) ==
    LET z == ZScore(values) IN IF direction = -1 THEN [i \in DOMAIN z |-> -z[i]] ELSE z

(* A plausible bug: an instrument is scored whatever share of the model    *)
(* it has.                                                                 *)
Combine_AnyShare(components, kept) ==
    LET z == Table([f \in kept |-> Transform(components[f], 1)])
        Having(i) == {f \in kept : i \in DOMAIN z[f]}
    IN  Table([i \in {i \in Instruments : Having(i) # {}} |->
            [sum |-> Total([f \in Having(i) |-> FactorWeights[f] * z[f][i]], Having(i)),
             weight |-> Total(FactorWeights, Having(i))]])

(* CompositeBuilder.build for the factors in kept, whose weights are       *)
(* renormalised: TransformSpec(winsorize, zscore) leaves direction at its  *)
(* default of 1 whatever the factor declares.                              *)
Combine(components, kept) ==
    LET z == Table([f \in kept |-> Transform(components[f], 1)])
        Having(i) == {f \in kept : i \in DOMAIN z[f]}
        Enough(i) == 100 * Total(FactorWeights, Having(i))
                        >= MinWeightPercent * Total(FactorWeights, kept)
    IN  Table([i \in {i \in Instruments : Enough(i)} |->
            [sum |-> Total([f \in Having(i) |-> FactorWeights[f] * z[f][i]], Having(i)),
             weight |-> Total(FactorWeights, Having(i))]])

Higher(a, b) == a.sum * b.weight > b.sum * a.weight
=============================================================================
