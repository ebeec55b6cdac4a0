----------------------------- MODULE RiskEngine -----------------------------
(***************************************************************************)
(* RiskEngine.apply: the name cap, the sector caps and the gross cap are   *)
(* applied in turn until a round changes nothing, and a target that does   *)
(* not settle within max_iterations rounds is rejected unadjusted.         *)
(***************************************************************************)
EXTENDS PortfolioConstructor

CONSTANTS
    Sector,             \* instrument -> sector, where known; empty: no mapping
    RiskNameWeight,     \* RiskSpec.max_name_weight
    SectorWeight,       \* max_sector_weight
    UnknownSectorWeight,\* max_unknown_sector_weight
    GrossCap,           \* gross_exposure_cap
    RiskCashBuffer,     \* min_cash_buffer_pct
    MaxIterations       \* max_iterations: 10

ASSUME RiskAssumption ==
    /\ RiskNameWeight \in Nat /\ SectorWeight \in Nat /\ UnknownSectorWeight \in Nat
    /\ GrossCap \in Nat /\ RiskCashBuffer \in 0 .. GrossCap
    /\ MaxIterations \in Nat \ {0}

SectorOf(i) == IF i \in DOMAIN Sector THEN Sector[i] ELSE "UNKNOWN"

SectorCap(s) == IF s = "UNKNOWN" THEN UnknownSectorWeight ELSE SectorWeight

MaxAllowed == GrossCap - RiskCashBuffer

Peers(weights, i) == {j \in DOMAIN weights : SectorOf(j) = SectorOf(i)}

(* A plausible bug: a name without a sector is under no cap.               *)
ScaledBySector_KnownOnly(weights) ==
    [i \in DOMAIN weights |->
        LET total == Total(weights, Peers(weights, i))
        IN  IF i \in DOMAIN Sector /\ total > SectorWeight
            THEN RoundHalfEven(weights[i] * SectorWeight, total) ELSE weights[i]]

OverSector(weights, i) ==
    /\ DOMAIN Sector # {}
    /\ Total(weights, Peers(weights, i)) > SectorCap(SectorOf(i))

ScaledBySector(weights) ==
    [i \in DOMAIN weights |->
        IF OverSector(weights, i)
        THEN RoundHalfEven(weights[i] * SectorCap(SectorOf(i)), Total(weights, Peers(weights, i)))
        ELSE weights[i]]

OverGross(weights) == Total(weights, DOMAIN weights) > MaxAllowed

ScaledToGross(weights) ==
    IF OverGross(weights)
    THEN [i \in DOMAIN weights |->
            RoundHalfEven(weights[i] * MaxAllowed, Total(weights, DOMAIN weights))]
    ELSE weights

(* One round of the three constraints.                                     *)
Round(weights) ==
    Table(ScaledToGross(Table(ScaledBySector(Table(Capped(weights, RiskNameWeight))))))

(* Some constraint of the first round adjusts.                             *)
Adjusts(target) ==
    LET capped == Capped(target, RiskNameWeight)
    IN  \/ capped # target
        \/ \E i \in DOMAIN target : OverSector(capped, i)
        \/ OverGross(ScaledBySector(capped))

(* The weights after each round.                                           *)
Rounds(target) ==
    LET after[n \in 0 .. MaxIterations] ==
            IF n = 0 THEN target ELSE Round(after[n - 1])
    IN  after

(* A plausible bug: names brought down to nothing stay in the target.      *)
Positive_All(weights) == weights

Positive(weights) == Restrict(weights, {i \in DOMAIN weights : weights[i] > 0})

(* The decision: the weights of the round that changed nothing, or the     *)
(* target as it came with a rejection.                                     *)
Apply(target) ==
    LET after == Table(Rounds(target))
        settled == {n \in 1 .. MaxIterations : after[n] = after[n - 1]}
    IN  IF DOMAIN target = {} THEN [status |-> "pass", target |-> target]
        ELSE IF settled = {} THEN [status |-> "reject", target |-> target]
        ELSE [status |-> IF Adjusts(target) THEN "adjust" ELSE "pass",
              target |-> Positive(after[Min(settled)])]
=============================================================================
