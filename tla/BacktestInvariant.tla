-------------------------- MODULE BacktestInvariant --------------------------
(***************************************************************************)
(* The strengthening of the safety properties of the backtest engine that  *)
(* every step preserves.                                                   *)
(***************************************************************************)
EXTENDS BacktestProperties

Outstanding == pending \cup remaining

(* The phases in which the pending orders are being worked off. *)
OpenPhases == {"actions", "orders", "failed"}

(* The last open that has looked at an outstanding order. *)
LastTried(o) ==
    IF phase \in OpenPhases /\ o \in pending THEN session - 1 ELSE session

(* Whatever happens, happens in a session; only a refused sale ends a run. *)
PhaseInv ==
    /\ phase # "next" => session \in 1 .. NumSessions
    /\ phase \notin OpenPhases => remaining = {}
    /\ phase # "failed" => error = NoError

(* An outstanding order is older than the session unless the session's own *)
(* decision has planned it, and no two of them have the same identifier.   *)
OutstandingInv ==
    /\ \A o \in Outstanding :
          /\ o.created <= session
          /\ phase \notin {"next", "done"} => o.created < session
          /\ o.created = session => o.state = "created"
    /\ \A o, p \in Outstanding : SameOrder(o, p) => o = p
    /\ pending \cap remaining = {}

(* An outstanding order was handed back, under the same terms, by every    *)
(* open since it was planned, and nothing else has happened to it.         *)
TrailInv ==
    \A o \in Outstanding :
        /\ \A s \in o.created + 1 .. LastTried(o) :
              \E a \in attempts : SameOrder(a, o) /\ a.at = s /\ a.state = "submitted"
        /\ \A a \in attempts :
              SameOrder(a, o) =>
                 /\ a.side = o.side /\ a.qty = o.qty
                 /\ a.state = "submitted"
                 /\ a.at <= LastTried(o)

(* The attempts lie between planning and now, and follow the life cycle.   *)
AttemptsInv ==
    /\ \A a \in attempts :
          /\ a.created < a.at /\ a.at <= session
          /\ a.state \in {"submitted"} \cup OrderStateTransitions["submitted"]
    /\ \A a, b \in attempts :
          SameOrder(a, b) =>
             /\ a.side = b.side /\ a.qty = b.qty
             /\ a.at < b.at => a.state = "submitted"
             /\ a.at = b.at => a = b

(* What the current open handed back is still outstanding. *)
KeptInv ==
    \A a \in attempts :
        a.at = session /\ a.state = "submitted" =>
            \E o \in IF phase \in OpenPhases THEN remaining ELSE pending : SameOrder(a, o)

FillsInv ==
    /\ \A f \in fills : f.at <= session
    /\ OneFillPerOrder
    /\ FilledAtFirstExecutableOpen

(* A held instrument has been observed, before the session or in it. *)
PriceInv ==
    \A i \in Instruments :
        acct.lots[i].qty > 0 =>
            \/ lastKnown[i] > NoPrice
            \/ phase \in {"actions", "orders", "marking", "failed"} /\ bars[i] # NoBar

(* The value a position has at its last observed close. *)
CarriedValue(i) == Cash(acct.lots[i].qty * lastKnown[i])

(* In a market without splits the last mark of a held position is its      *)
(* value at the last observed close; only an instrument that has a bar in  *)
(* the session may be traded off it, until the close marks it again.       *)
MarksInv ==
    \A i \in Instruments :
        acct.lots[i].qty > 0 =>
            /\ phase \in {"next", "rebalance", "done"} => marks[i] = CarriedValue(i)
            /\ phase \in OpenPhases \/ (phase = "marking" /\ i \in unmarked) =>
                  (bars[i] = NoBar => marks[i] = CarriedValue(i))
            /\ phase = "marking" /\ i \notin unmarked =>
                  marks[i] = MarketValue(acct.lots[i], CloseOf(i), lastKnown[i])

(* A pending sale can be delivered unless it went stale. *)
SalesInv ==
    /\ \A o \in pending :
          o.side = "sell" =>
             \/ o.qty <= acct.lots[o.inst].qty
             \/ ActionSincePlanned(o)
             \/ SaleCarriedOver(o)
    /\ FailsOnlyOnStaleSale

IInv ==
    /\ TypeOK
    /\ PhaseInv
    /\ OutstandingInv
    /\ TrailInv
    /\ AttemptsInv
    /\ KeptInv
    /\ FillsInv
    /\ PriceInv
    /\ SalesInv
=============================================================================
