-------------------------- MODULE PaperProperties --------------------------
(***************************************************************************)
(* What the paper account's store and its recovery must get right.         *)
(***************************************************************************)
EXTENDS PaperRecovery

(* Every variable has its type; a sale of more than is held leaves no      *)
(* negative holding.                                                       *)
TypeOK ==
    /\ phase \in Phase
    /\ quotes \in [Instruments -> Nat]
    /\ account \in BrokerAccount \cup {NoAccount}
    /\ clock \in Int
    /\ made \in Seq(Fill)
    /\ recorded \in 0 .. Len(made)
    /\ ledger \subseteq Fill
    /\ stored # NoAccount => LoadAccount(stored) \in BrokerAccount
    /\ toReplay \subseteq ledger
    /\ recovered \in BrokerAccount \cup {NoAccount}
    /\ crashes \in Nat
    /\ history \in Seq(BrokerAccount)

(* What the recovery builds from the ledger is the account the broker had  *)
(* after the last fill the ledger holds, to the tick and the share: no     *)
(* fill counts twice, none out of turn, and a crash during the recovery    *)
(* changes nothing.  (recovery.py: reconstruct_from_fills;                 *)
(* scripts/restore_drill.py)                                               *)
RecoversPastAccount ==
    phase = "recovered" => recovered = history[Cardinality(ledger) + 1]

(* The saved account is one the broker really had, cash and positions of   *)
(* the same moment, and never one that reflects a fill the ledger lacks:   *)
(* the ledger alone is enough to rebuild it.  (persistence.py:             *)
(* save_account, load_account)                                             *)
SavedAccountInLedger ==
    stored # NoAccount =>
        \E n \in 0 .. Cardinality(ledger) : LoadAccount(stored) = history[n + 1]

(* The ledger and its replay keep the promise of DurableAccount: what      *)
(* survives is a growing prefix of the account's changes.                  *)
Durable == INSTANCE DurableAccount WITH
    InitialAccount <- NewAccount,
    history <- history,
    durable <- recorded,
    view <- IF phase = "recovered" THEN recovered ELSE NoAccount

LedgerIsDurable == Durable!Spec

(* Once crashes stop, the recovery comes to its end, whatever the ledger   *)
(* holds.  (recovery.py: the replay loop)                                  *)
RecoveryEnds == (phase = "down") ~> (phase = "recovered")

-----------------------------------------------------------------------------
(* The inductive invariant.  It relates the ledger and the account under   *)
(* recovery to the sequence of fills made, and needs a clock that advances *)
(* from one fill to the next: only then is replaying in the order of the   *)
(* timestamps replaying in the order in which the broker filled.           *)
ClockAdvances == \A d \in ClockSteps : d > 0

HistoryInv ==
    /\ Len(history) = Len(made) + 1
    /\ history[1] = NewAccount
    /\ \A k \in 1 .. Len(made) : history[k + 1] = AfterFill(history[k], made[k])
    /\ phase = "live" => account = history[Len(history)]

FillsInv ==
    /\ \A k \in 1 .. Len(made) : made[k].filledAt <= clock
    /\ \A j, k \in 1 .. Len(made) :
          j < k => made[j].filledAt < made[k].filledAt /\ made[j].id # made[k].id

LedgerInv ==
    /\ ledger = {made[k] : k \in 1 .. recorded}
    /\ IsFiniteSet(ledger)
    /\ Cardinality(ledger) = recorded

SavedInv ==
    stored # NoAccount =>
        \E n \in 0 .. recorded : LoadAccount(stored) = history[n + 1]

(* n fills are replayed, the rest is yet to come. *)
ReplayedUpTo(n) ==
    /\ recovered = history[n + 1]
    /\ toReplay = {made[k] : k \in n + 1 .. recorded}

ReplayInv ==
    /\ phase \in {"live", "down"} => recovered = NoAccount /\ toReplay = {}
    /\ phase = "replaying" => \E n \in 0 .. recorded : ReplayedUpTo(n)
    /\ phase = "recovered" => ReplayedUpTo(recorded)

IInv == TypeOK /\ HistoryInv /\ FillsInv /\ LedgerInv /\ SavedInv /\ ReplayInv
=============================================================================
