---------------------------- MODULE PaperProofs ----------------------------
(***************************************************************************)
(* Proofs about the paper account's ledger and its recovery, for every set *)
(* of instruments, quotes, quantities and fill identifiers, every number   *)
(* of fills and crashes, and every clock that advances between two fills.  *)
(***************************************************************************)
EXTENDS PaperProperties, FiniteSetTheorems, SequenceTheorems, TLAPS

-----------------------------------------------------------------------------
(* One order and one fill.                                                 *)

LEMMA RoundInt ==
    ASSUME NEW n \in Int, NEW d \in Nat \ {0}
    PROVE  RoundHalfEven(n, d) \in Int
  BY DEF RoundHalfEven

LEMMA ProductInt == ASSUME NEW m \in Int, NEW n \in Int PROVE m * n \in Int
  OBVIOUS

LEMMA FillPriceType ==
    ASSUME NEW q \in Nat, NEW s \in PaperOrderSide
    PROVE  FillPrice(q, s) \in Int
<1>1. Multiplier(s) \in Int
  BY SlippageAssumption DEF Multiplier, BpsUnit
<1>2. q * Multiplier(s) \in Int
  BY <1>1, ProductInt
<1>3. QED
  BY <1>2, RoundInt DEF FillPrice, BpsUnit

LEMMA NewAccountType == NewAccount \in BrokerAccount
  BY CashAssumption DEF NewAccount, BrokerAccount

(* The account stays an account: no fill makes a holding negative.         *)
LEMMA AfterFillType ==
    ASSUME NEW a \in BrokerAccount, NEW f \in Fill
    PROVE  AfterFill(a, f) \in BrokerAccount
<1>1. /\ f.inst \in Instruments /\ f.side \in PaperOrderSide
      /\ f.qty \in Nat /\ f.price \in Int /\ f.commission \in Nat
  BY QuantityAssumption DEF Fill
<1>2. f.price * f.qty \in Int
  BY <1>1, ProductInt
<1>3. a.cash \in Int /\ a.held \in [Instruments -> Nat]
  BY DEF BrokerAccount
<1>4. /\ a.cash - (f.price * f.qty + f.commission) \in Int
      /\ a.cash + (f.price * f.qty - f.commission) \in Int
  BY <1>1, <1>2, <1>3
<1>5. /\ [a.held EXCEPT ![f.inst] = @ + f.qty] \in [Instruments -> Nat]
      /\ [a.held EXCEPT ![f.inst] = Positive(@ - f.qty)] \in [Instruments -> Nat]
  BY <1>1, <1>3 DEF Positive
<1>6. QED
  BY <1>4, <1>5 DEF AfterFill, BrokerAccount

(* The recovery's arithmetic is the adapter's: the two are written twice   *)
(* in the source and agree on every account and every fill.                *)
THEOREM ReplayAgrees ==
    ASSUME NEW a \in BrokerAccount, NEW f \in Fill
    PROVE  Replayed(a, f) = AfterFill(a, f)
  BY DEF Replayed, AfterFill, Positive

(* Saving an account and loading it gives the account back.                *)
LEMMA LoadSaved ==
    ASSUME NEW s, NEW a \in BrokerAccount
    PROVE  LoadAccount(Saved(s, a)) = a
<1>1. a = [cash |-> a.cash, held |-> a.held] /\ a.held \in [Instruments -> Nat]
  BY DEF BrokerAccount
<1>2. [i \in Instruments |->
          IF i \in DOMAIN PositionRows(a) THEN PositionRows(a)[i] ELSE 0] = a.held
  BY <1>1 DEF PositionRows
<1>3. QED
  BY <1>1, <1>2 DEF LoadAccount, Saved

-----------------------------------------------------------------------------
(* The inductive invariant.                                                *)

LEMMA InitInvariant == Init => IInv
<1> SUFFICES ASSUME Init PROVE IInv
  OBVIOUS
<1>1. TypeOK
  BY NewAccountType, QuoteAssumption DEF Init, TypeOK, Phase
<1>2. HistoryInv
  BY DEF Init, HistoryInv
<1>3. FillsInv
  BY DEF Init, FillsInv
<1>4. LedgerInv
  BY FS_EmptySet DEF Init, LedgerInv
<1>5. SavedInv /\ ReplayInv
  BY DEF Init, SavedInv, ReplayInv
<1>6. QED
  BY <1>1, <1>2, <1>3, <1>4, <1>5 DEF IInv

LEMMA SetPricesInvariant ==
    ASSUME IInv, NEW i \in Instruments, NEW q \in Quotes, SetPrices(i, q)
    PROVE  IInv'
<1> USE DEF SetPrices, store, recovery
<1>1. TypeOK'
  BY QuoteAssumption DEF IInv, TypeOK
<1>2. HistoryInv' /\ FillsInv' /\ LedgerInv' /\ SavedInv'
  BY DEF IInv, HistoryInv, FillsInv, LedgerInv, SavedInv
<1>3. ReplayInv'
  BY DEF IInv, ReplayInv, ReplayedUpTo
<1>4. QED
  BY <1>1, <1>2, <1>3 DEF IInv

LEMMA SubmitOrderInvariant ==
    ASSUME IInv, ClockAdvances,
           NEW i \in Instruments, NEW side \in PaperOrderSide,
           NEW qty \in Quantities, NEW id \in FillIds, NEW d \in ClockSteps,
           SubmitOrder(i, side, qty, id, d)
    PROVE  IInv'
<1> DEFINE f == Stamped(Executed(i, side, qty, quotes[i]), id, clock + d)
           n == Len(made)
<1>1. /\ phase = "live" /\ phase' = "live" /\ Fresh(id) /\ clock' = clock + d
      /\ account' = AfterFill(account, f)
      /\ made' = Append(made, f)
      /\ history' = Append(history, AfterFill(account, f))
      /\ UNCHANGED <<quotes, recorded, ledger, stored, toReplay, recovered, crashes>>
  BY DEF SubmitOrder, store, recovery
<1>2. d \in Int /\ d > 0 /\ clock \in Int
  BY ClockAssumption DEF ClockAdvances, IInv, TypeOK
<1>3. f \in Fill
  <2>1. quotes[i] \in Nat
    BY DEF IInv, TypeOK
  <2>2. FillPrice(quotes[i], side) \in Int
    BY <2>1, FillPriceType
  <2>3. QED
    BY <2>2, <1>2, CommissionAssumption DEF Fill, Stamped, Executed
<1>4. f.filledAt = clock + d /\ f.id = id
  BY DEF Stamped
<1>5. account \in BrokerAccount
  BY <1>1, ElementOfSeq DEF IInv, TypeOK, HistoryInv
<1>6. AfterFill(account, f) \in BrokerAccount
  BY <1>3, <1>5, AfterFillType
<1>7. made \in Seq(Fill) /\ history \in Seq(BrokerAccount) /\ n \in Nat
  BY LenProperties DEF IInv, TypeOK
<1> HIDE DEF f
<1>8. /\ made' \in Seq(Fill) /\ Len(made') = n + 1 /\ made'[n + 1] = f
      /\ \A k \in 1 .. n : made'[k] = made[k]
  BY <1>1, <1>3, <1>7, AppendProperties
<1>9. /\ history' \in Seq(BrokerAccount) /\ Len(history') = n + 2
      /\ history'[n + 2] = AfterFill(account, f)
      /\ \A k \in 1 .. n + 1 : history'[k] = history[k]
  BY <1>1, <1>6, <1>7, AppendProperties DEF IInv, HistoryInv
<1>10. TypeOK'
  BY <1>1, <1>2, <1>6, <1>7, <1>8, <1>9 DEF IInv, TypeOK
<1>11. HistoryInv'
  BY <1>1, <1>7, <1>8, <1>9 DEF IInv, HistoryInv
<1>12. FillsInv'
  <2>1. \A k \in 1 .. n : made[k].filledAt \in Int
    <3>1. \A k \in 1 .. n : made[k] \in Fill
      BY <1>7, ElementOfSeq
    <3>2. QED
      BY <3>1 DEF Fill
  <2>2. \A k \in 1 .. n : made[k].filledAt <= clock /\ made[k].id # id
    BY <1>1 DEF IInv, FillsInv, Fresh
  <2>3. \A k \in 1 .. n : made[k].filledAt < f.filledAt /\ made[k].id # f.id
    BY <1>2, <1>4, <2>1, <2>2
  <2>4. \A k \in 1 .. n + 1 : made'[k].filledAt <= clock'
    BY <1>1, <1>2, <1>4, <1>7, <1>8, <2>1, <2>2
  <2>5. ASSUME NEW j \in 1 .. n + 1, NEW k \in 1 .. n + 1, j < k
        PROVE  made'[j].filledAt < made'[k].filledAt /\ made'[j].id # made'[k].id
    <3>1. CASE k = n + 1
      <4>1. j \in 1 .. n
        BY <1>7, <2>5, <3>1
      <4>2. made'[j] = made[j] /\ made'[k] = f
        BY <1>8, <3>1, <4>1
      <4>3. QED
        BY <2>3, <4>1, <4>2
    <3>2. CASE k # n + 1
      <4>1. j \in 1 .. n /\ k \in 1 .. n
        BY <1>7, <2>5, <3>2
      <4>2. made'[j] = made[j] /\ made'[k] = made[k]
        BY <1>8, <4>1
      <4>3. QED
        BY <2>5, <4>1, <4>2 DEF IInv, FillsInv
    <3>3. QED
      BY <3>1, <3>2
  <2>6. QED
    BY <1>8, <2>4, <2>5 DEF FillsInv
<1>13. recorded \in 0 .. n
  BY DEF IInv, TypeOK
<1>14. LedgerInv'
  BY <1>1, <1>7, <1>8, <1>13 DEF IInv, LedgerInv
<1>15. SavedInv'
  BY <1>1, <1>7, <1>9, <1>13 DEF IInv, SavedInv
<1>16. ReplayInv'
  BY <1>1 DEF IInv, ReplayInv
<1>17. QED
  BY <1>10, <1>11, <1>12, <1>14, <1>15, <1>16 DEF IInv

LEMMA RecordFillInvariant ==
    ASSUME IInv, RecordFill
    PROVE  IInv'
<1> DEFINE f == made[recorded + 1]
<1>1. /\ phase = "live" /\ recorded < Len(made) /\ recorded' = recorded + 1
      /\ ledger' = WithRow(ledger, f)
      /\ UNCHANGED <<phase, quotes, account, clock, made, history, stored,
                     toReplay, recovered, crashes>>
  BY DEF RecordFill, broker, recovery
<1>2. recorded \in Nat /\ recorded + 1 \in 1 .. Len(made) /\ made \in Seq(Fill)
      /\ Len(made) \in Nat
  BY <1>1, LenProperties DEF IInv, TypeOK
<1>3. f \in Fill
  BY <1>2, ElementOfSeq
<1>4. \A g \in ledger : g.id # f.id
  BY <1>2 DEF IInv, LedgerInv, FillsInv
<1>5. ledger' = ledger \cup {f} /\ f \notin ledger
  BY <1>1, <1>4 DEF WithRow
<1>6. 1 .. recorded + 1 = (1 .. recorded) \cup {recorded + 1}
  BY <1>2
<1>7. LedgerInv'
  <2>1. ledger' = {made[k] : k \in 1 .. recorded + 1}
    BY <1>5, <1>6 DEF IInv, LedgerInv
  <2>2. IsFiniteSet(ledger') /\ Cardinality(ledger') = recorded + 1
    BY <1>5, FS_AddElement DEF IInv, LedgerInv
  <2>3. QED
    BY <1>1, <2>1, <2>2 DEF LedgerInv
<1>8. TypeOK'
  BY <1>1, <1>2, <1>3, <1>5 DEF IInv, TypeOK
<1>9. HistoryInv' /\ FillsInv' /\ ReplayInv'
  BY <1>1 DEF IInv, HistoryInv, FillsInv, ReplayInv
<1>10. SavedInv'
  BY <1>1, <1>2 DEF IInv, SavedInv
<1>11. QED
  BY <1>7, <1>8, <1>9, <1>10 DEF IInv

LEMMA SaveAccountInvariant ==
    ASSUME IInv, SaveAccount
    PROVE  IInv'
<1>1. /\ phase = "live" /\ recorded = Len(made) /\ stored' = Saved(stored, account)
      /\ UNCHANGED <<phase, quotes, account, clock, made, history, recorded,
                     ledger, toReplay, recovered, crashes>>
  BY DEF SaveAccount, broker, recovery
<1>2. /\ account = history[recorded + 1] /\ account \in BrokerAccount
      /\ recorded \in Nat
  BY <1>1, ElementOfSeq, LenProperties DEF IInv, TypeOK, HistoryInv
<1>3. LoadAccount(stored') = account
  BY <1>1, <1>2, LoadSaved
<1>4. TypeOK'
  <2>1. (stored # NoAccount => LoadAccount(stored) \in BrokerAccount)'
    BY <1>2, <1>3 DEF LoadAccount
  <2>2. QED
    BY <1>1, <2>1 DEF IInv, TypeOK
<1>5. HistoryInv' /\ FillsInv' /\ LedgerInv' /\ ReplayInv'
  <2>1. HistoryInv' /\ FillsInv'
    BY <1>1 DEF IInv, HistoryInv, FillsInv
  <2>2. LedgerInv' /\ ReplayInv'
    BY <1>1 DEF IInv, LedgerInv, ReplayInv, ReplayedUpTo
  <2>3. QED
    BY <2>1, <2>2
<1>6. SavedInv'
  <2>1. LoadAccount(stored)' = history[recorded + 1]
    BY <1>2, <1>3 DEF LoadAccount
  <2>2. QED
    BY <1>1, <1>2, <2>1 DEF SavedInv
<1>7. QED
  BY <1>4, <1>5, <1>6 DEF IInv

LEMMA CrashInvariant ==
    ASSUME IInv, Crash
    PROVE  IInv'
<1>1. /\ phase' = "down" /\ account' = NoAccount /\ toReplay' = {}
      /\ recovered' = NoAccount /\ crashes' = crashes + 1
      /\ UNCHANGED <<quotes, clock, made, history, recorded, ledger, stored>>
  BY DEF Crash, store
<1>2. TypeOK'
  BY <1>1 DEF IInv, TypeOK, Phase, LoadAccount
<1>3. HistoryInv' /\ FillsInv' /\ LedgerInv' /\ SavedInv' /\ ReplayInv'
  BY <1>1 DEF IInv, HistoryInv, FillsInv, LedgerInv, SavedInv, ReplayInv, LoadAccount
<1>4. QED
  BY <1>2, <1>3 DEF IInv

LEMMA LoadFillsInvariant ==
    ASSUME IInv, LoadFills
    PROVE  IInv'
<1>1. /\ phase' = "replaying" /\ toReplay' = ledger /\ recovered' = NewAccount
      /\ UNCHANGED <<quotes, account, clock, made, history, recorded, ledger,
                     stored, crashes>>
  BY DEF LoadFills, broker, store
<1>2. phase = "down"
  BY DEF LoadFills
<1>3. TypeOK'
  BY <1>1, NewAccountType DEF IInv, TypeOK, Phase, LoadAccount
<1>4. HistoryInv' /\ FillsInv' /\ LedgerInv' /\ SavedInv'
  BY <1>1 DEF IInv, HistoryInv, FillsInv, LedgerInv, SavedInv, LoadAccount
<1>5. ReplayInv'
  <2>1. ReplayedUpTo(0)' /\ 0 \in 0 .. recorded'
    BY <1>1 DEF IInv, TypeOK, HistoryInv, LedgerInv, ReplayedUpTo
  <2>2. QED
    BY <1>1, <2>1 DEF ReplayInv
<1>6. QED
  BY <1>3, <1>4, <1>5 DEF IInv

(* The fill to be replayed next is the next one the broker made.           *)
LEMMA ReplayFillInvariant ==
    ASSUME IInv, NEW f \in toReplay, ReplayFill(f)
    PROVE  IInv'
<1>1. /\ phase = "replaying" /\ phase' = "replaying"
      /\ recovered' = Replayed(recovered, f) /\ toReplay' = toReplay \ {f}
      /\ \A g \in toReplay \ {f} : ReplaysBefore(f, g)
      /\ UNCHANGED <<quotes, account, clock, made, history, recorded, ledger,
                     stored, crashes>>
  BY DEF ReplayFill, broker, store
<1>2. PICK n \in 0 .. recorded : ReplayedUpTo(n)
  BY <1>1 DEF IInv, ReplayInv
<1>3. /\ made \in Seq(Fill) /\ recorded \in 0 .. Len(made) /\ Len(made) \in Nat
      /\ history \in Seq(BrokerAccount) /\ n \in Nat
  BY LenProperties DEF IInv, TypeOK
<1>4. PICK m \in n + 1 .. recorded : f = made[m]
  BY <1>2 DEF ReplayedUpTo
<1>5. n + 1 \in 1 .. Len(made) /\ n + 1 <= m /\ m \in 1 .. Len(made)
  BY <1>3, <1>4
<1>6. m = n + 1
  <2>1. SUFFICES ASSUME n + 1 < m PROVE FALSE
    BY <1>3, <1>4, <1>5
  <2>2. made[n + 1].filledAt < f.filledAt /\ made[n + 1] # f
    BY <1>4, <1>5, <2>1 DEF IInv, FillsInv
  <2>3. made[n + 1] \in toReplay \ {f}
    BY <1>2, <1>3, <1>4, <1>5, <2>2 DEF ReplayedUpTo
  <2>4. made[n + 1].filledAt \in Int /\ f.filledAt \in Int
    <3>1. made[n + 1] \in Fill /\ f \in Fill
      BY <1>3, <1>4, <1>5, ElementOfSeq
    <3>2. QED
      BY <3>1 DEF Fill
  <2>5. QED
    BY <1>1, <2>2, <2>3, <2>4 DEF ReplaysBefore
<1>7. recovered \in BrokerAccount /\ f \in Fill
  BY <1>2, <1>3, <1>4, <1>5, ElementOfSeq DEF ReplayedUpTo, IInv, HistoryInv
<1>8. recovered' = history[n + 2]
  BY <1>1, <1>2, <1>4, <1>5, <1>6, <1>7, <1>3, ReplayAgrees
     DEF ReplayedUpTo, IInv, HistoryInv
<1>9. toReplay' = {made[k] : k \in n + 2 .. recorded}
  <2>1. n + 1 .. recorded = {n + 1} \cup (n + 2 .. recorded)
    BY <1>3, <1>4, <1>6
  <2>2. \A k \in n + 2 .. recorded : made[k] # f
    BY <1>3, <1>4, <1>5, <1>6 DEF IInv, FillsInv
  <2>3. QED
    BY <1>1, <1>2, <1>4, <1>6, <2>1, <2>2 DEF ReplayedUpTo
<1>10. n + 1 \in 0 .. recorded /\ (n + 1) + 1 = n + 2
  BY <1>3, <1>4, <1>6
<1>11. TypeOK'
  <2>1. recovered' \in BrokerAccount
    BY <1>1, <1>7, ReplayAgrees, AfterFillType
  <2>2. QED
    BY <1>1, <2>1 DEF IInv, TypeOK, LoadAccount
<1>12. HistoryInv' /\ FillsInv' /\ LedgerInv' /\ SavedInv'
  BY <1>1 DEF IInv, HistoryInv, FillsInv, LedgerInv, SavedInv, LoadAccount
<1>13. ReplayInv'
  <2>1. ReplayedUpTo(n + 1)'
    BY <1>1, <1>3, <1>8, <1>9, <1>10 DEF ReplayedUpTo
  <2>2. QED
    BY <1>1, <1>10, <2>1 DEF ReplayInv
<1>14. QED
  BY <1>11, <1>12, <1>13 DEF IInv

LEMMA FinishRecoveryInvariant ==
    ASSUME IInv, FinishRecovery
    PROVE  IInv' /\ recovered = history[recorded + 1]
<1>1. /\ phase = "replaying" /\ phase' = "recovered" /\ toReplay = {}
      /\ UNCHANGED <<quotes, account, clock, made, history, recorded, ledger,
                     stored, toReplay, recovered, crashes>>
  BY DEF FinishRecovery, broker, store, recovery
<1>2. PICK n \in 0 .. recorded : ReplayedUpTo(n)
  BY <1>1 DEF IInv, ReplayInv
<1>3. recorded \in Nat
  BY LenProperties DEF IInv, TypeOK
<1>4. n = recorded
  BY <1>1, <1>2, <1>3 DEF ReplayedUpTo
<1>5. TypeOK'
  BY <1>1 DEF IInv, TypeOK, Phase, LoadAccount
<1>6. HistoryInv' /\ FillsInv' /\ LedgerInv' /\ SavedInv'
  BY <1>1 DEF IInv, HistoryInv, FillsInv, LedgerInv, SavedInv, LoadAccount
<1>7. ReplayInv'
  BY <1>1, <1>2, <1>4 DEF ReplayInv, ReplayedUpTo
<1>8. QED
  BY <1>2, <1>4, <1>5, <1>6, <1>7 DEF IInv, ReplayedUpTo

LEMMA StutterInvariant ==
    ASSUME IInv, UNCHANGED vars
    PROVE  IInv'
<1>1. UNCHANGED <<phase, quotes, account, clock, made, recorded, ledger, stored,
                  toReplay, recovered, crashes, history>>
  BY DEF vars, broker, store, recovery
<1>2. TypeOK'
  BY <1>1 DEF IInv, TypeOK, LoadAccount
<1>3. HistoryInv' /\ FillsInv' /\ LedgerInv'
  BY <1>1 DEF IInv, HistoryInv, FillsInv, LedgerInv
<1>4. SavedInv' /\ ReplayInv'
  BY <1>1 DEF IInv, SavedInv, ReplayInv, ReplayedUpTo, LoadAccount
<1>5. QED
  BY <1>2, <1>3, <1>4 DEF IInv

(* On a clock that advances between fills the invariant is inductive.      *)
THEOREM Invariance == ASSUME ClockAdvances PROVE Spec => []IInv
<1>1. Init => IInv
  BY InitInvariant
<1>2. IInv /\ [Next]_vars => IInv'
  <2> SUFFICES ASSUME IInv, [Next]_vars PROVE IInv'
    OBVIOUS
  <2>1. ASSUME NEW i \in Instruments, NEW q \in Quotes, SetPrices(i, q)
        PROVE  IInv'
    BY <2>1, SetPricesInvariant
  <2>2. ASSUME NEW i \in Instruments, NEW side \in PaperOrderSide,
               NEW qty \in Quantities, NEW id \in FillIds, NEW d \in ClockSteps,
               SubmitOrder(i, side, qty, id, d)
        PROVE  IInv'
    BY <2>2, SubmitOrderInvariant
  <2>3. CASE RecordFill
    BY <2>3, RecordFillInvariant
  <2>4. CASE SaveAccount
    BY <2>4, SaveAccountInvariant
  <2>5. CASE Crash
    BY <2>5, CrashInvariant
  <2>6. CASE LoadFills
    BY <2>6, LoadFillsInvariant
  <2>7. ASSUME NEW f \in toReplay, ReplayFill(f) PROVE IInv'
    BY <2>7, ReplayFillInvariant
  <2>8. CASE FinishRecovery
    BY <2>8, FinishRecoveryInvariant
  <2>9. CASE UNCHANGED vars
    BY <2>9, StutterInvariant
  <2>10. QED
    BY <2>1, <2>2, <2>3, <2>4, <2>5, <2>6, <2>7, <2>8, <2>9 DEF Next, Recovery
<1>3. QED
  BY <1>1, <1>2, PTL DEF Spec

(* Every variable always has its type; no holding is ever negative.        *)
THEOREM TypeCorrect == ASSUME ClockAdvances PROVE Spec => []TypeOK
<1>1. IInv => TypeOK
  BY DEF IInv
<1>2. QED
  BY <1>1, Invariance, PTL

(* The recovery rebuilds the account the broker had after the last fill on *)
(* disk.                                                                   *)
THEOREM RecoveredExactly == ASSUME ClockAdvances PROVE Spec => []RecoversPastAccount
<1>1. IInv => RecoversPastAccount
  BY DEF IInv, ReplayInv, ReplayedUpTo, LedgerInv, RecoversPastAccount
<1>2. QED
  BY <1>1, Invariance, PTL

(* The saved account never knows more than the ledger.                     *)
THEOREM SavedInLedger == ASSUME ClockAdvances PROVE Spec => []SavedAccountInLedger
<1>1. IInv => SavedAccountInLedger
  BY DEF IInv, SavedInv, LedgerInv, SavedAccountInLedger
<1>2. QED
  BY <1>1, Invariance, PTL

-----------------------------------------------------------------------------
(* The ledger and its replay implement DurableAccount.                     *)

LEMMA InitDurable == Init => Durable!Init
  BY DEF Init, Durable!Init

LEMMA ViewOfAccount ==
    ASSUME NEW a \in BrokerAccount PROVE a # NoAccount
  BY NoAccountAssumption

LEMMA StepDurable ==
    ASSUME IInv, IInv', [Next]_vars
    PROVE  [Durable!Next]_(Durable!vars)
<1> DEFINE view == IF phase = "recovered" THEN recovered ELSE NoAccount
<1> USE DEF Durable!Next, Durable!vars
<1>1. ASSUME NEW i \in Instruments, NEW q \in Quotes, SetPrices(i, q)
      PROVE  UNCHANGED Durable!vars
  BY <1>1 DEF SetPrices, recovery
<1>2. ASSUME NEW i \in Instruments, NEW side \in PaperOrderSide,
             NEW qty \in Quantities, NEW id \in FillIds, NEW d \in ClockSteps,
             SubmitOrder(i, side, qty, id, d)
      PROVE  Durable!Change
  <2>1. PICK a : history' = Append(history, a)
    BY <1>2 DEF SubmitOrder
  <2>2. history \in Seq(BrokerAccount) /\ history' \in Seq(BrokerAccount)
    BY DEF IInv, TypeOK
  <2>3. Len(history') = Len(history) + 1 /\ SubSeq(history', 1, Len(history)) = history
    BY <2>1, <2>2
  <2>4. phase = "live" /\ UNCHANGED <<phase, recorded, recovered>>
    BY <1>2 DEF SubmitOrder, recovery
  <2>5. QED
    BY <2>3, <2>4 DEF Durable!Change
<1>3. CASE RecordFill
  <2>1. recorded + 1 < Len(history)
    BY <1>3, LenProperties DEF RecordFill, IInv, TypeOK, HistoryInv
  <2>2. QED
    BY <1>3, <2>1 DEF RecordFill, broker, recovery, Durable!Persist
<1>4. CASE SaveAccount
  BY <1>4 DEF SaveAccount, broker, recovery
<1>5. CASE Crash
  BY <1>5 DEF Crash, Durable!Lose
<1>6. CASE LoadFills
  BY <1>6 DEF LoadFills, broker
<1>7. ASSUME NEW f \in toReplay, ReplayFill(f) PROVE UNCHANGED Durable!vars
  BY <1>7 DEF ReplayFill, broker
<1>8. CASE FinishRecovery
  <2>1. recovered = history[recorded + 1]
    BY <1>8, FinishRecoveryInvariant
  <2>2. QED
    BY <1>8, <2>1 DEF FinishRecovery, broker, recovery, Durable!Recover
<1>9. CASE UNCHANGED vars
  BY <1>9 DEF vars, broker, recovery
<1>10. QED
  BY <1>1, <1>2, <1>3, <1>4, <1>5, <1>6, <1>7, <1>8, <1>9 DEF Next, Recovery

THEOREM Refinement == ASSUME ClockAdvances PROVE Spec => LedgerIsDurable
<1>1. Init => Durable!Init
  BY InitDurable
<1>2. IInv /\ IInv' /\ [Next]_vars => [Durable!Next]_(Durable!vars)
  BY StepDurable
<1>3. QED
  BY <1>1, <1>2, Invariance, PTL DEF Spec, LedgerIsDurable, Durable!Spec
=============================================================================
