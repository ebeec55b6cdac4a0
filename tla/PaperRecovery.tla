--------------------------- MODULE PaperRecovery ---------------------------
(***************************************************************************)
(* A paper account, its fill ledger on disk, a crash, and the recovery     *)
(* that replays the ledger.  The order of the steps of the live process is *)
(* that of scripts/restore_drill.py: orders are filled by the adapter, the *)
(* fills are recorded one by one in PaperStateStore, and the account is    *)
(* saved when all are recorded.  The process may stop between any two of   *)
(* these, each of which is one SQLite transaction.                         *)
(***************************************************************************)
EXTENDS PaperAdapter, Sequences

CONSTANTS
    ClockSteps,       \* how far the wall clock may move between two fills
    FillIds,          \* the identifiers a fill may draw, ordered as integers
    MaxFills,         \* bound: fills made before the crash
    MaxCrashes,       \* bound: crashes, those during recovery included
    NoAccount         \* stands for "no such row" and for "nothing recovered"

ASSUME ClockAssumption == ClockSteps \subseteq Int
ASSUME FillIdAssumption == FillIds \subseteq Int
ASSUME BoundAssumption == MaxFills \in Nat /\ MaxCrashes \in Nat
ASSUME NoAccountAssumption == NoAccount \notin BrokerAccount

VARIABLES
    phase,       \* where the process is
    quotes,      \* the adapter's prices
    account,     \* the adapter's cash and positions, in memory
    clock,       \* the wall clock a fill is stamped with
    made,        \* the fills the adapter has reported, in order
    recorded,    \* how many of them the process has written to the store
    ledger,      \* the rows of paper_fills
    stored,      \* the rows of paper_accounts and paper_positions
    toReplay,    \* the loaded fills the recovery has yet to apply
    recovered,   \* the account the recovery is building
    crashes,     \* crashes so far
    history      \* every value the live account has had; no code keeps it

store == <<ledger, stored>>
broker == <<quotes, account, clock, made, history>>
recovery == <<toReplay, recovered>>
vars == <<phase, broker, recorded, store, recovery, crashes>>

Phase == {"live", "down", "replaying", "recovered"}

Fill == [id : FillIds, inst : Instruments, side : PaperOrderSide,
         qty : Quantities, price : Int, commission : Nat, filledAt : Int]

Init ==
    /\ phase = "live"
    /\ quotes = [i \in Instruments |-> DefaultQuote]
    /\ account = NewAccount
    /\ clock = 0
    /\ made = <<>>
    /\ recorded = 0
    /\ ledger = {}
    /\ stored = NoAccount
    /\ toReplay = {}
    /\ recovered = NoAccount
    /\ crashes = 0
    /\ history = <<NewAccount>>

-----------------------------------------------------------------------------
(* The live process.                                                       *)

SetPrices(i, q) ==
    /\ phase = "live"
    /\ quotes' = [quotes EXCEPT ![i] = q]
    /\ UNCHANGED <<phase, account, clock, made, history, recorded, store,
                   recovery, crashes>>

(* The identifier is a fresh uuid: its order says nothing of the fill's.   *)
Stamped(e, id, at) ==
    [id |-> id, inst |-> e.inst, side |-> e.side, qty |-> e.qty,
     price |-> e.price, commission |-> e.commission, filledAt |-> at]

Fresh(id) == \A k \in 1 .. Len(made) : made[k].id # id

SubmitOrder(i, side, qty, id, d) ==
    LET f == Stamped(Executed(i, side, qty, quotes[i]), id, clock + d)
    IN  /\ phase = "live"
        /\ Len(made) < MaxFills
        /\ Fresh(id)
        /\ clock' = clock + d
        /\ account' = AfterFill(account, f)
        /\ made' = Append(made, f)
        /\ history' = Append(history, AfterFill(account, f))
        /\ UNCHANGED <<phase, quotes, recorded, store, recovery, crashes>>

(* INSERT ... ON CONFLICT(fill_id) DO NOTHING *)
WithRow(rows, f) ==
    IF \E g \in rows : g.id = f.id THEN rows ELSE rows \cup {f}

RecordFill ==
    /\ phase = "live"
    /\ recorded < Len(made)
    /\ ledger' = WithRow(ledger, made[recorded + 1])
    /\ recorded' = recorded + 1
    /\ UNCHANGED <<phase, broker, stored, recovery, crashes>>

(* The position rows of an account: one per instrument it holds.           *)
PositionRows(a) ==
    [i \in {j \in Instruments : a.held[j] > 0} |-> a.held[i]]

(* A plausible bug: the position rows are added to those already there.    *)
Saved_NoDelete(old, a) ==
    LET new  == PositionRows(a)
        kept == IF old = NoAccount THEN [i \in {} |-> 0] ELSE old.rows
    IN  [cash |-> a.cash,
         rows |-> [i \in DOMAIN new \cup DOMAIN kept |->
                      IF i \in DOMAIN new THEN new[i] ELSE kept[i]]]

(* The account row is replaced, the position rows are deleted and written  *)
(* again, all in one transaction.                                          *)
Saved(old, a) == [cash |-> a.cash, rows |-> PositionRows(a)]

SaveAccount ==
    /\ phase = "live"
    /\ recorded = Len(made)
    /\ stored' = Saved(stored, account)
    /\ UNCHANGED <<phase, broker, recorded, ledger, recovery, crashes>>

LoadAccount(s) ==
    [cash |-> s.cash,
     held |-> [i \in Instruments |-> IF i \in DOMAIN s.rows THEN s.rows[i] ELSE 0]]

-----------------------------------------------------------------------------
(* Crash and recovery.                                                     *)

(* Everything in memory is gone; the store is not.                         *)
Crash ==
    /\ phase # "down"
    /\ crashes < MaxCrashes
    /\ phase' = "down"
    /\ crashes' = crashes + 1
    /\ account' = NoAccount
    /\ toReplay' = {}
    /\ recovered' = NoAccount
    /\ UNCHANGED <<quotes, clock, made, history, recorded, store>>

(* load_fills, and the account reconstruct_from_fills starts from.         *)
LoadFills ==
    /\ phase = "down"
    /\ phase' = "replaying"
    /\ toReplay' = ledger
    /\ recovered' = NewAccount
    /\ UNCHANGED <<broker, recorded, store, crashes>>

(* A plausible bug: the rows are ordered by their key.                     *)
ReplaysBefore_ById(f, g) == f.id < g.id

(* The rows are read in the order of (filled_at, fill_id), and the sort by *)
(* filled_at that follows is stable.                                       *)
ReplaysBefore(f, g) ==
    \/ f.filledAt < g.filledAt
    \/ f.filledAt = g.filledAt /\ f.id < g.id

(* A plausible bug: a sale is replayed without its commission.             *)
Replayed_GrossSale(a, f) ==
    IF f.side = "BUY" THEN AfterFill(a, f)
    ELSE AfterFill(a, [f EXCEPT !.commission = 0])

(* The body of the replay loop.                                            *)
Replayed(a, f) ==
    IF f.side = "BUY"
    THEN [cash |-> a.cash - (f.price * f.qty + f.commission),
          held |-> [a.held EXCEPT ![f.inst] = @ + f.qty]]
    ELSE [cash |-> a.cash + (f.price * f.qty - f.commission),
          held |-> [a.held EXCEPT ![f.inst] =
                        IF @ - f.qty <= 0 THEN 0 ELSE @ - f.qty]]

ReplayFill(f) ==
    /\ phase = "replaying"
    /\ f \in toReplay
    /\ \A g \in toReplay \ {f} : ReplaysBefore(f, g)
    /\ recovered' = Replayed(recovered, f)
    /\ toReplay' = toReplay \ {f}
    /\ UNCHANGED <<phase, broker, recorded, store, crashes>>

(* A plausible bug: an empty ledger is taken for a missing one.            *)
FinishRecovery_NeedsFills ==
    /\ phase = "replaying"
    /\ toReplay = {} /\ ledger # {}
    /\ phase' = "recovered"
    /\ UNCHANGED <<broker, recorded, store, recovery, crashes>>

FinishRecovery ==
    /\ phase = "replaying"
    /\ toReplay = {}
    /\ phase' = "recovered"
    /\ UNCHANGED <<broker, recorded, store, recovery, crashes>>

Recovery == LoadFills \/ (\E f \in toReplay : ReplayFill(f)) \/ FinishRecovery

-----------------------------------------------------------------------------
Next ==
    \/ \E i \in Instruments, q \in Quotes : SetPrices(i, q)
    \/ \E i \in Instruments, side \in PaperOrderSide, qty \in Quantities,
          id \in FillIds, d \in ClockSteps : SubmitOrder(i, side, qty, id, d)
    \/ RecordFill
    \/ SaveAccount
    \/ Crash
    \/ Recovery

Spec == Init /\ [][Next]_vars

(* Once restarted, the recovery is one thread that runs to its end.        *)
FairSpec == Spec /\ WF_vars(Recovery)
=============================================================================
